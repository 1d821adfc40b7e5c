--------------------------- MODULE RequestsProofs ---------------------------
(* The safety of the parts that guard a request and of those that keep the *)
(* process that serves it, for any number of callers, logins, tabs, jobs,  *)
(* listeners and operators, and any thresholds, leases and limits that     *)
(* PartsAssumption allows.  Each part has an inductive invariant; the last *)
(* section puts them side by side.                                         *)
EXTENDS Requests, FiniteSetTheorems, TLAPS

-----------------------------------------------------------------------------
(* The circuit breaker.                                                    *)

BreakerInv == TypeOK /\ OneProbe /\ HalfOpenHasProbe /\ ClosedBelowThreshold

\* The breaker's invariant holds at the start and through every call that settles.
LEMMA BreakerStart == Init => BreakerInv
<1> SUFFICES ASSUME Init PROVE BreakerInv
  OBVIOUS
<1>1. elapsed \in BOOLEAN /\ probing \in BOOLEAN
  BY Zenon DEF Init
<1> QED
  BY <1>1, FailureThresholdAssumption
     DEF Init, BreakerInv, TypeOK, OneProbe, HalfOpenHasProbe, ClosedBelowThreshold

LEMMA BreakerStep ==
    ASSUME BreakerInv, [Next]_vars
    PROVE  BreakerInv'
<1> USE FailureThresholdAssumption DEF BreakerInv, TypeOK
<1>1. TypeOK'
  <2>1. CASE Elapse
    BY <2>1 DEF Elapse
  <2>2. ASSUME NEW c \in Calls, Fire(c) PROVE TypeOK'
    BY <2>2 DEF Fire, FireClosed, FireProbe, FireRejected
  <2>3. ASSUME NEW c \in Calls, Succeed(c) PROVE TypeOK'
    BY <2>3 DEF Succeed, Settled
  <2>4. ASSUME NEW c \in Calls, Fail(c) PROVE TypeOK'
    BY <2>4 DEF Fail, Settled, Trips
  <2>5. CASE UNCHANGED vars
    BY <2>5 DEF vars
  <2> QED
    BY <2>1, <2>2, <2>3, <2>4, <2>5 DEF Next, Settles
<1>2. OneProbe'
  <2> USE DEF OneProbe
  <2>1. CASE Elapse
    BY <2>1 DEF Elapse
  <2>2. ASSUME NEW c \in Calls, Fire(c) PROVE OneProbe'
    BY <2>2 DEF Fire, FireClosed, FireProbe, FireRejected
  <2>3. ASSUME NEW c \in Calls, Settled(c) PROVE OneProbe'
    BY <2>3 DEF Settled
  <2>4. CASE UNCHANGED vars
    BY <2>4 DEF vars
  <2> QED
    BY <2>1, <2>2, <2>3, <2>4 DEF Next, Settles, Succeed, Fail
<1>3. (HalfOpenHasProbe /\ ClosedBelowThreshold)'
  <2> USE DEF HalfOpenHasProbe, ClosedBelowThreshold
  <2>1. CASE Elapse
    BY <2>1 DEF Elapse
  <2>2. ASSUME NEW c \in Calls, Fire(c) PROVE (HalfOpenHasProbe /\ ClosedBelowThreshold)'
    BY <2>2 DEF Fire, FireClosed, FireProbe, FireRejected, AllowsProbe
  <2>3. ASSUME NEW c \in Calls, Succeed(c) PROVE (HalfOpenHasProbe /\ ClosedBelowThreshold)'
    BY <2>3 DEF Succeed
  <2>4. ASSUME NEW c \in Calls, Fail(c) PROVE (HalfOpenHasProbe /\ ClosedBelowThreshold)'
    BY <2>4 DEF Fail, Trips, Settled
  <2>5. CASE UNCHANGED vars
    BY <2>5 DEF vars
  <2> QED
    BY <2>1, <2>2, <2>3, <2>4, <2>5 DEF Next, Settles
<1> QED
  BY <1>1, <1>2, <1>3

-----------------------------------------------------------------------------
(* The login lockout.                                                      *)

\* The attempts with a marker of a key still to set; of this window, since its
\* markers outlive it, or late.
Held(k) == {a \in Logins : due[a][k] > 0}
Marking(k) == {a \in Logins : due[a][k] > 0 /\ due[a][k] >= window[k]}
LateFor(k) == {a \in Logins : due[a][k] > 0 /\ due[a][k] < window[k]}

\* The attempts that may count one more failure on a key whose marker is set:
\* they are past their look at it.
PastLook(k) ==
    {a \in Lockout!Under(k) :
        \/ loginPc[a] = "look" /\ k \notin calls[a] /\ a \notin locked
        \/ loginPc[a] = "password"
        \/ loginPc[a] = "count" /\ k \in calls[a]}

AttemptsFit ==
    \A a \in Logins :
        /\ loginPc[a] \in {"idle", "password"} => calls[a] = {}
        /\ a \in locked => loginPc[a] = "look"
        /\ \A k \in Keys : due[a][k] > 0 => loginPc[a] = "count" /\ k \in KeysOf[a] \ calls[a]

\* What the failures of a key leave for those that are still to come: a call
\* that was late or failed, and a login, let each attempt count once more.
Room(k) == Cardinality(Lockout!Under(k)) * (excused[k] - Cardinality(LateFor(k)))
KeyBounded(k) ==
    /\ window[k] = 0 => Cardinality(Held(k)) <= excused[k]
    /\ Cardinality(LateFor(k)) <= excused[k]
    /\ IF marker[k] < window[k]
         THEN count[k] <= Limit[k] - 1 + Cardinality(Marking(k)) + Room(k)
         ELSE count[k] + Cardinality(PastLook(k))
                  <= Limit[k] - 1 + Cardinality(Lockout!Under(k)) + Room(k)

LockoutInv == Lockout!TypeOK /\ AttemptsFit /\ \A k \in Keys : KeyBounded(k)

\* The instance's cardinality is the library's.
LEMMA LockoutCardinality ==
    ASSUME NEW S
    PROVE  /\ Lockout!Cardinality(S) = Cardinality(S)
           /\ Lockout!IsFiniteSet(S) <=> IsFiniteSet(S)
BY DEF Lockout!Cardinality, Cardinality, Lockout!IsFiniteSet, IsFiniteSet

\* The products of naturals that the bound is made of.
LEMMA Times ==
    ASSUME NEW u \in Nat, NEW x \in Nat
    PROVE  u * x \in Nat /\ u * (x + 1) = u * x + u
OBVIOUS

\* More room for the same attempts is more failures.
LEMMA TimesMonotone ==
    ASSUME NEW u \in Nat, NEW x \in Nat, NEW y \in Nat, x <= y
    PROVE  u * x <= u * y
<1>1. PICK d \in Nat : y = x + d
  BY y - x \in Nat
<1>2. u * y = u * x + u * d
  BY <1>1
<1>3. u * x \in Nat /\ u * d \in Nat
  OBVIOUS
<1> QED
  BY <1>2, <1>3

\* What the calls of an attempt for a key change.
LEMMA HitDoes ==
    ASSUME Lockout!TypeOK, AttemptsFit, NEW a \in Logins, NEW k \in Keys, Lockout!Hit(a, k)
    PROVE  /\ loginPc[a] = "count" /\ k \in calls[a] /\ due[a][k] = 0
           /\ count'[k] = count[k] + 1
           /\ window'[k] = IF window[k] = 0 THEN Window ELSE window[k]
           /\ due'[a][k] = IF count[k] + 1 >= Limit[k] THEN window'[k] ELSE 0
           /\ calls'[a] = calls[a] \ {k}
           /\ \A j \in Keys \ {k} : count'[j] = count[j] /\ window'[j] = window[j]
           /\ \A b \in Logins : b # a => calls'[b] = calls[b]
           /\ \A b \in Logins, j \in Keys : b # a \/ j # k => due'[b][j] = due[b][j]
           /\ UNCHANGED <<marker, loginPc, locked, excused, logins, loginFaults>>
<1> USE DEF Lockout!TypeOK, AttemptsFit
<1>1. /\ loginPc[a] = "count" /\ k \in calls[a] /\ due[a][k] = 0
      /\ UNCHANGED <<marker, loginPc, locked, excused, logins, loginFaults>>
  BY DEF Lockout!Hit, Lockout!bounds
<1>2. /\ count'[k] = count[k] + 1
      /\ window'[k] = IF window[k] = 0 THEN Window ELSE window[k]
      /\ calls'[a] = calls[a] \ {k}
      /\ \A j \in Keys \ {k} : count'[j] = count[j] /\ window'[j] = window[j]
      /\ \A b \in Logins : b # a => calls'[b] = calls[b]
  BY DEF Lockout!Hit, Lockout!Called, Lockout!WindowAfterHit
<1>3. /\ due'[a][k] = IF count[k] + 1 >= Limit[k] THEN window'[k] ELSE 0
      /\ \A b \in Logins, j \in Keys : b # a \/ j # k => due'[b][j] = due[b][j]
  BY <1>2 DEF Lockout!Hit, Lockout!Reached
<1> QED
  BY <1>1, <1>2, <1>3

\* A call that fails is over, and nothing of the key changes but its bound.
LEMMA CallFailsDoes ==
    ASSUME Lockout!TypeOK, AttemptsFit, NEW a \in Logins, NEW k \in Keys,
           Lockout!CallFails(a, k)
    PROVE  /\ \/ k \in calls[a] /\ calls' = [calls EXCEPT ![a] = @ \ {k}] /\ due' = due
              \/ due[a][k] > 0 /\ due' = [due EXCEPT ![a][k] = 0] /\ calls' = calls
           /\ loginFaults < MaxLateCalls /\ loginFaults' = loginFaults + 1
           /\ excused' = [excused EXCEPT ![k] = @ + 1]
           /\ UNCHANGED <<count, window, marker, loginPc, locked, logins>>
BY DEF Lockout!CallFails, Lockout!Called, Lockout!Fault, Lockout!stores

\* The steps of an attempt keep every counter and marker in its range.
LEMMA LockoutTypes ==
    ASSUME Lockout!LockoutAssumption, Lockout!TypeOK, AttemptsFit, [Lockout!Next]_lockoutVars
    PROVE  Lockout!TypeOK'
<1> USE DEF Lockout!LockoutAssumption, Lockout!TypeOK, Lockout!stores, Lockout!attempt,
       Lockout!bounds
<1>1. CASE Lockout!Tick
  <2>1. \A k \in Keys : excused'[k] \in Nat
    <3>1. \A k \in Keys : Lockout!Cardinality(Lockout!Late(k)) \in Nat
      <4> SUFFICES ASSUME NEW k \in Keys PROVE Lockout!Cardinality(Lockout!Late(k)) \in Nat
        OBVIOUS
      <4>1. Lockout!Late(k) \subseteq Logins /\ IsFiniteSet(Logins)
        BY LockoutCardinality DEF Lockout!Late
      <4> QED
        BY <4>1, FS_Subset, FS_CardinalityType, LockoutCardinality
    <3> QED
      BY <1>1, <3>1 DEF Lockout!Tick
  <2>2. excused' \in [Keys -> Nat]
    BY <1>1, <2>1 DEF Lockout!Tick
  <2>3. loginFaults' \in 0..MaxLateCalls
    BY <1>1 DEF Lockout!Tick, Lockout!Fault
  <2> QED
    BY <1>1, <2>2, <2>3 DEF Lockout!Tick, Lockout!Down
<1>2. ASSUME NEW a \in Logins, Lockout!Begin(a) PROVE Lockout!TypeOK'
  BY <1>2 DEF Lockout!Begin, Lockout!Enter
<1>3. ASSUME NEW a \in Logins, Lockout!RightPassword(a) PROVE Lockout!TypeOK'
  BY <1>3 DEF Lockout!RightPassword, Lockout!Enter
<1>4. ASSUME NEW a \in Logins, Lockout!InactiveAccount(a) PROVE Lockout!TypeOK'
  BY <1>4 DEF Lockout!InactiveAccount, Lockout!Enter
<1>5. ASSUME NEW a \in Logins, Lockout!Looked(a) PROVE Lockout!TypeOK'
  BY <1>5 DEF Lockout!Looked, Lockout!Enter
<1>6. ASSUME NEW a \in Logins, Lockout!WrongPassword(a) PROVE Lockout!TypeOK'
  BY <1>6 DEF Lockout!WrongPassword, Lockout!Enter
<1>7. ASSUME NEW a \in Logins, Lockout!Finish(a) PROVE Lockout!TypeOK'
  BY <1>7 DEF Lockout!Finish, Lockout!Enter
<1>8. ASSUME NEW a \in Logins, NEW k \in Keys, Lockout!Look(a, k) PROVE Lockout!TypeOK'
  BY <1>8 DEF Lockout!Look, Lockout!Called
<1>9. ASSUME NEW a \in Logins, NEW k \in Keys, Lockout!Hit(a, k) PROVE Lockout!TypeOK'
  BY <1>9 DEF Lockout!Hit, Lockout!Called, Lockout!Reached, Lockout!WindowAfterHit
<1>10. ASSUME NEW a \in Logins, NEW k \in Keys, Lockout!SetMarker(a, k) PROVE Lockout!TypeOK'
  BY <1>10 DEF Lockout!SetMarker
<1>11. ASSUME NEW a \in Logins, NEW k \in Keys, Lockout!Clear(a, k) PROVE Lockout!TypeOK'
  BY <1>11 DEF Lockout!Clear, Lockout!Called
<1>12. ASSUME NEW a \in Logins, NEW k \in Keys, Lockout!CallFails(a, k) PROVE Lockout!TypeOK'
  <2>1. /\ loginFaults' \in 0..MaxLateCalls /\ excused' \in [Keys -> Nat]
        /\ UNCHANGED <<count, window, marker, loginPc, locked, logins>>
    BY <1>12, CallFailsDoes
  <2>2. /\ calls' \in [Logins -> SUBSET Keys] /\ \A b \in Logins : calls'[b] \subseteq KeysOf[b]
        /\ due' \in [Logins -> [Keys -> 0..Window]]
    <3>1. CASE calls' = [calls EXCEPT ![a] = @ \ {k}] /\ due' = due
      BY <3>1
    <3>2. CASE due' = [due EXCEPT ![a][k] = 0] /\ calls' = calls
      BY <3>2
    <3> QED
      BY <1>12, <3>1, <3>2, CallFailsDoes
  <2> QED
    BY <2>1, <2>2
<1>13. CASE UNCHANGED lockoutVars
  BY <1>13 DEF lockoutVars
<1> QED
  BY <1>1, <1>2, <1>3, <1>4, <1>5, <1>6, <1>7, <1>8, <1>9, <1>10, <1>11, <1>12, <1>13
     DEF Lockout!Next, Lockout!Step

\* An attempt that has calls to make is past its password.
LEMMA LockoutFits ==
    ASSUME Lockout!LockoutAssumption, Lockout!TypeOK, AttemptsFit, [Lockout!Next]_lockoutVars
    PROVE  AttemptsFit'
<1> USE DEF AttemptsFit, Lockout!LockoutAssumption, Lockout!TypeOK, Lockout!stores, Lockout!attempt,
       Lockout!bounds
<1>1. CASE Lockout!Tick
  BY <1>1 DEF Lockout!Tick
<1>2. ASSUME NEW a \in Logins, Lockout!Begin(a) PROVE AttemptsFit'
  BY <1>2 DEF Lockout!Begin, Lockout!Enter
<1>3. ASSUME NEW a \in Logins, Lockout!RightPassword(a) PROVE AttemptsFit'
  BY <1>3 DEF Lockout!RightPassword, Lockout!Enter
<1>4. ASSUME NEW a \in Logins, Lockout!InactiveAccount(a) PROVE AttemptsFit'
  BY <1>4 DEF Lockout!InactiveAccount, Lockout!Enter
<1>5. ASSUME NEW a \in Logins, Lockout!Looked(a) PROVE AttemptsFit'
  BY <1>5 DEF Lockout!Looked, Lockout!Enter
<1>6. ASSUME NEW a \in Logins, Lockout!WrongPassword(a) PROVE AttemptsFit'
  BY <1>6 DEF Lockout!WrongPassword, Lockout!Enter
<1>7. ASSUME NEW a \in Logins, Lockout!Finish(a) PROVE AttemptsFit'
  BY <1>7 DEF Lockout!Finish, Lockout!Enter, Lockout!Waiting
<1>8. ASSUME NEW a \in Logins, NEW k \in Keys, Lockout!Look(a, k) PROVE AttemptsFit'
  BY <1>8 DEF Lockout!Look, Lockout!Called
<1>9. ASSUME NEW a \in Logins, NEW k \in Keys, Lockout!Hit(a, k) PROVE AttemptsFit'
  BY <1>9, HitDoes
<1>10. ASSUME NEW a \in Logins, NEW k \in Keys, Lockout!SetMarker(a, k) PROVE AttemptsFit'
  BY <1>10 DEF Lockout!SetMarker
<1>11. ASSUME NEW a \in Logins, NEW k \in Keys, Lockout!Clear(a, k) PROVE AttemptsFit'
  BY <1>11 DEF Lockout!Clear, Lockout!Called
<1>12. ASSUME NEW a \in Logins, NEW k \in Keys, Lockout!CallFails(a, k) PROVE AttemptsFit'
  <2>1. loginPc' = loginPc /\ locked' = locked
    BY <1>12, CallFailsDoes
  <2>2. CASE k \in calls[a] /\ calls' = [calls EXCEPT ![a] = @ \ {k}] /\ due' = due
    BY <2>1, <2>2
  <2>3. CASE due[a][k] > 0 /\ due' = [due EXCEPT ![a][k] = 0] /\ calls' = calls
    BY <2>1, <2>3
  <2> QED
    BY <1>12, <2>2, <2>3, CallFailsDoes
<1>13. CASE UNCHANGED lockoutVars
  BY <1>13 DEF lockoutVars
<1> QED
  BY <1>1, <1>2, <1>3, <1>4, <1>5, <1>6, <1>7, <1>8, <1>9, <1>10, <1>11, <1>12, <1>13
     DEF Lockout!Next, Lockout!Step


\* The sizes of the sets of attempts, by inclusion.
LEMMA Sizes ==
    ASSUME IsFiniteSet(Logins), NEW S \in SUBSET Logins, NEW T \in SUBSET Logins
    PROVE  /\ Cardinality(S) \in Nat
           /\ S \subseteq T => Cardinality(S) <= Cardinality(T)
           /\ S \cap T = {} => Cardinality(S \cup T) = Cardinality(S) + Cardinality(T)
           /\ \A a \in S : S \ {a} = T => Cardinality(T) = Cardinality(S) - 1
<1>1. IsFiniteSet(S) /\ IsFiniteSet(T)
  BY FS_Subset
<1>2. Cardinality(S) \in Nat /\ Cardinality(T) \in Nat
  BY <1>1, FS_CardinalityType
<1>3. S \subseteq T => Cardinality(S) <= Cardinality(T)
  BY <1>1, FS_Subset
<1>4. S \cap T = {} => Cardinality(S \cup T) = Cardinality(S) + Cardinality(T)
  <2> SUFFICES ASSUME S \cap T = {}
               PROVE  Cardinality(S \cup T) = Cardinality(S) + Cardinality(T)
    OBVIOUS
  <2>1. Cardinality(S \cap T) = 0
    BY FS_EmptySet
  <2> QED
    <3>1. Cardinality(S \cup T) = Cardinality(S) + Cardinality(T) - Cardinality(S \cap T)
      BY <1>1, FS_Union, Zenon
    <3> QED
      BY <1>2, <2>1, <3>1
<1>5. \A a \in S : S \ {a} = T => Cardinality(T) = Cardinality(S) - 1
  BY <1>1, FS_RemoveElement
<1> QED
  BY <1>2, <1>3, <1>4, <1>5

\* The sets the bound counts, and that they leave room for each other.
LEMMA LockoutSizes ==
    ASSUME Lockout!LockoutAssumption, AttemptsFit, NEW k \in Keys
    PROVE  /\ IsFiniteSet(Logins)
           /\ Marking(k) \subseteq Held(k) /\ LateFor(k) \subseteq Held(k)
           /\ Held(k) \subseteq Lockout!Under(k) /\ PastLook(k) \subseteq Lockout!Under(k)
           /\ Marking(k) \cap PastLook(k) = {}
           /\ Lockout!Under(k) \subseteq Logins
<1>1. IsFiniteSet(Logins)
  BY LockoutCardinality DEF Lockout!LockoutAssumption
<1>2. Held(k) \subseteq Lockout!Under(k) /\ Lockout!Under(k) \subseteq Logins
  BY DEF AttemptsFit, Held, Lockout!Under
<1>3. Marking(k) \cap PastLook(k) = {}
  BY DEF AttemptsFit, Marking, PastLook, Lockout!Under
<1> QED
  BY <1>1, <1>2, <1>3 DEF Marking, LateFor, Held, PastLook

\* The bound of a key in the numbers it is made of.
LEMMA LockoutNumbers ==
    ASSUME Lockout!LockoutAssumption, Lockout!TypeOK, AttemptsFit, NEW k \in Keys,
           Cardinality(LateFor(k)) <= excused[k]
    PROVE  /\ Cardinality(Lockout!Under(k)) \in Nat /\ Room(k) \in Nat
           /\ Cardinality(Held(k)) \in Nat /\ Cardinality(PastLook(k)) \in Nat
           /\ Cardinality(Marking(k)) \in Nat /\ Cardinality(LateFor(k)) \in Nat
           /\ Cardinality(PastLook(k)) <= Cardinality(Lockout!Under(k))
           /\ Cardinality(Held(k)) <= Cardinality(Lockout!Under(k))
           /\ Cardinality(Marking(k)) + Cardinality(PastLook(k)) <= Cardinality(Lockout!Under(k))
           /\ count[k] \in Nat /\ excused[k] \in Nat /\ window[k] \in Nat /\ marker[k] \in Nat
           /\ Limit[k] \in Nat /\ Limit[k] >= 1
<1>1. /\ count[k] \in Nat /\ excused[k] \in Nat /\ window[k] \in Nat /\ marker[k] \in Nat
      /\ Limit[k] \in Nat /\ Limit[k] >= 1
  BY DEF Lockout!TypeOK, Lockout!LockoutAssumption
<1>2. /\ IsFiniteSet(Logins) /\ Lockout!Under(k) \in SUBSET Logins
      /\ Held(k) \in SUBSET Logins /\ Held(k) \subseteq Lockout!Under(k)
      /\ PastLook(k) \in SUBSET Logins /\ PastLook(k) \subseteq Lockout!Under(k)
      /\ Marking(k) \in SUBSET Logins /\ Marking(k) \subseteq Lockout!Under(k)
      /\ LateFor(k) \in SUBSET Logins /\ Marking(k) \cap PastLook(k) = {}
      /\ Marking(k) \cup PastLook(k) \in SUBSET Logins
      /\ Marking(k) \cup PastLook(k) \subseteq Lockout!Under(k)
  BY LockoutSizes
<1>3. /\ Cardinality(Lockout!Under(k)) \in Nat
      /\ Cardinality(Held(k)) \in Nat /\ Cardinality(PastLook(k)) \in Nat
      /\ Cardinality(Marking(k)) \in Nat /\ Cardinality(LateFor(k)) \in Nat
  BY <1>2, Sizes
<1>4. /\ Cardinality(PastLook(k)) <= Cardinality(Lockout!Under(k))
      /\ Cardinality(Held(k)) <= Cardinality(Lockout!Under(k))
  BY <1>2, Sizes
<1>5. Cardinality(Marking(k)) + Cardinality(PastLook(k)) <= Cardinality(Lockout!Under(k))
  <2>1. Cardinality(Marking(k) \cup PastLook(k))
            = Cardinality(Marking(k)) + Cardinality(PastLook(k))
    BY <1>2, Sizes
  <2>2. Cardinality(Marking(k) \cup PastLook(k)) <= Cardinality(Lockout!Under(k))
    BY <1>2, Sizes
  <2> QED
    BY <2>1, <2>2
<1>6. Room(k) \in Nat
  <2>1. excused[k] - Cardinality(LateFor(k)) \in Nat
    BY <1>1, <1>3
  <2> QED
    BY <1>3, <2>1, Times DEF Room
<1> QED
  BY <1>1, <1>3, <1>4, <1>5, <1>6

\* A key none of whose calls is made keeps its bound.
LEMMA KeyKept ==
    ASSUME Lockout!LockoutAssumption, Lockout!TypeOK, AttemptsFit, NEW k \in Keys,
           KeyBounded(k),
           UNCHANGED <<count[k], window[k], marker[k], excused[k]>>,
           \A a \in Logins : due'[a][k] = due[a][k],
           PastLook(k)' \subseteq PastLook(k) \/ window[k] = 0
    PROVE  KeyBounded(k)'
<1>1. Held(k)' = Held(k) /\ Marking(k)' = Marking(k) /\ LateFor(k)' = LateFor(k)
  BY DEF Held, Marking, LateFor
<1>2. Room(k)' = Room(k)
  BY <1>1 DEF Room, Lockout!Under
<1>3. PastLook(k)' \subseteq Lockout!Under(k)
  BY DEF PastLook, Lockout!Under
<1> QED
  <2>1. Lockout!Under(k)' = Lockout!Under(k)
    BY DEF Lockout!Under
  <2>2. CASE window[k] = 0
    <3>1. count[k] = 0 /\ PastLook(k)' \in SUBSET Logins /\ Lockout!Under(k) \in SUBSET Logins
          /\ IsFiniteSet(Logins)
      BY <1>3, <2>2, LockoutSizes DEF Lockout!TypeOK
    <3>2. Cardinality(PastLook(k)') <= Cardinality(Lockout!Under(k))
          /\ Cardinality(PastLook(k)') \in Nat
      BY <1>3, <3>1, Sizes
    <3> QED
      BY <1>1, <1>2, <2>1, <2>2, <3>1, <3>2, LockoutNumbers DEF KeyBounded
  <2>3. CASE window[k] # 0
    <3>1. PastLook(k)' \in SUBSET Logins /\ PastLook(k) \in SUBSET Logins /\ IsFiniteSet(Logins)
      BY <1>3, LockoutSizes
    <3>2. Cardinality(PastLook(k)') <= Cardinality(PastLook(k))
          /\ Cardinality(PastLook(k)') \in Nat
      BY <2>3, <3>1, Sizes
    <3> QED
      BY <1>1, <1>2, <2>1, <2>3, <3>2, LockoutNumbers DEF KeyBounded
  <2> QED
    BY <2>2, <2>3

\* A late marker that is set or lost, a failed call and a login leave room for
\* one more failure of each attempt.
LEMMA RoomGrows ==
    ASSUME NEW u \in Nat, NEW s \in Nat, NEW t \in Nat
    PROVE  /\ s <= t => u * s <= u * t
           /\ s + 1 <= t => u * s + u <= u * t
           /\ u * t \in Nat
<1>1. s <= t => u * s <= u * t
  BY TimesMonotone
<1>2. ASSUME s + 1 <= t PROVE u * s + u <= u * t
  <2>1. u * (s + 1) <= u * t
    BY <1>2, TimesMonotone
  <2> QED
    BY <2>1, Times
<1> QED
  BY <1>1, <1>2, Times

\* A failure counted: the room it takes is one look's, or it makes the marker due.
LEMMA HitKey ==
    ASSUME Lockout!LockoutAssumption, Lockout!TypeOK, AttemptsFit, NEW a \in Logins,
           NEW k \in Keys, KeyBounded(k), Lockout!Hit(a, k)
    PROVE  KeyBounded(k)'
<1> DEFINE U == Cardinality(Lockout!Under(k))
<1>1. /\ loginPc[a] = "count" /\ k \in calls[a] /\ due[a][k] = 0
      /\ count'[k] = count[k] + 1
      /\ window'[k] = IF window[k] = 0 THEN Window ELSE window[k]
      /\ due'[a][k] = IF count[k] + 1 >= Limit[k] THEN window'[k] ELSE 0
      /\ \A b \in Logins : b # a => due'[b][k] = due[b][k] /\ calls'[b] = calls[b]
      /\ calls'[a] = calls[a] \ {k}
      /\ UNCHANGED <<marker, loginPc, locked, excused>>
  BY HitDoes
<1>2. /\ Window \in Nat \ {0} /\ marker[k] <= Window /\ a \in Lockout!Under(k)
      /\ (window[k] = 0 => count[k] = 0) /\ window[k] \in Nat
  BY <1>1 DEF Lockout!LockoutAssumption, Lockout!TypeOK, Lockout!Under
<1>3. PastLook(k)' = PastLook(k) \ {a} /\ a \in PastLook(k)
  BY <1>1, <1>2 DEF PastLook, Lockout!Under
<1>4. /\ IsFiniteSet(Logins) /\ PastLook(k) \in SUBSET Logins /\ PastLook(k)' \in SUBSET Logins
      /\ Marking(k) \in SUBSET Logins /\ LateFor(k) \in SUBSET Logins
      /\ Marking(k)' \in SUBSET Logins /\ LateFor(k)' \in SUBSET Logins
      /\ Held(k) \in SUBSET Logins
  BY <1>3, LockoutSizes DEF Marking, LateFor
<1>5. Cardinality(PastLook(k)') = Cardinality(PastLook(k)) - 1
  BY <1>3, <1>4, Sizes
<1>6. /\ Cardinality(Marking(k)') \in Nat /\ Cardinality(LateFor(k)') \in Nat
      /\ Lockout!Under(k)' = Lockout!Under(k)
  BY <1>4, Sizes DEF Lockout!Under
<1>7. Cardinality(LateFor(k)) <= excused[k]
  BY DEF KeyBounded
<1>8. CASE window[k] # 0
  <2>1. LateFor(k)' = LateFor(k)
    BY <1>1, <1>2, <1>8 DEF LateFor
  <2>2. Room(k)' = Room(k)
    BY <1>1, <1>6, <2>1 DEF Room
  <2>3. count[k] + 1 >= Limit[k] => Cardinality(Marking(k)') = Cardinality(Marking(k)) + 1
    <3> SUFFICES ASSUME count[k] + 1 >= Limit[k]
                 PROVE  Cardinality(Marking(k)') = Cardinality(Marking(k)) + 1
      OBVIOUS
    <3>1. a \in Marking(k)' /\ Marking(k)' \ {a} = Marking(k)
      BY <1>1, <1>2, <1>8 DEF Marking
    <3>2. Cardinality(Marking(k)) = Cardinality(Marking(k)') - 1
      BY <1>4, <3>1, Sizes
    <3> QED
      BY <1>6, <3>2
  <2> QED
    BY <1>1, <1>2, <1>5, <1>6, <1>7, <1>8, <2>1, <2>2, <2>3, LockoutNumbers DEF KeyBounded
<1>9. CASE window[k] = 0
  <2>1. LateFor(k)' \subseteq Held(k)
    BY <1>1, <1>2, <1>9 DEF LateFor, Held
  <2>2. Cardinality(LateFor(k)') <= excused[k]
    <3>1. Cardinality(LateFor(k)') <= Cardinality(Held(k))
      BY <1>4, <2>1, Sizes
    <3> QED
      BY <1>6, <1>7, <1>9, <3>1, LockoutNumbers DEF KeyBounded
  <2>3. Room(k)' \in Nat
    <3>1. excused[k] - Cardinality(LateFor(k)') \in Nat /\ U \in Nat
      BY <1>6, <1>7, <2>2, LockoutNumbers
    <3> QED
      BY <1>1, <1>6, <3>1, Times DEF Room
  <2>4. Limit[k] = 1 => Cardinality(Marking(k)') >= 1
    <3> SUFFICES ASSUME Limit[k] = 1 PROVE Cardinality(Marking(k)') >= 1
      OBVIOUS
    <3>1. a \in Marking(k)' /\ Marking(k)' \ {a} \in SUBSET Logins
      BY <1>1, <1>2, <1>4, <1>9 DEF Marking
    <3>2. Cardinality(Marking(k)' \ {a}) = Cardinality(Marking(k)') - 1
      BY <1>4, <3>1, Sizes
    <3>3. Cardinality(Marking(k)' \ {a}) \in Nat
      BY <1>4, <3>1, Sizes
    <3> QED
      BY <1>6, <3>2, <3>3
  <2> QED
    BY <1>1, <1>2, <1>5, <1>6, <1>7, <1>9, <2>2, <2>3, <2>4, LockoutNumbers DEF KeyBounded
<1> QED
  BY <1>8, <1>9

\* A marker that is set closes the look of every attempt that comes after it.
LEMMA SetMarkerKey ==
    ASSUME Lockout!LockoutAssumption, Lockout!TypeOK, AttemptsFit, NEW a \in Logins,
           NEW k \in Keys, KeyBounded(k), Lockout!SetMarker(a, k)
    PROVE  KeyBounded(k)'
<1>1. /\ due[a][k] > 0 /\ marker'[k] = due[a][k] /\ due'[a][k] = 0
      /\ \A b \in Logins : b # a => due'[b][k] = due[b][k]
      /\ UNCHANGED <<count, window, loginPc, calls, locked, excused>>
  BY DEF Lockout!SetMarker, Lockout!TypeOK
<1>2. /\ due[a][k] \in Nat /\ window[k] \in Nat /\ Lockout!Under(k)' = Lockout!Under(k)
      /\ PastLook(k)' = PastLook(k)
  BY <1>1 DEF Lockout!TypeOK, Lockout!LockoutAssumption, Lockout!Under, PastLook
<1>3. /\ IsFiniteSet(Logins)
      /\ Marking(k) \in SUBSET Logins /\ LateFor(k) \in SUBSET Logins
      /\ Held(k) \in SUBSET Logins
      /\ Marking(k)' \in SUBSET Logins /\ LateFor(k)' \in SUBSET Logins
      /\ Held(k)' \in SUBSET Logins
  BY LockoutSizes DEF Marking, LateFor, Held
<1>4. Held(k)' \subseteq Held(k)
  BY <1>1 DEF Held
<1>5. Cardinality(Held(k)') <= Cardinality(Held(k)) /\ Cardinality(Held(k)') \in Nat
      /\ Cardinality(Marking(k)') \in Nat /\ Cardinality(LateFor(k)') \in Nat
  BY <1>3, <1>4, Sizes
<1>6. Cardinality(LateFor(k)) <= excused[k]
  BY DEF KeyBounded
<1>7. CASE due[a][k] >= window[k]
  <2>1. LateFor(k)' = LateFor(k)
    BY <1>1, <1>2, <1>7 DEF LateFor
  <2>2. Room(k)' = Room(k)
    BY <1>1, <1>2, <2>1 DEF Room
  <2> QED
    BY <1>1, <1>2, <1>5, <1>6, <1>7, <2>1, <2>2, LockoutNumbers DEF KeyBounded
<1>8. CASE due[a][k] < window[k]
  <2>1. a \in LateFor(k) /\ LateFor(k) \ {a} = LateFor(k)' /\ Marking(k)' = Marking(k)
    BY <1>1, <1>2, <1>8 DEF LateFor, Marking
  <2>2. Cardinality(LateFor(k)') = Cardinality(LateFor(k)) - 1
    BY <1>3, <2>1, Sizes
  <2>3. Room(k)' = Room(k) + Cardinality(Lockout!Under(k))
    <3>1. excused[k] - Cardinality(LateFor(k)) \in Nat /\ Cardinality(Lockout!Under(k)) \in Nat
      BY <1>6, LockoutNumbers
    <3>2. excused'[k] - Cardinality(LateFor(k)') = (excused[k] - Cardinality(LateFor(k))) + 1
      BY <1>1, <1>5, <1>6, <2>2, LockoutNumbers
    <3> QED
      BY <1>2, <3>1, <3>2, Times DEF Room
  <2> QED
    BY <1>1, <1>2, <1>5, <1>6, <1>8, <2>1, <2>2, <2>3, LockoutNumbers DEF KeyBounded
<1> QED
  BY <1>1, <1>2, <1>7, <1>8

\* A login clears the key, and every attempt under way may count once more.
LEMMA ClearKey ==
    ASSUME Lockout!LockoutAssumption, Lockout!TypeOK, AttemptsFit, NEW a \in Logins,
           NEW k \in Keys, KeyBounded(k), Lockout!Clear(a, k)
    PROVE  KeyBounded(k)'
<1>1. /\ loginPc[a] = "reset" /\ marker'[k] = 0 /\ excused'[k] = excused[k] + 1
      /\ \A b \in Logins : b # a => calls'[b] = calls[b]
      /\ UNCHANGED <<count, window, loginPc, locked, due>>
  BY DEF Lockout!Clear, Lockout!Called, Lockout!TypeOK
<1>2. /\ window[k] \in Nat /\ (window[k] = 0 => count[k] = 0)
      /\ Lockout!Under(k)' = Lockout!Under(k) /\ PastLook(k)' = PastLook(k)
      /\ LateFor(k)' = LateFor(k) /\ Marking(k)' = Marking(k) /\ Held(k)' = Held(k)
  <2>1. PastLook(k)' = PastLook(k)
    BY <1>1 DEF Lockout!Under, PastLook
  <2>2. LateFor(k)' = LateFor(k) /\ Marking(k)' = Marking(k) /\ Held(k)' = Held(k)
    BY <1>1 DEF LateFor, Marking, Held
  <2> QED
    BY <2>1, <2>2 DEF Lockout!TypeOK, Lockout!LockoutAssumption, Lockout!Under
<1>3. Cardinality(LateFor(k)) <= excused[k]
  BY DEF KeyBounded
<1>4. Room(k)' = Room(k) + Cardinality(Lockout!Under(k))
  <2>1. excused[k] - Cardinality(LateFor(k)) \in Nat /\ Cardinality(Lockout!Under(k)) \in Nat
    BY <1>3, LockoutNumbers
  <2>2. excused'[k] - Cardinality(LateFor(k)') = (excused[k] - Cardinality(LateFor(k))) + 1
    BY <1>1, <1>2, <1>3, LockoutNumbers
  <2> QED
    BY <1>2, <2>1, <2>2, Times DEF Room
<1> QED
  BY <1>1, <1>2, <1>3, <1>4, LockoutNumbers DEF KeyBounded

\* A call that fails leaves room for the failure it did not count.
LEMMA CallFailsKey ==
    ASSUME Lockout!LockoutAssumption, Lockout!TypeOK, AttemptsFit, NEW a \in Logins,
           NEW k \in Keys, KeyBounded(k), Lockout!CallFails(a, k)
    PROVE  KeyBounded(k)'
<1>1. /\ excused'[k] = excused[k] + 1
      /\ \A b \in Logins : b # a => calls'[b] = calls[b] /\ due'[b] = due[b]
      /\ (k \in calls[a] /\ calls'[a] = calls[a] \ {k} /\ due'[a] = due[a])
         \/ (due[a][k] > 0 /\ due'[a][k] = 0 /\ calls'[a] = calls[a])
      /\ UNCHANGED <<count, window, marker, loginPc, locked>>
  BY CallFailsDoes DEF Lockout!TypeOK
<1>2. /\ window[k] \in Nat /\ (window[k] = 0 => count[k] = 0) /\ due[a][k] \in Nat
      /\ Lockout!Under(k)' = Lockout!Under(k) /\ a \in Lockout!Under(k)
  BY <1>1 DEF Lockout!TypeOK, Lockout!LockoutAssumption, Lockout!Under, AttemptsFit
<1>3. /\ IsFiniteSet(Logins) /\ PastLook(k) \in SUBSET Logins /\ PastLook(k)' \in SUBSET Logins
      /\ Marking(k) \in SUBSET Logins /\ LateFor(k) \in SUBSET Logins
      /\ Held(k) \in SUBSET Logins
      /\ Marking(k)' \in SUBSET Logins /\ LateFor(k)' \in SUBSET Logins
      /\ Held(k)' \in SUBSET Logins /\ {a} \in SUBSET Logins
      /\ PastLook(k) \ {a} \in SUBSET Logins /\ Marking(k) \ {a} \in SUBSET Logins
  BY <1>2, LockoutSizes DEF Marking, LateFor, Held, PastLook, Lockout!Under
<1>4. Held(k)' \subseteq Held(k) /\ LateFor(k)' \subseteq LateFor(k)
  BY <1>1 DEF Held, LateFor
<1>5. /\ Cardinality(Held(k)') <= Cardinality(Held(k)) /\ Cardinality(Held(k)') \in Nat
      /\ Cardinality(LateFor(k)') <= Cardinality(LateFor(k)) /\ Cardinality(LateFor(k)') \in Nat
      /\ Cardinality(Marking(k)') \in Nat /\ Cardinality(PastLook(k)') \in Nat
  BY <1>3, <1>4, Sizes
<1>6. Cardinality(LateFor(k)) <= excused[k]
  BY DEF KeyBounded
<1>7. Room(k)' >= Room(k) + Cardinality(Lockout!Under(k)) /\ Room(k)' \in Nat
  <2>1. /\ excused[k] - Cardinality(LateFor(k)) \in Nat /\ Cardinality(Lockout!Under(k)) \in Nat
        /\ excused'[k] - Cardinality(LateFor(k)') \in Nat
        /\ (excused[k] - Cardinality(LateFor(k))) + 1 <= excused'[k] - Cardinality(LateFor(k)')
    BY <1>1, <1>5, <1>6, LockoutNumbers
  <2> QED
    BY <1>2, <2>1, RoomGrows DEF Room
<1>8. Cardinality(Lockout!Under(k)) >= 1
  <2>1. Cardinality({a}) = 1 /\ {a} \subseteq Lockout!Under(k)
    BY <1>2, FS_Singleton
  <2> QED
    BY <1>3, <2>1, Sizes, LockoutSizes
\* One attempt changed, so the sets lose or gain at most one.
<1>9. Cardinality(Marking(k)') >= Cardinality(Marking(k)) - 1
  <2>1. Marking(k) \ {a} \subseteq Marking(k)'
    BY <1>1 DEF Marking
  <2>2. Cardinality(Marking(k) \ {a}) <= Cardinality(Marking(k)')
        /\ Cardinality(Marking(k) \ {a}) \in Nat
    BY <1>3, <2>1, Sizes
  <2>3. a \in Marking(k) => Cardinality(Marking(k) \ {a}) = Cardinality(Marking(k)) - 1
    BY <1>3, Sizes
  <2>4. a \notin Marking(k) => Marking(k) \ {a} = Marking(k)
    OBVIOUS
  <2>5. Cardinality(Marking(k)) \in Nat
    BY <1>3, Sizes
  <2>6. CASE a \in Marking(k)
    BY <1>5, <2>2, <2>3, <2>5, <2>6
  <2>7. CASE a \notin Marking(k)
    BY <1>5, <2>2, <2>4, <2>5, <2>7
  <2> QED
    BY <2>6, <2>7
<1>10. Cardinality(PastLook(k)') <= Cardinality(PastLook(k)) + 1
  <2>1. PastLook(k)' \ {a} \subseteq PastLook(k) /\ PastLook(k)' \ {a} \in SUBSET Logins
    BY <1>1, <1>3 DEF PastLook, Lockout!Under
  <2>2. Cardinality(PastLook(k)' \ {a}) <= Cardinality(PastLook(k))
        /\ Cardinality(PastLook(k)' \ {a}) \in Nat
    BY <1>3, <2>1, Sizes
  <2>3. a \in PastLook(k)' => Cardinality(PastLook(k)' \ {a}) = Cardinality(PastLook(k)') - 1
    BY <1>3, <2>1, Sizes
  <2>4. a \notin PastLook(k)' => PastLook(k)' \ {a} = PastLook(k)'
    OBVIOUS
  <2>5. Cardinality(PastLook(k)) \in Nat
    BY <1>3, Sizes
  <2>6. CASE a \in PastLook(k)'
    BY <1>5, <2>2, <2>3, <2>5, <2>6
  <2>7. CASE a \notin PastLook(k)'
    BY <1>5, <2>2, <2>4, <2>5, <2>7
  <2> QED
    BY <2>6, <2>7
<1> QED
  BY <1>1, <1>2, <1>5, <1>6, <1>7, <1>8, <1>9, <1>10, LockoutNumbers DEF KeyBounded

\* Time passes; a window that ends leaves the late attempts what they may count.
LEMMA TickKey ==
    ASSUME Lockout!LockoutAssumption, Lockout!TypeOK, AttemptsFit, NEW k \in Keys,
           KeyBounded(k), Lockout!Tick
    PROVE  KeyBounded(k)'
<1>1. /\ window'[k] = (IF window[k] > 0 THEN window[k] - 1 ELSE 0)
      /\ marker'[k] = (IF marker[k] > 0 THEN marker[k] - 1 ELSE 0)
      /\ count'[k] = (IF window'[k] = 0 THEN 0 ELSE count[k])
      /\ excused'[k] = (IF window[k] = 1 THEN Lockout!Cardinality(Lockout!Late(k)) ELSE excused[k])
      /\ UNCHANGED <<loginPc, calls, locked, due>>
  BY DEF Lockout!Tick, Lockout!Down, Lockout!attempt
<1>2. excused'[k] = IF window[k] = 1 THEN Cardinality(Held(k)) ELSE excused[k]
  BY <1>1, LockoutCardinality DEF Lockout!Late, Held
<1>3. /\ window[k] \in Nat /\ marker[k] \in Nat /\ (window[k] = 0 => count[k] = 0)
      /\ \A a \in Logins : due[a][k] \in Nat
      /\ Lockout!Under(k)' = Lockout!Under(k) /\ PastLook(k)' = PastLook(k)
      /\ Held(k)' = Held(k)
  BY <1>1 DEF Lockout!TypeOK, Lockout!LockoutAssumption, Lockout!Under, PastLook, Held
<1>4. /\ IsFiniteSet(Logins)
      /\ Marking(k) \in SUBSET Logins /\ LateFor(k) \in SUBSET Logins
      /\ Marking(k)' \in SUBSET Logins /\ LateFor(k)' \in SUBSET Logins
  BY LockoutSizes DEF Marking, LateFor
<1>5. /\ LateFor(k)' \subseteq LateFor(k) /\ Marking(k) \subseteq Marking(k)'
  BY <1>1, <1>3 DEF Marking, LateFor
<1>6. /\ Cardinality(LateFor(k)') <= Cardinality(LateFor(k)) /\ Cardinality(LateFor(k)') \in Nat
      /\ Cardinality(Marking(k)) <= Cardinality(Marking(k)') /\ Cardinality(Marking(k)') \in Nat
  BY <1>4, <1>5, Sizes
<1>7. Cardinality(LateFor(k)) <= excused[k]
  BY DEF KeyBounded
<1>8. window[k] <= 1 => Cardinality(LateFor(k)') = 0
  <2> SUFFICES ASSUME window[k] <= 1 PROVE Cardinality(LateFor(k)') = 0
    OBVIOUS
  <2>1. LateFor(k)' = {}
    BY <1>1, <1>3 DEF LateFor
  <2> QED
    BY <2>1, FS_EmptySet
<1>9. Cardinality(LateFor(k)') <= excused'[k] /\ excused'[k] \in Nat
  BY <1>2, <1>3, <1>6, <1>7, <1>8, LockoutNumbers
<1>10. Room(k)' \in Nat /\ (window[k] # 1 => Room(k)' >= Room(k))
  <2>1. /\ excused[k] - Cardinality(LateFor(k)) \in Nat /\ Cardinality(Lockout!Under(k)) \in Nat
        /\ excused'[k] - Cardinality(LateFor(k)') \in Nat
        /\ window[k] # 1 =>
               excused[k] - Cardinality(LateFor(k)) <= excused'[k] - Cardinality(LateFor(k)')
    BY <1>2, <1>6, <1>7, <1>9, LockoutNumbers
  <2> QED
    BY <1>3, <2>1, RoomGrows DEF Room
<1>11. CASE window[k] <= 1
  BY <1>1, <1>2, <1>3, <1>6, <1>7, <1>9, <1>10, <1>11, LockoutNumbers DEF KeyBounded
<1>12. CASE window[k] > 1
  BY <1>1, <1>2, <1>3, <1>6, <1>7, <1>9, <1>10, <1>12, LockoutNumbers DEF KeyBounded
<1> QED
  BY <1>3, <1>11, <1>12

\* The bound of every key, through every step.
LEMMA LockoutCounts ==
    ASSUME Lockout!LockoutAssumption, LockoutInv, [Lockout!Next]_lockoutVars, NEW k \in Keys
    PROVE  KeyBounded(k)'
<1>0. Lockout!TypeOK /\ AttemptsFit /\ KeyBounded(k)
  BY DEF LockoutInv
<1> DEFINE Stays == /\ UNCHANGED <<count[k], window[k], marker[k], excused[k]>>
                    /\ \A a \in Logins : due'[a][k] = due[a][k]
<1>1. CASE Lockout!Tick
  BY <1>0, <1>1, TickKey
\* An attempt that moves on was past its look before if it is now.
<1>2. ASSUME NEW a \in Logins,
             \/ Lockout!Begin(a) \/ Lockout!RightPassword(a) \/ Lockout!InactiveAccount(a)
             \/ Lockout!Looked(a) \/ Lockout!WrongPassword(a) \/ Lockout!Finish(a)
      PROVE  KeyBounded(k)'
  <2>1. UNCHANGED <<count, window, marker, excused, due>>
    BY <1>2 DEF Lockout!Begin, Lockout!RightPassword, Lockout!InactiveAccount, Lockout!Looked,
                Lockout!WrongPassword, Lockout!Finish, Lockout!stores
  <2>2. PastLook(k)' \subseteq PastLook(k)
    <3> USE <1>0 DEF PastLook, Lockout!Under, Lockout!Enter, Lockout!TypeOK, AttemptsFit
    <3>1. CASE Lockout!Begin(a)
      BY <3>1 DEF Lockout!Begin
    <3>2. CASE Lockout!RightPassword(a)
      BY <3>2 DEF Lockout!RightPassword
    <3>3. CASE Lockout!InactiveAccount(a)
      BY <3>3 DEF Lockout!InactiveAccount
    <3>4. CASE Lockout!Looked(a)
      BY <3>4 DEF Lockout!Looked
    <3>5. CASE Lockout!WrongPassword(a)
      BY <3>5 DEF Lockout!WrongPassword
    <3>6. CASE Lockout!Finish(a)
      BY <3>6 DEF Lockout!Finish
    <3> QED
      BY <1>2, <3>1, <3>2, <3>3, <3>4, <3>5, <3>6
  <2> QED
    BY <1>0, <2>1, <2>2, KeyKept
<1>3. ASSUME NEW a \in Logins, NEW j \in Keys, Lockout!Look(a, j) PROVE KeyBounded(k)'
  <2>1. /\ UNCHANGED <<count, window, marker, excused, due, loginPc>>
        /\ \A b \in Logins : b # a => calls'[b] = calls[b]
        /\ calls'[a] = calls[a] \ {j} /\ j \in calls[a]
        /\ locked' = IF marker[j] > 0 THEN locked \cup {a} ELSE locked
    BY <1>0, <1>3 DEF Lockout!Look, Lockout!Called, Lockout!stores, Lockout!TypeOK
  <2>2. PastLook(k)' \subseteq PastLook(k) \/ marker[k] = 0
    BY <1>0, <2>1 DEF PastLook, Lockout!Under, Lockout!TypeOK
  <2>3. CASE PastLook(k)' \subseteq PastLook(k) \/ window[k] = 0
    BY <1>0, <2>1, <2>3, KeyKept
  \* No marker is set, so the failures are below the limit.
  <2>4. CASE marker[k] = 0 /\ window[k] # 0
    <3>1. marker[k] < window[k]
      BY <1>0, <2>4 DEF Lockout!TypeOK
    <3>2. Held(k)' = Held(k) /\ Marking(k)' = Marking(k) /\ LateFor(k)' = LateFor(k)
      BY <2>1 DEF Held, Marking, LateFor
    <3>3. Room(k)' = Room(k)
      BY <2>1, <3>2 DEF Room, Lockout!Under
    <3> QED
      BY <1>0, <2>1, <2>4, <3>1, <3>2, <3>3 DEF KeyBounded
  <2> QED
    BY <2>2, <2>3, <2>4
<1>4. ASSUME NEW a \in Logins, NEW j \in Keys, Lockout!Hit(a, j) PROVE KeyBounded(k)'
  <2>1. CASE j = k
    BY <1>0, <1>4, <2>1, HitKey
  <2>2. CASE j # k
    <3>1. /\ UNCHANGED <<count[k], window[k], marker, excused, loginPc, locked>>
          /\ \A b \in Logins : due'[b][k] = due[b][k]
          /\ \A b \in Logins : k \in calls'[b] <=> k \in calls[b]
      BY <1>0, <1>4, <2>2, HitDoes
    <3>2. PastLook(k)' \subseteq PastLook(k)
      BY <3>1 DEF PastLook, Lockout!Under
    <3> QED
      BY <1>0, <3>1, <3>2, KeyKept
  <2> QED
    BY <2>1, <2>2
<1>5. ASSUME NEW a \in Logins, NEW j \in Keys, Lockout!SetMarker(a, j) PROVE KeyBounded(k)'
  <2>1. CASE j = k
    BY <1>0, <1>5, <2>1, SetMarkerKey
  <2>2. CASE j # k
    <3>1. /\ UNCHANGED <<count, window, marker[k], excused, loginPc, locked, calls>>
          /\ \A b \in Logins : due'[b][k] = due[b][k]
      BY <1>0, <1>5, <2>2 DEF Lockout!SetMarker, Lockout!TypeOK
    <3>2. PastLook(k)' \subseteq PastLook(k)
      BY <3>1 DEF PastLook, Lockout!Under
    <3> QED
      BY <1>0, <3>1, <3>2, KeyKept
  <2> QED
    BY <2>1, <2>2
<1>6. ASSUME NEW a \in Logins, NEW j \in Keys, Lockout!Clear(a, j) PROVE KeyBounded(k)'
  <2>1. CASE j = k
    BY <1>0, <1>6, <2>1, ClearKey
  <2>2. CASE j # k
    <3>1. /\ UNCHANGED <<count, window, marker[k], excused[k], loginPc, locked, due>>
          /\ \A b \in Logins : k \in calls'[b] <=> k \in calls[b]
      BY <1>0, <1>6, <2>2 DEF Lockout!Clear, Lockout!Called, Lockout!TypeOK
    <3>2. PastLook(k)' \subseteq PastLook(k)
      BY <3>1 DEF PastLook, Lockout!Under
    <3> QED
      BY <1>0, <3>1, <3>2, KeyKept
  <2> QED
    BY <2>1, <2>2
<1>7. ASSUME NEW a \in Logins, NEW j \in Keys, Lockout!CallFails(a, j) PROVE KeyBounded(k)'
  <2>1. CASE j = k
    BY <1>0, <1>7, <2>1, CallFailsKey
  <2>2. CASE j # k
    <3>1. /\ UNCHANGED <<count, window, marker, excused[k], loginPc, locked>>
          /\ \A b \in Logins : due'[b][k] = due[b][k]
          /\ \A b \in Logins : k \in calls'[b] <=> k \in calls[b]
      <4>1. CASE calls' = [calls EXCEPT ![a] = @ \ {j}] /\ due' = due
        BY <1>0, <1>7, <2>2, <4>1, CallFailsDoes DEF Lockout!TypeOK
      <4>2. CASE due' = [due EXCEPT ![a][j] = 0] /\ calls' = calls
        BY <1>0, <1>7, <2>2, <4>2, CallFailsDoes DEF Lockout!TypeOK
      <4> QED
        BY <1>0, <1>7, <4>1, <4>2, CallFailsDoes
    <3>2. PastLook(k)' \subseteq PastLook(k)
      BY <3>1 DEF PastLook, Lockout!Under
    <3> QED
      BY <1>0, <3>1, <3>2, KeyKept
  <2> QED
    BY <2>1, <2>2
<1>8. CASE UNCHANGED lockoutVars
  <2>1. UNCHANGED <<count, window, marker, excused, loginPc, locked, calls, due>>
    BY <1>8 DEF lockoutVars
  <2>2. PastLook(k)' \subseteq PastLook(k)
    BY <2>1 DEF PastLook, Lockout!Under
  <2> QED
    BY <1>0, <2>1, <2>2, KeyKept
<1> QED
  BY <1>1, <1>2, <1>3, <1>4, <1>5, <1>6, <1>7, <1>8 DEF Lockout!Next, Lockout!Step

LEMMA LockoutStep ==
    ASSUME Lockout!LockoutAssumption, LockoutInv, [Lockout!Next]_lockoutVars
    PROVE  LockoutInv'
<1>1. Lockout!TypeOK' /\ AttemptsFit'
  BY LockoutTypes, LockoutFits DEF LockoutInv
<1>2. \A k \in Keys : KeyBounded(k)'
  BY LockoutCounts
<1> QED
  BY <1>1, <1>2 DEF LockoutInv

LEMMA LockoutStart ==
    ASSUME Lockout!LockoutAssumption, Lockout!Init
    PROVE  LockoutInv
<1>1. Lockout!TypeOK /\ AttemptsFit
  BY DEF Lockout!LockoutAssumption, Lockout!Init, Lockout!TypeOK, AttemptsFit
<1>2. ASSUME NEW k \in Keys PROVE KeyBounded(k)
  <2>1. window[k] = 0 /\ marker[k] = 0 /\ count[k] = 0 /\ excused[k] = 0
    BY <1>2 DEF Lockout!Init
  <2>2. Held(k) = {} /\ LateFor(k) = {} /\ PastLook(k) = {}
    BY <1>2 DEF Lockout!Init, Held, LateFor, PastLook, Lockout!Under
  <2>3. Cardinality(Held(k)) = 0 /\ Cardinality(LateFor(k)) = 0 /\ Cardinality(PastLook(k)) = 0
    BY <2>2, FS_EmptySet
  <2> QED
    BY <1>1, <2>1, <2>3, LockoutNumbers DEF KeyBounded
<1> QED
  BY <1>1, <1>2 DEF LockoutInv

\* The bound the run checks follows: the room is what late attempts were given.
LEMMA LockoutHolds ==
    ASSUME Lockout!LockoutAssumption, LockoutInv
    PROVE  Lockout!FailuresBounded
<1> SUFFICES ASSUME NEW k \in Keys PROVE count[k] <= Lockout!FailureLimit(k)
  BY DEF Lockout!FailuresBounded
<1>0. Lockout!TypeOK /\ AttemptsFit /\ KeyBounded(k) /\ Cardinality(LateFor(k)) <= excused[k]
  BY DEF LockoutInv, KeyBounded
<1>1. Room(k) <= Cardinality(Lockout!Under(k)) * excused[k]
  <2>1. /\ excused[k] - Cardinality(LateFor(k)) \in Nat /\ Cardinality(Lockout!Under(k)) \in Nat
        /\ excused[k] - Cardinality(LateFor(k)) <= excused[k] /\ excused[k] \in Nat
    BY <1>0, LockoutNumbers
  <2> QED
    BY <2>1, RoomGrows DEF Room
<1>2. Cardinality(Lockout!Under(k)) * (1 + excused[k])
          = Cardinality(Lockout!Under(k)) * excused[k] + Cardinality(Lockout!Under(k))
      /\ Cardinality(Lockout!Under(k)) * excused[k] \in Nat
  <2>1. Cardinality(Lockout!Under(k)) \in Nat /\ excused[k] \in Nat
        /\ 1 + excused[k] = excused[k] + 1
    BY <1>0, LockoutNumbers
  <2> QED
    BY <2>1, Times
<1>3. count[k] <= Limit[k] - 1 + Cardinality(Lockout!Under(k)) + Room(k)
  <2>1. Cardinality(Marking(k)) <= Cardinality(Lockout!Under(k)) 
    BY <1>0, LockoutNumbers
  <2> QED
    BY <1>0, <2>1, LockoutNumbers DEF KeyBounded
<1>4. count[k] <= Limit[k] - 1 + Cardinality(Lockout!Under(k)) * (1 + excused[k])
  BY <1>0, <1>1, <1>2, <1>3, LockoutNumbers
<1> QED
  BY <1>4, LockoutCardinality DEF Lockout!FailureLimit

-----------------------------------------------------------------------------
(* The realtime gateway.                                                   *)

\* The instance's cardinality is the library's.
LEMMA RealtimeCardinality ==
    ASSUME NEW S PROVE Realtime!Cardinality(S) = Cardinality(S)
BY DEF Realtime!Cardinality, Cardinality

\* A socket that has connected is past the first step of its handshake, and the
\* session is there before the timer; the sweep's workers are finitely many.
SocketsInv ==
    /\ Realtime!TypeOK /\ IsFiniteSet(checking)
    /\ \A s \in Sockets :
           /\ conn[s] = "out" => at[s] = "none"
           /\ at[s] = "join" => s \in session
    /\ Realtime!NothingLeftBehind

LEMMA SocketsStart ==
    ASSUME Realtime!GatewayAssumption, Realtime!Init
    PROVE  SocketsInv
<1>1. checking = {} /\ IsFiniteSet(checking) /\ Realtime!Cardinality(checking) = 0
  BY RealtimeCardinality, FS_EmptySet DEF Realtime!Init
<1> QED
  BY <1>1 DEF Realtime!GatewayAssumption, Realtime!Init, SocketsInv, Realtime!TypeOK,
              Realtime!NothingLeftBehind

\* A socket that disconnects takes its timer and its place among those online.
LEMMA Disconnecting ==
    ASSUME SocketsInv, NEW s \in Sockets, Realtime!Disconnect(s)
    PROVE  /\ conn' \in [Sockets -> {"out", "in", "gone"}] /\ conn'[s] = "gone"
           /\ \A r \in Sockets \ {s} : conn'[r] = conn[r]
           /\ timers' = timers \ {s} /\ s \notin online' /\ online \ {s} = online' \ {s}
BY DEF SocketsInv, Realtime!TypeOK, Realtime!Disconnect

LEMMA SocketsStep ==
    ASSUME Realtime!GatewayAssumption, SocketsInv, [Realtime!Next]_socketVars
    PROVE  SocketsInv'
<1> USE DEF Realtime!GatewayAssumption, SocketsInv, Realtime!TypeOK, Realtime!NothingLeftBehind,
            Realtime!socket, Realtime!token, Realtime!sweeper
<1>1. ASSUME NEW s \in Sockets, Realtime!Connect(s) PROVE SocketsInv'
  BY <1>1 DEF Realtime!Connect, Realtime!Go
<1>2. ASSUME NEW s \in Sockets, Realtime!Verify(s) PROVE SocketsInv'
  BY <1>2 DEF Realtime!Verify, Realtime!Go, Realtime!Outage
<1>3. ASSUME NEW s \in Sockets, Realtime!Refuse(s) PROVE SocketsInv'
  BY <1>3, Disconnecting DEF Realtime!Refuse, Realtime!Go
<1>4. ASSUME NEW s \in Sockets, Realtime!Accept(s) PROVE SocketsInv'
  BY <1>4 DEF Realtime!Accept, Realtime!Go, Realtime!Open
<1>5. ASSUME NEW s \in Sockets, Realtime!Joined(s) PROVE SocketsInv'
  BY <1>5 DEF Realtime!Joined, Realtime!Go, Realtime!Open
<1>6. ASSUME NEW s \in Sockets, Realtime!TimerFires(s) PROVE SocketsInv'
  BY <1>6, Disconnecting DEF Realtime!TimerFires
<1>7. ASSUME NEW s \in Sockets, Realtime!ClientLeaves(s) PROVE SocketsInv'
  BY <1>7, Disconnecting DEF Realtime!ClientLeaves, Realtime!Open
<1>8. ASSUME NEW s \in Sockets, Realtime!Expire(s) PROVE SocketsInv'
  BY <1>8 DEF Realtime!Expire
<1>9. ASSUME NEW s \in Sockets, Realtime!End(s) PROVE SocketsInv'
  BY <1>9 DEF Realtime!End
<1>10. CASE Realtime!SweepTick
  BY <1>10 DEF Realtime!SweepTick
<1>11. CASE Realtime!FetchSockets
  BY <1>11 DEF Realtime!FetchSockets
<1>12. CASE Realtime!SweepEnds
  BY <1>12 DEF Realtime!SweepEnds
<1>13. ASSUME NEW s \in Sockets, Realtime!Look(s) PROVE SocketsInv'
  <2>1. CASE s \notin session \/ s \in expired
    BY <1>13, <2>1, Disconnecting DEF Realtime!Look
  <2>2. CASE ~(s \notin session \/ s \in expired)
    <3>1. /\ checking' = checking \cup {s} /\ s \in session
          /\ UNCHANGED <<conn, at, session, timers, online, expired, ended, sweep, outages>>
          /\ Realtime!Cardinality(checking) < Concurrency /\ todo' = todo \ {s} /\ s \in todo
      BY <1>13, <2>2 DEF Realtime!Look
    <3>2. IsFiniteSet(checking') /\ Cardinality(checking') <= Cardinality(checking) + 1
      <4>1. IsFiniteSet(checking) /\ Cardinality(checking) \in Nat
        BY FS_CardinalityType
      <4>2. /\ IsFiniteSet(checking \cup {s})
            /\ Cardinality(checking \cup {s})
                   = IF s \in checking THEN Cardinality(checking) ELSE Cardinality(checking) + 1
        BY <4>1, FS_AddElement
      <4> QED
        BY <3>1, <4>1, <4>2
    <3>3. Cardinality(checking') \in Nat /\ Cardinality(checking) \in Nat
      BY <3>2, FS_CardinalityType
    <3>4. Realtime!Cardinality(checking') <= Concurrency
      BY <3>1, <3>2, <3>3, RealtimeCardinality
    <3> QED
      BY <3>1, <3>2, <3>4
  <2> QED
    BY <2>1, <2>2
<1>14. ASSUME NEW s \in Sockets, Realtime!Checked(s) PROVE SocketsInv'
  <2>1. /\ checking' = checking \ {s} /\ s \in checking
        /\ UNCHANGED <<at, session, expired, ended, sweep, todo>>
    BY <1>14 DEF Realtime!Checked
  <2>2. IsFiniteSet(checking') /\ Cardinality(checking') = Cardinality(checking) - 1
        /\ Cardinality(checking) \in Nat
    BY <2>1, FS_RemoveElement, FS_CardinalityType
  <2>3. Realtime!Cardinality(checking') <= Concurrency
    BY <2>2, RealtimeCardinality
  <2>4. outages' \in 0..MaxOutages
    BY <1>14 DEF Realtime!Checked, Realtime!Outage
  <2>5. Realtime!Disconnect(s) \/ UNCHANGED <<conn, timers, online>>
    BY <1>14 DEF Realtime!Checked
  <2>6. CASE Realtime!Disconnect(s)
    BY <2>1, <2>2, <2>3, <2>4, <2>6, Disconnecting
  <2>7. CASE UNCHANGED <<conn, timers, online>>
    BY <2>1, <2>2, <2>3, <2>4, <2>7
  <2> QED
    BY <2>5, <2>6, <2>7
<1>15. CASE UNCHANGED socketVars
  BY <1>15 DEF socketVars
<1> QED
  BY <1>1, <1>2, <1>3, <1>4, <1>5, <1>6, <1>7, <1>8, <1>9, <1>10, <1>11, <1>12, <1>13,
     <1>14, <1>15
     DEF Realtime!Next, Realtime!Sweep, Realtime!Handshake

-----------------------------------------------------------------------------
(* The refresher of the SDK.                                               *)

\* With the lock, a tab past locks.request holds it; a request that is not out
\* has no answer.
OneByOne ==
    /\ locks => \A t \in Tabs : refreshPc[t] \notin {"idle", "lock"} => holder = t
    /\ \A t \in Tabs : refreshPc[t] = "lock" => locks
    /\ \A t \in Tabs : refreshPc[t] \in {"idle", "lock", "send"} => answer[t] = "none"

\* One tab logs out, once: the token it names is the sign of it.
OneLogout ==
    /\ revoke = 0 => ~loggedOut /\ told = {} /\ \A t \in Tabs : logout[t] = "idle"
    /\ \A t, u \in Tabs : logout[t] # "idle" /\ logout[u] # "idle" => t = u
    /\ loggedOut => \A t \in Tabs : logout[t] = "idle"

\* Refreshes that wait for each other, with every answer heard and no logout.
Heard == locks /\ ~lost /\ revoke = 0

\* The tab that was answered carries a token the server knows, which the
\* browser's cookie has as soon as the answer is there.
CarriesKnown ==
    Heard =>
        /\ orphans = {}
        /\ \A t \in Tabs : refreshPc[t] = "answer" /\ answer[t] = "ok" => fresh[t] \in records
        /\ \A t \in Tabs : refreshPc[t] \in {"body", "keep"} =>
               fresh[t] \in records /\ (~native => jar = fresh[t])

\* Every request presents the token there is, so none is refused, and between
\* them the server knows it.
PresentsKnown ==
    Heard /\ ~broken =>
        /\ \A t \in Tabs : refreshPc[t] # "end"
        /\ \A t \in Tabs : refreshPc[t] = "answer" =>
               answer[t] = "ok" \/ (answer[t] = "none" /\ sent[t] = jar)
        /\ (\A t \in Tabs : /\ refreshPc[t] \notin {"body", "keep"}
                           /\ ~(refreshPc[t] = "answer" /\ answer[t] = "ok"))
               => jar \in records

\* After a logout no tab has a token to present, or will be given one, and those
\* that still hold an access token are about to be told.
NoneLeft ==
    loggedOut /\ ~raced /\ ~broken =>
        /\ jar = 0 /\ access \subseteq told
        /\ \A t \in Tabs :
               /\ refreshPc[t] \notin {"body", "keep"}
               /\ refreshPc[t] = "answer" =>
                      sent[t] = 0 /\ answer[t] \in {"none", "empty", "error"}

ClientInv ==
    /\ Client!TypeOK /\ OneByOne /\ OneLogout
    /\ CarriesKnown /\ PresentsKnown /\ NoneLeft

LEMMA ClientStart ==
    ASSUME Client!RefresherAssumption, Client!Init
    PROVE  ClientInv
<1>1. /\ native \in BOOLEAN /\ locks \in BOOLEAN
      /\ {loggedOut, raced, lost, broken} \subseteq BOOLEAN
  BY Zenon DEF Client!Init
<1>2. Client!TypeOK
  BY <1>1 DEF Client!RefresherAssumption, Client!Init, Client!TypeOK, Client!None, Client!Nobody
<1>3. OneByOne /\ OneLogout /\ CarriesKnown /\ PresentsKnown /\ NoneLeft
  BY DEF Client!Init, OneByOne, OneLogout, Heard, CarriesKnown, PresentsKnown, NoneLeft,
         Client!None, Client!Nobody
<1> QED
  BY <1>2, <1>3 DEF ClientInv

ClientFlags ==
    {loggedOut, raced, lost, broken} \subseteq BOOLEAN /\ native \in BOOLEAN /\ locks \in BOOLEAN

\* The flags stay Boolean.
LEMMA ClientFlagsKept ==
    ASSUME ClientFlags, [Client!Next]_clientVars
    PROVE  ClientFlags'
<1>1. native' = native /\ locks' = locks
  BY DEF clientVars, Client!Next, Client!Run, Client!Body, Client!BodyArrives, Client!BodyFails,
         Client!LoggingOut, Client!Refresh, Client!Lock,
         Client!Send, Client!Serve, Client!ServeFails, Client!ServeOrphan, Client!Arrive,
         Client!Abort, Client!Keep, Client!End, Client!Reload, Client!LogOut,
         Client!LogOutServed, Client!LoggedOut, Client!LogOutFails, Client!Told, Client!setting
<1>2. loggedOut' \in {loggedOut, TRUE} /\ raced' \in BOOLEAN \cup {raced}
  BY Zenon
     DEF clientVars, Client!Next, Client!Run, Client!Body, Client!BodyArrives, Client!BodyFails,
         Client!LoggingOut, Client!Refresh, Client!Lock,
         Client!Send, Client!Serve, Client!ServeFails, Client!ServeOrphan, Client!Arrive,
         Client!Abort, Client!Keep, Client!End, Client!Reload, Client!LogOut,
         Client!LogOutServed, Client!LoggedOut, Client!LogOutFails, Client!Told, Client!logouts
<1>3. lost' \in BOOLEAN \cup {lost}
  BY Zenon
     DEF clientVars, Client!Next, Client!Run, Client!Body, Client!BodyArrives, Client!BodyFails,
         Client!LoggingOut, Client!Refresh, Client!Lock,
         Client!Send, Client!Serve, Client!ServeFails, Client!ServeOrphan, Client!Arrive,
         Client!Abort, Client!Keep, Client!End, Client!Reload, Client!LogOut,
         Client!LogOutServed, Client!LoggedOut, Client!LogOutFails, Client!Told, Client!faults
<1>4. broken' \in {broken, TRUE}
  BY Zenon
     DEF clientVars, Client!Next, Client!Run, Client!Body, Client!BodyArrives, Client!BodyFails,
         Client!LoggingOut, Client!Refresh, Client!Lock,
         Client!Send, Client!Serve, Client!ServeFails, Client!ServeOrphan, Client!Arrive,
         Client!Abort, Client!Keep, Client!End, Client!Reload, Client!LogOut,
         Client!LogOutServed, Client!LoggedOut, Client!LogOutFails, Client!Told, Client!faults
<1> QED
  BY <1>1, <1>2, <1>3, <1>4 DEF ClientFlags

\* What the settlement of a refresh changes.
LEMMA Settling ==
    ASSUME Client!RefresherAssumption, Client!TypeOK, NEW t \in Tabs, Client!Settle(t)
    PROVE  /\ refreshPc' \in [Tabs -> {"idle", "lock", "send", "answer", "body", "keep", "end"}]
           /\ sent' \in [Tabs -> 0..MaxRefreshes + 1]
           /\ answer' \in [Tabs -> {"none", "ok", "empty", "refused", "error"}]
           /\ fresh' \in [Tabs -> 0..MaxRefreshes + 1]
           /\ refreshPc'[t] = "idle" /\ sent'[t] = 0 /\ answer'[t] = "none" /\ fresh'[t] = 0
           /\ \A u \in Tabs \ {t} :
                  refreshPc'[u] = refreshPc[u] /\ sent'[u] = sent[u] /\ answer'[u] = answer[u]
                  /\ fresh'[u] = fresh[u]
           /\ holder' = (IF holder = t THEN "nobody" ELSE holder)
BY DEF Client!RefresherAssumption, Client!TypeOK, Client!Settle, Client!Go, Client!None,
       Client!Nobody

\* The tokens in the tabs, the cookie and the server's records keep their types.
LEMMA ClientTypes ==
    ASSUME Client!RefresherAssumption, Client!TypeOK, OneByOne, [Client!Next]_clientVars
    PROVE  Client!TypeOK'
<1>0. ClientFlags'
  BY ClientFlagsKept DEF ClientFlags, Client!TypeOK
<1> USE DEF Client!RefresherAssumption, Client!None, Client!Nobody, Client!TypeOK, ClientFlags
<1>1. CASE Client!ServeOrphan
  BY <1>0, <1>1 DEF Client!ServeOrphan, Client!setting, Client!refresh, Client!logouts
<1>2. ASSUME NEW t \in Tabs, Client!Refresh(t) PROVE Client!TypeOK'
  BY <1>0, <1>2 DEF Client!Refresh, Client!Go, Client!setting, Client!logouts
<1>3. ASSUME NEW t \in Tabs, Client!Lock(t) PROVE Client!TypeOK'
  BY <1>0, <1>3 DEF OneByOne, Client!Lock, Client!Go, Client!setting, Client!logouts
<1>4. ASSUME NEW t \in Tabs, Client!Send(t) PROVE Client!TypeOK'
  BY <1>0, <1>4 DEF Client!Send, Client!Go, Client!setting, Client!logouts
<1>5. ASSUME NEW t \in Tabs, Client!Arrive(t) PROVE Client!TypeOK'
  BY <1>0, <1>5 DEF Client!Arrive, Client!Settle, Client!Go, Client!setting, Client!logouts
<1>6. ASSUME NEW t \in Tabs, Client!Abort(t) PROVE Client!TypeOK'
  <2>1. Client!Settle(t)
    BY <1>6 DEF Client!Abort
  <2>2. orphans' \subseteq 0..MaxRefreshes + 1
    BY <1>6 DEF Client!Abort, Client!GivenUp
  <2> QED
    BY <1>0, <1>6, <2>1, <2>2, Settling DEF Client!Abort, Client!setting, Client!logouts
<1>7. ASSUME NEW t \in Tabs, Client!Keep(t) PROVE Client!TypeOK'
  BY <1>0, <1>7 DEF Client!Keep, Client!Settle, Client!Go, Client!setting, Client!logouts
<1>8. ASSUME NEW t \in Tabs, Client!End(t) PROVE Client!TypeOK'
  BY <1>0, <1>8 DEF Client!End, Client!Settle, Client!Go, Client!setting, Client!logouts
<1>9. ASSUME NEW t \in Tabs, Client!Serve(t) PROVE Client!TypeOK'
  <2>1. answer' \in [Tabs -> {"none", "ok", "empty", "refused", "error"}]
    BY <1>9 DEF Client!Serve
  <2>2. fresh' \in [Tabs -> 0..MaxRefreshes + 1]
    BY <1>9 DEF Client!Serve
  <2>3. records' \subseteq records \cup {starts + 1} /\ starts + 1 \in 1..MaxRefreshes + 1 
    BY <1>9 DEF Client!Serve
  <2> QED
    BY <1>0, <1>9, <2>1, <2>2, <2>3 DEF Client!Serve, Client!setting, Client!logouts
<1>10. ASSUME NEW t \in Tabs, Client!ServeFails(t) PROVE Client!TypeOK'
  BY <1>0, <1>10 DEF Client!ServeFails, Client!setting, Client!logouts
<1>11. ASSUME NEW t \in Tabs, Client!Reload(t) PROVE Client!TypeOK'
  <2>1. Client!Settle(t)
    BY <1>11 DEF Client!Reload
  <2>2. orphans' \subseteq 0..MaxRefreshes + 1
    BY <1>11 DEF Client!Reload, Client!GivenUp
  <2>3. logout' \in [Tabs -> {"idle", "sent", "served"}]
    BY <1>11 DEF Client!Reload
  <2> QED
    BY <1>0, <1>11, <2>1, <2>2, <2>3, Settling DEF Client!Reload, Client!setting
<1>12. ASSUME NEW t \in Tabs, Client!LogOut(t) PROVE Client!TypeOK'
  BY <1>0, <1>12 DEF Client!LogOut, Client!refresh, Client!setting
<1>13. ASSUME NEW t \in Tabs, Client!LogOutServed(t) PROVE Client!TypeOK'
  BY <1>0, <1>13 DEF Client!LogOutServed, Client!refresh, Client!setting
<1>14. ASSUME NEW t \in Tabs, Client!LoggedOut(t) PROVE Client!TypeOK'
  BY <1>0, <1>14 DEF Client!LoggedOut, Client!Cleared, Client!refresh, Client!setting
<1>15. ASSUME NEW t \in Tabs, Client!LogOutFails(t) PROVE Client!TypeOK'
  BY <1>0, <1>15 DEF Client!LogOutFails, Client!Cleared, Client!refresh, Client!setting
<1>16. ASSUME NEW t \in Tabs, Client!Told(t) PROVE Client!TypeOK'
  BY <1>0, <1>16 DEF Client!Told, Client!refresh, Client!setting
<1>17. CASE UNCHANGED clientVars
  BY <1>0, <1>17 DEF clientVars
<1>18. ASSUME NEW t \in Tabs, Client!BodyArrives(t) PROVE Client!TypeOK'
  BY <1>0, <1>18
     DEF Client!BodyArrives, Client!Go, Client!setting, Client!logouts, Client!faults
<1>19. ASSUME NEW t \in Tabs, Client!BodyFails(t) PROVE Client!TypeOK'
  BY <1>0, <1>19
     DEF Client!BodyFails, Client!Go, Client!setting, Client!logouts, Client!faults
<1> QED
  BY <1>1, <1>2, <1>3, <1>4, <1>5, <1>6, <1>7, <1>8, <1>9, <1>10, <1>11, <1>12, <1>13,
     <1>14, <1>15, <1>16, <1>17, <1>18, <1>19
     DEF Client!Next, Client!Run, Client!Body, Client!LoggingOut

\* Only the holder of the lock is past it.
LEMMA ClientLocks ==
    ASSUME Client!RefresherAssumption, Client!TypeOK, OneByOne, [Client!Next]_clientVars
    PROVE  OneByOne'
<1> USE DEF OneByOne, Client!RefresherAssumption, Client!TypeOK, Client!Nobody
<1>1. CASE Client!ServeOrphan
  BY <1>1 DEF Client!ServeOrphan, Client!setting, Client!refresh, Client!logouts, Client!faults
<1>2. ASSUME NEW t \in Tabs, Client!Refresh(t) PROVE OneByOne'
  BY <1>2
     DEF Client!Refresh, Client!Go, Client!GivenUp, Client!setting, Client!logouts,
         Client!faults
<1>3. ASSUME NEW t \in Tabs, Client!Lock(t) PROVE OneByOne'
  BY <1>3
     DEF Client!Lock, Client!Go, Client!GivenUp, Client!setting, Client!logouts, Client!faults
<1>4. ASSUME NEW t \in Tabs, Client!Send(t) PROVE OneByOne'
  BY <1>4
     DEF Client!Send, Client!Go, Client!GivenUp, Client!setting, Client!logouts, Client!faults
<1>5. ASSUME NEW t \in Tabs, Client!Arrive(t) PROVE OneByOne'
  BY <1>5, Settling
     DEF Client!Arrive, Client!Go, Client!GivenUp, Client!setting, Client!logouts, Client!faults
<1>6. ASSUME NEW t \in Tabs, Client!Abort(t) PROVE OneByOne'
  BY <1>6, Settling
     DEF Client!Abort, Client!Go, Client!GivenUp, Client!setting, Client!logouts, Client!faults
<1>7. ASSUME NEW t \in Tabs, Client!Keep(t) PROVE OneByOne'
  BY <1>7, Settling
     DEF Client!Keep, Client!Go, Client!GivenUp, Client!setting, Client!logouts, Client!faults
<1>8. ASSUME NEW t \in Tabs, Client!End(t) PROVE OneByOne'
  BY <1>8, Settling
     DEF Client!End, Client!Go, Client!GivenUp, Client!setting, Client!logouts, Client!faults
<1>9. ASSUME NEW t \in Tabs, Client!Serve(t) PROVE OneByOne'
  BY <1>9
     DEF Client!Serve, Client!Go, Client!GivenUp, Client!setting, Client!logouts, Client!faults
<1>10. ASSUME NEW t \in Tabs, Client!ServeFails(t) PROVE OneByOne'
  BY <1>10
     DEF Client!ServeFails, Client!Go, Client!GivenUp, Client!setting, Client!logouts,
         Client!faults
<1>11. ASSUME NEW t \in Tabs, Client!Reload(t) PROVE OneByOne'
  BY <1>11, Settling
     DEF Client!Reload, Client!Go, Client!GivenUp, Client!setting, Client!logouts, Client!faults
<1>12. ASSUME NEW t \in Tabs, Client!LogOut(t) PROVE OneByOne'
  BY <1>12 DEF Client!LogOut, Client!Cleared, Client!setting, Client!refresh, Client!faults
<1>13. ASSUME NEW t \in Tabs, Client!LogOutServed(t) PROVE OneByOne'
  BY <1>13
     DEF Client!LogOutServed, Client!Cleared, Client!setting, Client!refresh, Client!faults
<1>14. ASSUME NEW t \in Tabs, Client!LoggedOut(t) PROVE OneByOne'
  BY <1>14 DEF Client!LoggedOut, Client!Cleared, Client!setting, Client!refresh, Client!faults
<1>15. ASSUME NEW t \in Tabs, Client!LogOutFails(t) PROVE OneByOne'
  BY <1>15 DEF Client!LogOutFails, Client!Cleared, Client!setting, Client!refresh, Client!faults
<1>16. ASSUME NEW t \in Tabs, Client!Told(t) PROVE OneByOne'
  BY <1>16 DEF Client!Told, Client!Cleared, Client!setting, Client!refresh, Client!faults
<1>17. CASE UNCHANGED clientVars
  BY <1>17 DEF clientVars
<1>18. ASSUME NEW t \in Tabs, Client!BodyArrives(t) PROVE OneByOne'
  BY <1>18
     DEF Client!BodyArrives, Client!Go, Client!setting, Client!logouts, Client!faults
<1>19. ASSUME NEW t \in Tabs, Client!BodyFails(t) PROVE OneByOne'
  BY <1>19
     DEF Client!BodyFails, Client!Go, Client!setting, Client!logouts, Client!faults
<1> QED
  BY <1>1, <1>2, <1>3, <1>4, <1>5, <1>6, <1>7, <1>8, <1>9, <1>10, <1>11, <1>12, <1>13, <1>14,
     <1>15, <1>16, <1>17, <1>18, <1>19
     DEF Client!Next, Client!Run, Client!Body, Client!LoggingOut

\* One tab logs out, and the token it names is the sign of it.
LEMMA ClientLogout ==
    ASSUME Client!RefresherAssumption, Client!TypeOK, OneLogout, [Client!Next]_clientVars
    PROVE  OneLogout'
<1> USE DEF OneLogout, Client!RefresherAssumption, Client!TypeOK, Client!None
<1>1. CASE Client!ServeOrphan
  BY <1>1 DEF Client!ServeOrphan, Client!setting, Client!refresh, Client!logouts, Client!faults
<1>2. ASSUME NEW t \in Tabs, Client!Refresh(t) PROVE OneLogout'
  BY <1>2
     DEF Client!Refresh, Client!Go, Client!GivenUp, Client!setting, Client!logouts,
         Client!faults
<1>3. ASSUME NEW t \in Tabs, Client!Lock(t) PROVE OneLogout'
  BY <1>3
     DEF Client!Lock, Client!Go, Client!GivenUp, Client!setting, Client!logouts, Client!faults
<1>4. ASSUME NEW t \in Tabs, Client!Send(t) PROVE OneLogout'
  BY <1>4
     DEF Client!Send, Client!Go, Client!GivenUp, Client!setting, Client!logouts, Client!faults
<1>5. ASSUME NEW t \in Tabs, Client!Arrive(t) PROVE OneLogout'
  BY <1>5, Settling
     DEF Client!Arrive, Client!Go, Client!GivenUp, Client!setting, Client!logouts, Client!faults
<1>6. ASSUME NEW t \in Tabs, Client!Abort(t) PROVE OneLogout'
  BY <1>6, Settling
     DEF Client!Abort, Client!Go, Client!GivenUp, Client!setting, Client!logouts, Client!faults
<1>7. ASSUME NEW t \in Tabs, Client!Keep(t) PROVE OneLogout'
  BY <1>7, Settling
     DEF Client!Keep, Client!Go, Client!GivenUp, Client!setting, Client!logouts, Client!faults
<1>8. ASSUME NEW t \in Tabs, Client!End(t) PROVE OneLogout'
  BY <1>8, Settling
     DEF Client!End, Client!Go, Client!GivenUp, Client!setting, Client!logouts, Client!faults
<1>9. ASSUME NEW t \in Tabs, Client!Serve(t) PROVE OneLogout'
  BY <1>9
     DEF Client!Serve, Client!Go, Client!GivenUp, Client!setting, Client!logouts, Client!faults
<1>10. ASSUME NEW t \in Tabs, Client!ServeFails(t) PROVE OneLogout'
  BY <1>10
     DEF Client!ServeFails, Client!Go, Client!GivenUp, Client!setting, Client!logouts,
         Client!faults
<1>11. ASSUME NEW t \in Tabs, Client!Reload(t) PROVE OneLogout'
  BY <1>11, Settling
     DEF Client!Reload, Client!Go, Client!GivenUp, Client!setting, Client!logouts, Client!faults
<1>12. ASSUME NEW t \in Tabs, Client!LogOut(t) PROVE OneLogout'
  BY <1>12 DEF Client!LogOut, Client!Cleared, Client!setting, Client!refresh, Client!faults
<1>13. ASSUME NEW t \in Tabs, Client!LogOutServed(t) PROVE OneLogout'
  BY <1>13
     DEF Client!LogOutServed, Client!Cleared, Client!setting, Client!refresh, Client!faults
<1>14. ASSUME NEW t \in Tabs, Client!LoggedOut(t) PROVE OneLogout'
  BY <1>14 DEF Client!LoggedOut, Client!Cleared, Client!setting, Client!refresh, Client!faults
<1>15. ASSUME NEW t \in Tabs, Client!LogOutFails(t) PROVE OneLogout'
  BY <1>15 DEF Client!LogOutFails, Client!Cleared, Client!setting, Client!refresh, Client!faults
<1>16. ASSUME NEW t \in Tabs, Client!Told(t) PROVE OneLogout'
  BY <1>16 DEF Client!Told, Client!Cleared, Client!setting, Client!refresh, Client!faults
<1>17. CASE UNCHANGED clientVars
  BY <1>17 DEF clientVars
<1>18. ASSUME NEW t \in Tabs, Client!BodyArrives(t) PROVE OneLogout'
  BY <1>18
     DEF Client!BodyArrives, Client!Go, Client!setting, Client!logouts, Client!faults
<1>19. ASSUME NEW t \in Tabs, Client!BodyFails(t) PROVE OneLogout'
  BY <1>19
     DEF Client!BodyFails, Client!Go, Client!setting, Client!logouts, Client!faults
<1> QED
  BY <1>1, <1>2, <1>3, <1>4, <1>5, <1>6, <1>7, <1>8, <1>9, <1>10, <1>11, <1>12, <1>13, <1>14,
     <1>15, <1>16, <1>17, <1>18, <1>19
     DEF Client!Next, Client!Run, Client!Body, Client!LoggingOut

\* What an answered tab carries the server knows.
LEMMA ClientCarries ==
    ASSUME Client!RefresherAssumption, Client!TypeOK, OneByOne, OneLogout, CarriesKnown,
           [Client!Next]_clientVars
    PROVE  CarriesKnown'
<1> USE DEF OneByOne, OneLogout, CarriesKnown, Heard, Client!RefresherAssumption, Client!TypeOK,
       Client!None, Client!Nobody
<1>1. CASE Client!ServeOrphan
  BY <1>1 DEF Client!ServeOrphan, Client!setting, Client!refresh, Client!logouts, Client!faults
<1>2. ASSUME NEW t \in Tabs, Client!Refresh(t) PROVE CarriesKnown'
  BY <1>2
     DEF Client!Refresh, Client!Go, Client!GivenUp, Client!setting, Client!logouts,
         Client!faults
<1>3. ASSUME NEW t \in Tabs, Client!Lock(t) PROVE CarriesKnown'
  BY <1>3
     DEF Client!Lock, Client!Go, Client!GivenUp, Client!setting, Client!logouts, Client!faults
<1>4. ASSUME NEW t \in Tabs, Client!Send(t) PROVE CarriesKnown'
  BY <1>4
     DEF Client!Send, Client!Go, Client!GivenUp, Client!setting, Client!logouts, Client!faults
<1>5. ASSUME NEW t \in Tabs, Client!Arrive(t) PROVE CarriesKnown'
  BY <1>5, Settling
     DEF Client!Arrive, Client!Go, Client!GivenUp, Client!setting, Client!logouts, Client!faults
<1>6. ASSUME NEW t \in Tabs, Client!Abort(t) PROVE CarriesKnown'
  BY <1>6, Settling
     DEF Client!Abort, Client!Go, Client!GivenUp, Client!setting, Client!logouts, Client!faults
<1>7. ASSUME NEW t \in Tabs, Client!Keep(t) PROVE CarriesKnown'
  BY <1>7, Settling
     DEF Client!Keep, Client!Go, Client!GivenUp, Client!setting, Client!logouts, Client!faults
<1>8. ASSUME NEW t \in Tabs, Client!End(t) PROVE CarriesKnown'
  BY <1>8, Settling
     DEF Client!End, Client!Go, Client!GivenUp, Client!setting, Client!logouts, Client!faults
<1>9. ASSUME NEW t \in Tabs, Client!Serve(t) PROVE CarriesKnown'
  BY <1>9
     DEF Client!Serve, Client!Go, Client!GivenUp, Client!setting, Client!logouts, Client!faults
<1>10. ASSUME NEW t \in Tabs, Client!ServeFails(t) PROVE CarriesKnown'
  BY <1>10
     DEF Client!ServeFails, Client!Go, Client!GivenUp, Client!setting, Client!logouts,
         Client!faults
<1>11. ASSUME NEW t \in Tabs, Client!Reload(t) PROVE CarriesKnown'
  <2>1. Client!Settle(t)
    BY <1>11 DEF Client!Reload
  <2>2. Heard' => Heard /\ refreshPc[t] \notin {"answer", "body", "keep"} /\ orphans' = orphans
    BY <1>11 DEF Client!Reload, Client!setting
  <2>3. UNCHANGED <<native, records, jar>>
    BY <1>11 DEF Client!Reload, Client!setting
  <2>4. \A u \in Tabs : refreshPc'[u] \in {"answer", "body", "keep"} =>
            refreshPc'[u] = refreshPc[u] /\ answer'[u] = answer[u] /\ fresh'[u] = fresh[u]
    BY <2>1, Settling
  <2> HIDE DEF OneByOne, OneLogout, Client!TypeOK, Heard
  <2> QED
    BY <2>2, <2>3, <2>4
<1>12. ASSUME NEW t \in Tabs, Client!LogOut(t) PROVE CarriesKnown'
  BY <1>12 DEF Client!LogOut, Client!Cleared, Client!setting, Client!refresh, Client!faults
<1>13. ASSUME NEW t \in Tabs, Client!LogOutServed(t) PROVE CarriesKnown'
  BY <1>13
     DEF Client!LogOutServed, Client!Cleared, Client!setting, Client!refresh, Client!faults
<1>14. ASSUME NEW t \in Tabs, Client!LoggedOut(t) PROVE CarriesKnown'
  BY <1>14 DEF Client!LoggedOut, Client!Cleared, Client!setting, Client!refresh, Client!faults
<1>15. ASSUME NEW t \in Tabs, Client!LogOutFails(t) PROVE CarriesKnown'
  BY <1>15 DEF Client!LogOutFails, Client!Cleared, Client!setting, Client!refresh, Client!faults
<1>16. ASSUME NEW t \in Tabs, Client!Told(t) PROVE CarriesKnown'
  BY <1>16 DEF Client!Told, Client!Cleared, Client!setting, Client!refresh, Client!faults
<1>17. CASE UNCHANGED clientVars
  BY <1>17 DEF clientVars
<1>18. ASSUME NEW t \in Tabs, Client!BodyArrives(t) PROVE CarriesKnown'
  BY <1>18
     DEF Client!BodyArrives, Client!Go, Client!setting, Client!logouts, Client!faults
<1>19. ASSUME NEW t \in Tabs, Client!BodyFails(t) PROVE CarriesKnown'
  BY <1>19
     DEF Client!BodyFails, Client!Go, Client!setting, Client!logouts, Client!faults
<1> QED
  BY <1>1, <1>2, <1>3, <1>4, <1>5, <1>6, <1>7, <1>8, <1>9, <1>10, <1>11, <1>12, <1>13, <1>14,
     <1>15, <1>16, <1>17, <1>18, <1>19
     DEF Client!Next, Client!Run, Client!Body, Client!LoggingOut

\* With the lock, what a refresh presents is the token the server knows.
LEMMA ClientPresents ==
    ASSUME Client!RefresherAssumption, Client!TypeOK, OneByOne, OneLogout, CarriesKnown,
           PresentsKnown, [Client!Next]_clientVars
    PROVE  PresentsKnown'
<1> USE DEF OneByOne, OneLogout, CarriesKnown, Heard, Client!RefresherAssumption, Client!TypeOK,
       Client!None, Client!Nobody, PresentsKnown
<1>1. CASE Client!ServeOrphan
  BY <1>1 DEF Client!ServeOrphan, Client!setting, Client!refresh, Client!logouts, Client!faults
<1>2. ASSUME NEW t \in Tabs, Client!Refresh(t) PROVE PresentsKnown'
  BY <1>2
     DEF Client!Refresh, Client!Go, Client!GivenUp, Client!setting, Client!logouts,
         Client!faults
<1>3. ASSUME NEW t \in Tabs, Client!Lock(t) PROVE PresentsKnown'
  BY <1>3
     DEF Client!Lock, Client!Go, Client!GivenUp, Client!setting, Client!logouts, Client!faults
<1>4. ASSUME NEW t \in Tabs, Client!Send(t) PROVE PresentsKnown'
  BY <1>4
     DEF Client!Send, Client!Go, Client!GivenUp, Client!setting, Client!logouts, Client!faults
<1>5. ASSUME NEW t \in Tabs, Client!Arrive(t) PROVE PresentsKnown'
  BY <1>5, Settling
     DEF Client!Arrive, Client!Go, Client!GivenUp, Client!setting, Client!logouts, Client!faults
<1>6. ASSUME NEW t \in Tabs, Client!Abort(t) PROVE PresentsKnown'
  BY <1>6, Settling
     DEF Client!Abort, Client!Go, Client!GivenUp, Client!setting, Client!logouts, Client!faults
<1>7. ASSUME NEW t \in Tabs, Client!Keep(t) PROVE PresentsKnown'
  BY <1>7, Settling
     DEF Client!Keep, Client!Go, Client!GivenUp, Client!setting, Client!logouts, Client!faults
<1>8. ASSUME NEW t \in Tabs, Client!End(t) PROVE PresentsKnown'
  BY <1>8, Settling
     DEF Client!End, Client!Go, Client!GivenUp, Client!setting, Client!logouts, Client!faults
<1>9. ASSUME NEW t \in Tabs, Client!Serve(t) PROVE PresentsKnown'
  BY <1>9
     DEF Client!Serve, Client!Go, Client!GivenUp, Client!setting, Client!logouts, Client!faults
<1>10. ASSUME NEW t \in Tabs, Client!ServeFails(t) PROVE PresentsKnown'
  BY <1>10
     DEF Client!ServeFails, Client!Go, Client!GivenUp, Client!setting, Client!logouts,
         Client!faults
<1>11. ASSUME NEW t \in Tabs, Client!Reload(t) PROVE PresentsKnown'
  <2>1. Client!Settle(t)
    BY <1>11 DEF Client!Reload
  <2>2. Heard' => Heard /\ refreshPc[t] \notin {"answer", "body", "keep"}
    BY <1>11 DEF Client!Reload, Client!setting
  <2>3. UNCHANGED <<native, records, jar, broken>>
    BY <1>11 DEF Client!Reload, Client!setting
  <2> QED
    BY <2>1, <2>2, <2>3, Settling
<1>12. ASSUME NEW t \in Tabs, Client!LogOut(t) PROVE PresentsKnown'
  BY <1>12 DEF Client!LogOut, Client!Cleared, Client!setting, Client!refresh, Client!faults
<1>13. ASSUME NEW t \in Tabs, Client!LogOutServed(t) PROVE PresentsKnown'
  BY <1>13
     DEF Client!LogOutServed, Client!Cleared, Client!setting, Client!refresh, Client!faults
<1>14. ASSUME NEW t \in Tabs, Client!LoggedOut(t) PROVE PresentsKnown'
  BY <1>14 DEF Client!LoggedOut, Client!Cleared, Client!setting, Client!refresh, Client!faults
<1>15. ASSUME NEW t \in Tabs, Client!LogOutFails(t) PROVE PresentsKnown'
  BY <1>15 DEF Client!LogOutFails, Client!Cleared, Client!setting, Client!refresh, Client!faults
<1>16. ASSUME NEW t \in Tabs, Client!Told(t) PROVE PresentsKnown'
  BY <1>16 DEF Client!Told, Client!Cleared, Client!setting, Client!refresh, Client!faults
<1>17. CASE UNCHANGED clientVars
  BY <1>17 DEF clientVars
<1>18. ASSUME NEW t \in Tabs, Client!BodyArrives(t) PROVE PresentsKnown'
  BY <1>18
     DEF Client!BodyArrives, Client!Go, Client!setting, Client!logouts, Client!faults
<1>19. ASSUME NEW t \in Tabs, Client!BodyFails(t) PROVE PresentsKnown'
  BY <1>19
     DEF Client!BodyFails, Client!Go, Client!setting, Client!logouts, Client!faults
<1> QED
  BY <1>1, <1>2, <1>3, <1>4, <1>5, <1>6, <1>7, <1>8, <1>9, <1>10, <1>11, <1>12, <1>13, <1>14,
     <1>15, <1>16, <1>17, <1>18, <1>19
     DEF Client!Next, Client!Run, Client!Body, Client!LoggingOut

\* After a logout no answer on its way carries a token.
LEMMA ClientLeaves ==
    ASSUME Client!RefresherAssumption, Client!TypeOK, OneByOne, OneLogout, CarriesKnown,
           NoneLeft, [Client!Next]_clientVars
    PROVE  NoneLeft'
<1> USE DEF OneByOne, OneLogout, CarriesKnown, Heard, Client!RefresherAssumption, Client!TypeOK,
       Client!None, Client!Nobody, NoneLeft
<1>1. CASE Client!ServeOrphan
  BY <1>1 DEF Client!ServeOrphan, Client!setting, Client!refresh, Client!logouts, Client!faults
<1>2. ASSUME NEW t \in Tabs, Client!Refresh(t) PROVE NoneLeft'
  BY <1>2
     DEF Client!Refresh, Client!Go, Client!GivenUp, Client!setting, Client!logouts,
         Client!faults
<1>3. ASSUME NEW t \in Tabs, Client!Lock(t) PROVE NoneLeft'
  BY <1>3
     DEF Client!Lock, Client!Go, Client!GivenUp, Client!setting, Client!logouts, Client!faults
<1>4. ASSUME NEW t \in Tabs, Client!Send(t) PROVE NoneLeft'
  BY <1>4
     DEF Client!Send, Client!Go, Client!GivenUp, Client!setting, Client!logouts, Client!faults
<1>5. ASSUME NEW t \in Tabs, Client!Arrive(t) PROVE NoneLeft'
  BY <1>5, Settling
     DEF Client!Arrive, Client!Go, Client!GivenUp, Client!setting, Client!logouts, Client!faults
<1>6. ASSUME NEW t \in Tabs, Client!Abort(t) PROVE NoneLeft'
  BY <1>6, Settling
     DEF Client!Abort, Client!Go, Client!GivenUp, Client!setting, Client!logouts, Client!faults
<1>7. ASSUME NEW t \in Tabs, Client!Keep(t) PROVE NoneLeft'
  BY <1>7, Settling
     DEF Client!Keep, Client!Go, Client!GivenUp, Client!setting, Client!logouts, Client!faults
<1>8. ASSUME NEW t \in Tabs, Client!End(t) PROVE NoneLeft'
  BY <1>8, Settling
     DEF Client!End, Client!Go, Client!GivenUp, Client!setting, Client!logouts, Client!faults
<1>9. ASSUME NEW t \in Tabs, Client!Serve(t) PROVE NoneLeft'
  BY <1>9
     DEF Client!Serve, Client!Go, Client!GivenUp, Client!setting, Client!logouts, Client!faults
<1>10. ASSUME NEW t \in Tabs, Client!ServeFails(t) PROVE NoneLeft'
  BY <1>10
     DEF Client!ServeFails, Client!Go, Client!GivenUp, Client!setting, Client!logouts,
         Client!faults
<1>11. ASSUME NEW t \in Tabs, Client!Reload(t) PROVE NoneLeft'
  <2>1. Client!Settle(t)
    BY <1>11 DEF Client!Reload
  <2>2. UNCHANGED <<jar, loggedOut, raced, broken>> /\ access' = access \ {t}
        /\ told' = told \ {t}
    BY <1>11 DEF Client!Reload
  <2> QED
    BY <2>1, <2>2, Settling
<1>12. ASSUME NEW t \in Tabs, Client!LogOut(t) PROVE NoneLeft'
  BY <1>12 DEF Client!LogOut, Client!Cleared, Client!setting, Client!refresh, Client!faults
<1>13. ASSUME NEW t \in Tabs, Client!LogOutServed(t) PROVE NoneLeft'
  BY <1>13
     DEF Client!LogOutServed, Client!Cleared, Client!setting, Client!refresh, Client!faults
<1>14. ASSUME NEW t \in Tabs, Client!LoggedOut(t) PROVE NoneLeft'
  BY <1>14 DEF Client!LoggedOut, Client!Cleared, Client!setting, Client!refresh, Client!faults
<1>15. ASSUME NEW t \in Tabs, Client!LogOutFails(t) PROVE NoneLeft'
  BY <1>15 DEF Client!LogOutFails, Client!Cleared, Client!setting, Client!refresh, Client!faults
<1>16. ASSUME NEW t \in Tabs, Client!Told(t) PROVE NoneLeft'
  BY <1>16 DEF Client!Told, Client!Cleared, Client!setting, Client!refresh, Client!faults
<1>17. CASE UNCHANGED clientVars
  BY <1>17 DEF clientVars
<1>18. ASSUME NEW t \in Tabs, Client!BodyArrives(t) PROVE NoneLeft'
  BY <1>18
     DEF Client!BodyArrives, Client!Go, Client!setting, Client!logouts, Client!faults
<1>19. ASSUME NEW t \in Tabs, Client!BodyFails(t) PROVE NoneLeft'
  BY <1>19
     DEF Client!BodyFails, Client!Go, Client!setting, Client!logouts, Client!faults
<1> QED
  BY <1>1, <1>2, <1>3, <1>4, <1>5, <1>6, <1>7, <1>8, <1>9, <1>10, <1>11, <1>12, <1>13, <1>14,
     <1>15, <1>16, <1>17, <1>18, <1>19
     DEF Client!Next, Client!Run, Client!Body, Client!LoggingOut

LEMMA ClientStep ==
    ASSUME Client!RefresherAssumption, ClientInv, [Client!Next]_clientVars
    PROVE  ClientInv'
BY ClientTypes, ClientLocks, ClientLogout, ClientCarries, ClientPresents, ClientLeaves
   DEF ClientInv

\* What the run checks follows.
LEMMA SessionEnds == ClientInv => EndsByLogout
<1> SUFFICES ASSUME ClientInv PROVE EndsByLogout
  OBVIOUS
<1>1. Client!SessionSurvives
  BY DEF ClientInv, PresentsKnown, Heard, Client!SessionSurvives, Client!None
<1>2. Client!LogoutEndsSession
  BY DEF ClientInv, NoneLeft, Client!TypeOK, Client!LogoutEndsSession, Client!Gone
<1> QED
  BY <1>1, <1>2 DEF EndsByLogout

\* A step that gives a tab its access token leaves a cookie the server knows.
LEMMA GivenStep ==
    ASSUME ClientInv, [Client!Next]_clientVars, NEW t \in Tabs, t \in access' \ access,
           locks, ~lost', revoke' = 0
    PROVE  jar' \in records'
<1>1. Client!Keep(t) /\ access' # access
  BY DEF clientVars, Client!Next, Client!Run, Client!Body, Client!BodyArrives, Client!BodyFails,
         Client!LoggingOut, Client!Refresh, Client!Lock,
         Client!Send, Client!Serve, Client!ServeFails, Client!ServeOrphan, Client!Arrive,
         Client!Abort, Client!Keep, Client!End, Client!Reload, Client!LogOut,
         Client!LogOutServed, Client!LoggedOut, Client!LogOutFails, Client!Told, Client!Cleared
<1>2. refreshPc[t] = "keep" /\ records' = records /\ revoke = 0 /\ ~lost
      /\ jar' = IF native THEN fresh[t] ELSE jar
  BY <1>1 DEF Client!Keep, Client!logouts
<1> QED
  BY <1>2 DEF ClientInv, CarriesKnown, Heard

-----------------------------------------------------------------------------
(* The Vault token.                                                        *)

\* The lease outlives the time to its next renewal, or it has come to the end
\* of the token's life and the interval is the shortest one.
Covered ==
    \/ left > renewal
    \/ /\ left = life /\ every = Floor /\ renewal <= Floor
       /\ appRole /\ left = 0 => renewal < Floor

\* What the code keeps between calls, and what an open adapter has that met no
\* fault: a client, whose lease is covered once it is known.
VaultInv ==
    /\ Vault!TypeOK
    /\ ~destroyed =>
           /\ request # "none" => relogin = Vault!Unarmed
           /\ request = "renew" => vault /\ renewal = every
    /\ ~destroyed /\ vaultFaults = 0 =>
           /\ vaultUp
           /\ request = "none" => vault
           /\ known /\ request = "none" => Covered
           /\ known /\ request = "renew" => left > 0 \/ (life = 0 /\ every = Floor)
           /\ known /\ request = "login" => appRole /\ life = 0

\* A lease longer than the shortest interval outlives the one it is renewed at.
LEMMA Intervals ==
    ASSUME Vault!VaultAssumption, NEW lease \in Nat
    PROVE  /\ Vault!IntervalFor(lease) \in Nat
           /\ lease > Floor => lease > Vault!IntervalFor(lease)
           /\ lease <= Floor => Vault!IntervalFor(lease) = Floor
<1>1. lease \div 3 \in Nat /\ lease \div 3 <= lease /\ (lease > 0 => lease \div 3 < lease)
  OBVIOUS
<1> QED
  BY <1>1 DEF Vault!IntervalFor, Vault!VaultAssumption

\* A new lease is covered: it is as long as was asked for, or as the token lives.
LEMMA Granted ==
    ASSUME Vault!VaultAssumption, NEW time \in {n \in Nat : n > Floor}, NEW rest \in Nat \ {0}
    PROVE  LET lease == Vault!Smaller(time, rest)
           IN  /\ lease \in 1..rest
               /\ Vault!IntervalFor(lease) \in Nat
               /\ \/ lease > Vault!IntervalFor(lease)
                  \/ lease = rest /\ Vault!IntervalFor(lease) = Floor
<1> DEFINE lease == Vault!Smaller(time, rest)
<1>1. lease \in 1..rest /\ (lease > Floor \/ lease = rest)
  BY DEF Vault!Smaller, Vault!VaultAssumption
<1>2. lease > Floor \/ lease <= Floor
  BY <1>1 DEF Vault!VaultAssumption
<1> HIDE DEF lease
<1> QED
  BY <1>1, <1>2, Intervals DEF lease

VaultFlags ==
    /\ appRole \in BOOLEAN /\ vaultUp \in BOOLEAN /\ vault \in BOOLEAN
    /\ known \in BOOLEAN /\ destroyed \in BOOLEAN

\* The flags stay Boolean.
LEMMA VaultFlagsKept ==
    ASSUME VaultFlags, [Vault!Next]_vaultVars PROVE VaultFlags'
BY Zenon
   DEF VaultFlags, vaultVars, Vault!Next, Vault!Adapter, Vault!Answered, Vault!LoginSucceeds,
       Vault!LoginFails, Vault!RenewSucceeds, Vault!RenewFails, Vault!ReloginFires,
       Vault!RenewalFires, Vault!Tick, Vault!Outage, Vault!Restore, Vault!Destroy, Vault!token

LEMMA VaultStart ==
    ASSUME Vault!VaultAssumption, Vault!Init
    PROVE  VaultInv
<1>1. VaultFlags
  BY Zenon DEF Vault!Init, VaultFlags
<1>2. PICK time \in Nat : left = Vault!Smaller(time, life)
  <2>1. (IF appRole THEN {0} ELSE StaticLeases) \subseteq Nat
    BY DEF Vault!VaultAssumption
  <2> QED
    BY <2>1 DEF Vault!Init
<1>3. life \in Nat /\ left \in 0..life
  BY <1>2 DEF Vault!Init, Vault!VaultAssumption, Vault!Smaller
<1> QED
  BY <1>1, <1>3
     DEF Vault!VaultAssumption, Vault!Init, VaultInv, VaultFlags, Vault!TypeOK, Vault!Unarmed

LEMMA VaultStep ==
    ASSUME Vault!VaultAssumption, VaultInv, [Vault!Next]_vaultVars
    PROVE  VaultInv'
<1>0. VaultFlags'
  BY VaultFlagsKept DEF VaultFlags, VaultInv, Vault!TypeOK
<1> USE DEF Vault!VaultAssumption, VaultInv, Vault!TypeOK, VaultFlags, Vault!Unarmed,
       Vault!ReloginInterval
<1>1. CASE Vault!LoginSucceeds
  <2>0. ASSUME renewal' \in Nat
        PROVE  ~destroyed' /\ request' = "none" =>
                   /\ (renewal' # Vault!Unarmed) = vault'
                   /\ (relogin' # Vault!Unarmed) = ~vault'
    <3>1. renewal' # Vault!Unarmed
      BY <2>0
    <3>2. vault' = TRUE /\ (~destroyed' => relogin' = Vault!Unarmed)
      BY <1>1 DEF Vault!LoginSucceeds
    <3> QED
      BY <3>1, <3>2, Zenon
  <2>1. CASE appRole
    <3>1. PICK time \in LoginLeases :
              life' \in Lives /\ left' = Vault!Smaller(time, life')
      BY <1>1, <2>1 DEF Vault!LoginSucceeds
    <3>2. every' = Vault!IntervalFor(left') /\ renewal' = every'
      BY <1>1, <2>1 DEF Vault!LoginSucceeds, Vault!Schedule
    <3>3. /\ life' \in Nat /\ left' \in 1..life' /\ every' \in Nat
          /\ left' > renewal' \/ (left' = life' /\ every' = Floor)
      BY <3>1, <3>2, Granted
    <3>4. Covered'
      BY <3>2, <3>3 DEF Covered
    <3>5. /\ request' = "none" /\ vault' = TRUE /\ vaultUp = TRUE
          /\ UNCHANGED <<appRole, vaultUp, relogin, destroyed, vaultFaults>>
      BY <1>1 DEF Vault!LoginSucceeds
    <3>6. life' \in Nat /\ left' \in 0..life' /\ every' \in Nat /\ renewal' \in Nat
      BY <3>2, <3>3
    <3> HIDE DEF Covered
    <3> QED
      BY <1>0, <2>0, <3>4, <3>5, <3>6
  <2>2. CASE ~appRole
    <3>1. every' \in Nat /\ renewal' = every' /\ UNCHANGED <<left, life, known>>
      BY <1>1, <2>2, Intervals DEF Vault!LoginSucceeds, Vault!Schedule, Vault!token
    <3> QED
      BY <1>0, <1>1, <2>0, <2>2, <3>1 DEF Vault!LoginSucceeds
  <2> QED
    BY <2>1, <2>2
<1>2. CASE Vault!LoginFails
  BY <1>0, <1>2 DEF Vault!LoginFails, Vault!Unanswered, Vault!Fault, Vault!token
<1>3. CASE Vault!RenewSucceeds
  <2>1. left > 0 /\ life' = life /\ left' = Vault!Smaller(Increment, life)
    BY <1>3 DEF Vault!RenewSucceeds
  <2>2. ~destroyed => every' = Vault!IntervalFor(left') /\ renewal' = every'
    BY <1>3 DEF Vault!RenewSucceeds, Vault!Schedule
  <2>3. /\ life' \in Nat /\ left' \in 1..life'
        /\ Vault!IntervalFor(left') \in Nat
        /\ left' > Vault!IntervalFor(left') \/ (left' = life' /\ Vault!IntervalFor(left') = Floor)
    BY <2>1, Granted
  <2>4. every' \in Nat /\ renewal' \in Nat \cup {Vault!Unarmed}
    BY <1>3, <2>3 DEF Vault!RenewSucceeds, Vault!Schedule
  <2> QED
    BY <1>0, <1>3, <2>2, <2>3, <2>4 DEF Vault!RenewSucceeds, Covered
<1>4. CASE Vault!RenewFails
  BY <1>0, <1>4 DEF Vault!RenewFails, Vault!Unanswered, Vault!Fault, Vault!token, Covered
<1>5. CASE Vault!ReloginFires
  BY <1>0, <1>5 DEF Vault!ReloginFires, Vault!token, Covered
<1>6. CASE Vault!RenewalFires
  BY <1>0, <1>6 DEF Vault!RenewalFires, Vault!token, Covered
<1>7. CASE Vault!Tick
  BY <1>0, <1>7 DEF Vault!Tick, Covered
<1>8. CASE Vault!Outage
  BY <1>0, <1>8 DEF Vault!Outage, Vault!Fault, Vault!token, Covered
<1>9. CASE Vault!Restore
  BY <1>0, <1>9 DEF Vault!Restore, Vault!token, Covered
<1>10. CASE Vault!Destroy
  BY <1>0, <1>10 DEF Vault!Destroy, Vault!token, Covered
<1>11. CASE UNCHANGED vaultVars
  BY <1>0, <1>11 DEF vaultVars, Covered
<1> QED
  BY <1>1, <1>2, <1>3, <1>4, <1>5, <1>6, <1>7, <1>8, <1>9, <1>10, <1>11
     DEF Vault!Next, Vault!Adapter, Vault!Answered

\* A token ends with its life, and while the next login is due or under way.
LEMMA VaultHolds == Vault!VaultAssumption /\ VaultInv => Vault!TokenLives
<1> SUFFICES ASSUME Vault!VaultAssumption, VaultInv,
                    vault, ~destroyed, vaultFaults = 0, known, left = 0
             PROVE  life = 0 /\ (appRole => request # "none" \/ renewal < Floor)
  BY DEF Vault!TokenLives
<1>1. CASE request = "none"
  <2>1. renewal # Vault!Unarmed
    BY <1>1, Zenon DEF VaultInv, Vault!TypeOK
  <2>2. renewal \in Nat \cup {Vault!Unarmed} /\ Covered
    BY <1>1 DEF VaultInv, Vault!TypeOK
  <2> QED
    BY <2>1, <2>2 DEF Vault!Unarmed, Covered
<1>2. CASE request # "none"
  BY <1>2 DEF VaultInv, Vault!TypeOK
<1> QED
  BY <1>1, <1>2

-----------------------------------------------------------------------------
(* The onboarding follow-up.                                               *)

\* The time of an open run: what is left of it and what it waited for a worker
\* are the margin, but for its attempts and the waits between them; and the
\* mails it may still send.
Spends ==
    /\ run = "open" <=> runAt # "none"
    /\ run = "open" => idle + runLeft <= FollowUp!Lifetime
    /\ runAt = "sleep" => tries = 0 /\ idle = 0 /\ runLeft = Margin + runTimer
    /\ runAt = "due" => tries = 0 /\ runLeft + idle >= Margin
    /\ runAt = "queued" => tries < MaxAttempts /\ runLeft + idle >= Margin - (tries + tries)
    /\ runAt \in {"mail", "push", "dead"} =>
           tries > 0 /\ runTimer \in {0, 1}
           /\ runLeft + idle >= Margin - (tries + tries - 1) + runTimer
    /\ runAt = "backoff" =>
           /\ tries > 0 /\ tries < MaxAttempts /\ runTimer \in {0, 1}
           /\ runLeft + idle >= Margin - (tries + tries) + runTimer

MaySend == IF run = "none" \/ (run = "open" /\ runAt # "push") THEN 1 ELSE 0

FollowUpInv ==
    /\ FollowUp!TypeOK /\ Spends
    /\ adrift + startCalls + (IF run = "open" THEN 1 ELSE 0) <= passes + runFaults
    /\ startCalls + (IF run = "open" THEN 1 ELSE 0) <= passes
    /\ mailed + adrift + MaySend <= 1 + extra
    /\ FollowUp!MarginCovers

LEMMA FollowUpStart ==
    ASSUME FollowUp!OnboardingAssumption, FollowUp!Init
    PROVE  FollowUpInv
<1>1. workerUp \in BOOLEAN
  BY Zenon DEF FollowUp!Init
<1> QED
  BY <1>1
     DEF FollowUp!OnboardingAssumption, FollowUp!Init, FollowUpInv, FollowUp!TypeOK, Spends,
         MaySend, FollowUp!MarginCovers, FollowUp!Lifetime

LEMMA FollowUpStep ==
    ASSUME FollowUp!OnboardingAssumption, FollowUpInv, [FollowUp!Next]_followUpVars
    PROVE  FollowUpInv'
<1>0. workerUp' \in BOOLEAN
  <2>1. workerUp \in BOOLEAN
    BY DEF FollowUpInv, FollowUp!TypeOK
  <2> QED
    BY <2>1, Zenon
       DEF FollowUp!Next, followUpVars, FollowUp!Deliver, FollowUp!StartFails, FollowUp!Starts,
           FollowUp!Schedule, FollowUp!Begin, FollowUp!Mail, FollowUp!MailFails,
           FollowUp!AnswerLost, FollowUp!Push, FollowUp!WorkerDies, FollowUp!WorkerStarts,
           FollowUp!Adrift, FollowUp!TimesOut, FollowUp!TimerFires, FollowUp!Expire,
           FollowUp!Tick
<1> USE <1>0 DEF FollowUp!OnboardingAssumption, FollowUpInv, FollowUp!TypeOK, Spends,
        MaySend, FollowUp!MarginCovers, FollowUp!Lifetime, FollowUp!activity, FollowUp!counts,
        FollowUp!Fault, FollowUp!Close, FollowUp!Retry
<1>1. CASE FollowUp!Deliver
  <2>1. CASE startCalls' = startCalls
    BY <1>1, <2>1 DEF FollowUp!Deliver
  <2>2. CASE startCalls' = startCalls + 1
    BY <1>1, <2>2 DEF FollowUp!Deliver
  <2> QED
    BY <1>1, <2>1, <2>2 DEF FollowUp!Deliver
<1>2. CASE FollowUp!StartFails
  BY <1>2 DEF FollowUp!StartFails
<1>3. CASE FollowUp!Starts
  BY <1>3 DEF FollowUp!Starts
<1>4. CASE FollowUp!Schedule
  BY <1>4 DEF FollowUp!Schedule
<1>5. CASE FollowUp!Begin
  BY <1>5 DEF FollowUp!Begin
<1>6. CASE FollowUp!Mail
  BY <1>6 DEF FollowUp!Mail
<1>7. CASE FollowUp!MailFails
  BY <1>7 DEF FollowUp!MailFails
<1>8. CASE FollowUp!AnswerLost
  BY <1>8 DEF FollowUp!AnswerLost
<1>9. CASE FollowUp!Push
  BY <1>9 DEF FollowUp!Push
<1>10. CASE FollowUp!WorkerDies
  BY <1>10 DEF FollowUp!WorkerDies
<1>11. CASE FollowUp!WorkerStarts
  BY <1>11 DEF FollowUp!WorkerStarts
<1>12. CASE FollowUp!Adrift
  <2>1. CASE mailed' = mailed
    BY <1>12, <2>1 DEF FollowUp!Adrift
  <2>2. CASE mailed' = mailed + 1
    BY <1>12, <2>2 DEF FollowUp!Adrift
  <2> QED
    BY <1>12, <2>1, <2>2 DEF FollowUp!Adrift
<1>13. CASE FollowUp!TimesOut
  BY <1>13 DEF FollowUp!TimesOut
<1>14. CASE FollowUp!TimerFires
  BY <1>14 DEF FollowUp!TimerFires
<1>15. CASE FollowUp!Expire
  BY <1>15 DEF FollowUp!Expire
<1>16. CASE FollowUp!Tick
  BY <1>16 DEF FollowUp!Tick, FollowUp!Prompt
<1>17. CASE UNCHANGED followUpVars
  BY <1>17 DEF followUpVars
<1> QED
  BY <1>1, <1>2, <1>3, <1>4, <1>5, <1>6, <1>7, <1>8, <1>9, <1>10, <1>11, <1>12, <1>13,
     <1>14, <1>15, <1>16, <1>17 DEF FollowUp!Next

\* What the run checks follows.
LEMMA FollowUpHolds == FollowUpInv => FollowUp!MarginCovers /\ FollowUp!FollowedUpOnce
BY DEF FollowUpInv, MaySend, FollowUp!TypeOK, FollowUp!FollowedUpOnce

-----------------------------------------------------------------------------
(* The Temporal workers.                                                   *)

WorkersInv ==
    /\ Workers!TypeOK
    /\ stop # "no" => \A q \in Queues : workerPc[q] # "timer" /\ timer[q] = 0
    /\ stop \in {"close", "done"} => \A q \in Queues : workerPc[q] # "running"
    /\ stop = "done" => link \in {"none", "closed"}
    /\ stop # "no" /\ ~overtook => \A q \in Queues : workerPc[q] # "client"
    /\ late # "none" => stop # "no" /\ overtook

\* The delay of a retry is one the service may wait.
LEMMA Delays ==
    ASSUME Workers!WorkersAssumption, NEW n \in Nat \ {0}
    PROVE  Workers!RetryDelay(n) \in 0..RetryMax
<1>1. 2^(n - 1) \in Nat
  <2> DEFINE k == n - 1
  <2>1. k \in Nat
    OBVIOUS
  <2>2. IsFiniteSet(1..k) /\ Cardinality(1..k) = k
    BY <2>1, FS_Interval
  <2>3. IsFiniteSet(SUBSET (1..k)) /\ Cardinality(SUBSET (1..k)) = 2^Cardinality(1..k)
    BY <2>2, FS_SUBSET
  <2>4. Cardinality(SUBSET (1..k)) \in Nat
    BY <2>3, FS_CardinalityType
  <2> QED
    BY <2>2, <2>3, <2>4
<1> QED
  BY <1>1 DEF Workers!WorkersAssumption, Workers!RetryDelay, Workers!Smaller

\* Before the service stops, a worker may be anywhere.
LEMMA WorkersStart ==
    ASSUME Workers!WorkersAssumption, Workers!Init
    PROVE  WorkersInv
<1>1. temporalUp \in BOOLEAN /\ temporal \in BOOLEAN /\ attempt \in BOOLEAN
      /\ overtook \in BOOLEAN
  BY Zenon DEF Workers!Init
<1> QED
  BY <1>1 DEF Workers!WorkersAssumption, Workers!Init, WorkersInv, Workers!TypeOK

\* What a retry does: before the service stops the queues wait for a timer, and
\* after it they are over.
LEMMA Retrying ==
    ASSUME Workers!WorkersAssumption, Workers!TypeOK, NEW set \in SUBSET Queues,
           Workers!Retry(set)
    PROVE  /\ workerPc' \in
                  [Queues -> {"start", "client", "connect", "late", "running", "timer", "over"}]
           /\ worker' \in [Queues -> {"starting", "running", "retrying", "stopped"}]
           /\ failed' \in [Queues -> 0..MaxFailures]
           /\ timer' \in [Queues -> 0..RetryMax]
           /\ \A q \in Queues \ set : /\ workerPc'[q] = workerPc[q] /\ worker'[q] = worker[q]
                                      /\ timer'[q] = timer[q]
           /\ \A q \in set :
                  IF stop = "no" THEN workerPc'[q] = "timer" /\ worker'[q] = "retrying"
                  ELSE /\ workerPc'[q] = "over" /\ worker'[q] = worker[q]
                       /\ timer'[q] = timer[q]
<1> DEFINE n(q) == Workers!Smaller(MaxFailures, failed[q] + 1)
<1>1. ASSUME NEW q \in Queues
      PROVE  n(q) \in 0..MaxFailures /\ n(q) \in Nat \ {0}
             /\ Workers!RetryDelay(n(q)) \in 0..RetryMax
  <2>1. n(q) \in 0..MaxFailures /\ n(q) \in Nat \ {0}
    BY DEF Workers!Smaller, Workers!TypeOK, Workers!WorkersAssumption
  <2> QED
    BY <2>1, Delays
<1>2. CASE stop # "no"
  BY <1>2 DEF Workers!Retry, Workers!TypeOK
<1>3. CASE stop = "no"
  <2> HIDE DEF n
  <2>1. /\ failed' = [q \in Queues |-> IF q \in set THEN n(q) ELSE failed[q]]
        /\ timer' = [q \in Queues |-> IF q \in set THEN Workers!RetryDelay(n(q)) ELSE timer[q]]
        /\ worker' = [q \in Queues |-> IF q \in set THEN "retrying" ELSE worker[q]]
        /\ workerPc' = [q \in Queues |-> IF q \in set THEN "timer" ELSE workerPc[q]]
    BY <1>3 DEF Workers!Retry, n
  <2>2. failed' \in [Queues -> 0..MaxFailures] /\ timer' \in [Queues -> 0..RetryMax]
    BY <1>1, <2>1 DEF Workers!TypeOK
  <2> QED
    BY <1>3, <2>1, <2>2 DEF Workers!TypeOK
<1> QED
  BY <1>2, <1>3

WorkerFlags ==
    /\ temporalUp \in BOOLEAN /\ temporal \in BOOLEAN /\ attempt \in BOOLEAN
    /\ overtook \in BOOLEAN

\* The flags stay Boolean.
LEMMA WorkerFlagsKept ==
    ASSUME WorkerFlags, [Workers!Next]_workerVars PROVE WorkerFlags'
BY Zenon DEF WorkerFlags, workerVars, Workers!Next, Workers!Go, Workers!Start, Workers!AwaitClient,
       Workers!Attempt, Workers!LateSettles, Workers!links,
       Workers!GetElsewhere, Workers!AttemptSettles, Workers!Connect, Workers!LinkSettles,
       Workers!Create, Workers!RunEnds, Workers!TimerFires, Workers!Destroy, Workers!RunsOver,
       Workers!CloseLink, Workers!Outage, Workers!Restore, Workers!Tick, Workers!holder

LEMMA WorkersStep ==
    ASSUME Workers!WorkersAssumption, WorkersInv, [Workers!Next]_workerVars
    PROVE  WorkersInv'
<1>0. Workers!TypeOK
  BY DEF WorkersInv
<1>f. WorkerFlags'
  BY <1>0, WorkerFlagsKept DEF WorkerFlags, Workers!TypeOK
<1> USE <1>f
   DEF WorkerFlags, Workers!WorkersAssumption, WorkersInv, Workers!TypeOK, Workers!At,
       Workers!holder, Workers!queue, Workers!links, Workers!Fault
<1>1. ASSUME NEW q \in Queues, Workers!Start(q) PROVE WorkersInv'
  <2>1. CASE stop # "no"
    BY <1>1, <2>1 DEF Workers!Start
  <2>2. CASE stop = "no" /\ UNCHANGED <<worker, failed, timer>> /\ Workers!At(q, "client")
    BY <1>1, <2>2 DEF Workers!Start, Workers!AwaitClient, Workers!Attempt, Workers!Due
  <2>3. CASE stop = "no" /\ ~temporal /\ ~attempt /\ Workers!Retry({q})
             /\ UNCHANGED <<attempt, wait>>
    BY <1>0, <1>1, <2>3, Retrying, {q} \in SUBSET Queues DEF Workers!Start
  <2> QED
    BY <1>1, <2>1, <2>2, <2>3 DEF Workers!Start, Workers!AwaitClient
<1>2. CASE Workers!GetElsewhere
  BY <1>2 DEF Workers!GetElsewhere, Workers!Attempt, Workers!Due
<1>3. CASE Workers!AttemptSettles
  <2> DEFINE set == {q \in Queues : workerPc[q] = "client"}
  <2>1. CASE temporalUp
    BY <1>3, <2>1 DEF Workers!AttemptSettles
  <2>2. CASE ~temporalUp
    <3>1. Workers!Retry(set) /\ temporal' = FALSE /\ attempt' = FALSE
          /\ UNCHANGED <<temporalUp, wait, link, late, overtook, stop, workerFaults>>
      BY <1>3, <2>2, Zenon DEF Workers!AttemptSettles
    <3> QED
      BY <1>0, <3>1, Retrying, set \in SUBSET Queues
  <2> QED
    BY <2>1, <2>2
<1>4. ASSUME NEW q \in Queues, Workers!Connect(q) PROVE WorkersInv'
  BY <1>4 DEF Workers!Connect
<1>5. CASE Workers!LinkSettles
  <2> DEFINE set == {q \in Queues : workerPc[q] = "connect"}
  <2>1. CASE temporalUp
    BY <1>5, <2>1 DEF Workers!LinkSettles
  <2>2. CASE ~temporalUp
    <3>1. Workers!Retry(set) /\ link' = "none" /\ link = "connecting"
          /\ UNCHANGED <<temporalUp, temporal, attempt, wait, late, overtook, stop,
                         workerFaults>>
      BY <1>5, <2>2 DEF Workers!LinkSettles
    <3> QED
      BY <1>0, <3>1, Retrying, set \in SUBSET Queues
  <2> QED
    BY <2>1, <2>2
<1>16. CASE Workers!LateSettles
  <2> DEFINE set == {q \in Queues : workerPc[q] = "late"}
  <2>1. CASE temporalUp
    BY <1>16, <2>1 DEF Workers!LateSettles
  <2>2. CASE ~temporalUp
    <3>1. Workers!Retry(set) /\ late' = "none" /\ late = "connecting"
          /\ UNCHANGED <<temporalUp, temporal, attempt, wait, link, overtook, stop,
                         workerFaults>>
      BY <1>16, <2>2 DEF Workers!LateSettles
    <3> QED
      BY <1>0, <3>1, Retrying, set \in SUBSET Queues
  <2> QED
    BY <2>1, <2>2
<1>6. ASSUME NEW q \in Queues, Workers!Create(q) PROVE WorkersInv'
  <2>1. CASE Workers!Retry({q})
    BY <1>0, <1>6, <2>1, Retrying, {q} \in SUBSET Queues DEF Workers!Create
  <2>2. CASE ~Workers!Retry({q})
    BY <1>6, <2>2 DEF Workers!Create
  <2> QED
    BY <2>1, <2>2
<1>7. ASSUME NEW q \in Queues, Workers!RunEnds(q) PROVE WorkersInv'
  <2>1. CASE stop = "no"
    BY <1>0, <1>7, <2>1, Retrying, {q} \in SUBSET Queues DEF Workers!RunEnds
  <2>2. CASE stop # "no"
    BY <1>7, <2>2 DEF Workers!RunEnds
  <2> QED
    BY <2>1, <2>2
<1>8. ASSUME NEW q \in Queues, Workers!TimerFires(q) PROVE WorkersInv'
  BY <1>8 DEF Workers!TimerFires
<1>9. CASE Workers!Destroy
  BY <1>9 DEF Workers!Destroy
<1>10. CASE Workers!RunsOver
  BY <1>10 DEF Workers!RunsOver
<1>11. CASE Workers!CloseLink
  BY <1>11 DEF Workers!CloseLink
<1>12. CASE Workers!Outage
  BY <1>12 DEF Workers!Outage
<1>13. CASE Workers!Restore
  BY <1>13 DEF Workers!Restore
<1>14. CASE Workers!Tick
  BY <1>14 DEF Workers!Tick
<1>15. CASE UNCHANGED workerVars
  BY <1>15 DEF workerVars
<1> QED
  BY <1>1, <1>2, <1>3, <1>4, <1>5, <1>6, <1>7, <1>8, <1>9, <1>10, <1>11, <1>12, <1>13,
     <1>14, <1>15, <1>16 DEF Workers!Next, Workers!Go

LEMMA WorkersHold == WorkersInv => Workers!NothingLeftBehind
BY DEF WorkersInv, Workers!NothingLeftBehind

-----------------------------------------------------------------------------
(* The life of the process.                                                *)

\* The listeners are numbered from one.
LEMMA RoleTiers ==
    ASSUME Lifecycle!RoleAssumption
    PROVE  \E n \in Nat : Tiers = 1..n /\ Lifecycle!Cardinality(Tiers) = n
<1>1. /\ Lifecycle!Cardinality(Tiers) = Cardinality(Tiers)
      /\ Lifecycle!IsFiniteSet(Tiers) <=> IsFiniteSet(Tiers)
  BY DEF Lifecycle!Cardinality, Cardinality, Lifecycle!IsFiniteSet, IsFiniteSet
<1>2. Cardinality(Tiers) \in Nat
  BY <1>1, FS_CardinalityType DEF Lifecycle!RoleAssumption
<1> QED
  BY <1>1, <1>2 DEF Lifecycle!RoleAssumption

\* What boot has opened; once the stop is recorded, every listener.
BootFits ==
    /\ opening => opened + 1 \in Tiers
    /\ pushed => ~opening /\ opened + 1 \notin Tiers
    /\ attached => pushed
    /\ phase = "up" => /\ listening = 1..opened
                       /\ listeners = 1..opened \cup (IF opening THEN {opened + 1} ELSE {})

\* A signal that found the stop closes every listener, and a drain that was not
\* cut short leaves no connection.
DrainFits ==
    /\ phase # "up" /\ ~early => pushed /\ listening = {}
    /\ phase = "drain" /\ ~early => awaited = Tiers
    /\ phase \in {"destroy", "before", "release"} /\ ~early /\ ~timedOut =>
           \A c \in Conns : tcp[c] \in {"none", "gone"}

ConnsFit ==
    \A c \in Conns :
        /\ tcp[c] # "none" => port[c] \in Tiers
        /\ tcp[c] \in {"none", "unrouted", "gone"} => inFlight[c] = 0

RoleInv == Lifecycle!TypeOK /\ BootFits /\ DrainFits /\ ConnsFit /\ cut = {}

RoleFlags ==
    /\ opening \in BOOLEAN /\ pushed \in BOOLEAN /\ attached \in BOOLEAN
    /\ timedOut \in BOOLEAN /\ early \in BOOLEAN

\* The flags stay Boolean.
LEMMA RoleFlagsKept ==
    ASSUME RoleFlags, [Lifecycle!Next]_roleVars PROVE RoleFlags'
BY ZenonT(40) DEF RoleFlags, roleVars, Lifecycle!Next, Lifecycle!StartListener, Lifecycle!Listens,
       Lifecycle!Attach, Lifecycle!Route, Lifecycle!Request, Lifecycle!Answer, Lifecycle!Leave,
       Lifecycle!Accept, Lifecycle!Signal, Lifecycle!Teardown, Lifecycle!Drained,
       Lifecycle!Destroyed, Lifecycle!Released, Lifecycle!DrainTimesOut, Lifecycle!Exit,
       Lifecycle!shutdown, Lifecycle!server, Lifecycle!boot, Lifecycle!conns

LEMMA RoleStart ==
    ASSUME Lifecycle!RoleAssumption, Lifecycle!Init
    PROVE  RoleInv
<1>1. RoleFlags
  BY Zenon DEF Lifecycle!Init, RoleFlags
<1>2. PICK n \in Nat : Tiers = 1..n /\ Lifecycle!Cardinality(Tiers) = n
  BY RoleTiers
<1>3. 1..opened = {} /\ opened \in 0..n
  BY <1>2 DEF Lifecycle!Init
<1> QED
  BY <1>1, <1>2, <1>3
     DEF RoleFlags, Lifecycle!RoleAssumption, Lifecycle!Init, RoleInv, Lifecycle!TypeOK,
         Lifecycle!Ready, BootFits, DrainFits, ConnsFit

\* Closing listeners ends connections without calls, and only those.
LEMMA Closing ==
    ASSUME RoleInv, NEW set \in SUBSET Tiers, Lifecycle!CloseListeners(set)
    PROVE  /\ tcp' \in [Conns -> {"none", "unrouted", "open", "ended", "gone"}]
           /\ cut' = {} /\ UNCHANGED <<port, h2, inFlight>> /\ ConnsFit'
           /\ listening' = listening \ set /\ closing' = closing \cup set /\ awaited' = set
           /\ \A c \in Conns : tcp[c] \in {"none", "gone"} => tcp'[c] = tcp[c]
<1> USE DEF RoleInv, Lifecycle!TypeOK, ConnsFit, Lifecycle!CloseListeners
<1>1. tcp' \in [Conns -> {"none", "unrouted", "open", "ended", "gone"}]
  OBVIOUS
<1>2. \A c \in Conns : tcp'[c] # tcp[c] => inFlight[c] = 0 /\ tcp[c] \in {"unrouted", "open"}
  OBVIOUS
<1>3. cut' = {}
  BY <1>2
<1>4. \A c \in Conns : tcp'[c] # tcp[c] => tcp[c] # "none" /\ inFlight'[c] = 0
  BY <1>2
<1>5. ConnsFit'
  BY <1>1, <1>4
<1> QED
  BY <1>1, <1>2, <1>3, <1>5

LEMMA RoleStep ==
    ASSUME Lifecycle!RoleAssumption, RoleInv, [Lifecycle!Next]_roleVars
    PROVE  RoleInv'
<1>f. RoleFlags'
  BY RoleFlagsKept DEF RoleFlags, RoleInv, Lifecycle!TypeOK
<1>n. PICK n \in Nat : Tiers = 1..n /\ Lifecycle!Cardinality(Tiers) = n
  BY RoleTiers
<1>t. opened \in Nat /\ opened <= n
  BY <1>n DEF RoleInv, Lifecycle!TypeOK
<1>p. pushed => Tiers = 1..opened
  BY <1>n, <1>t DEF RoleInv, BootFits
<1> USE <1>f, <1>n
    DEF RoleFlags, RoleInv, Lifecycle!TypeOK, BootFits, DrainFits, ConnsFit, Lifecycle!Ready,
        Lifecycle!boot, Lifecycle!server, Lifecycle!shutdown, Lifecycle!conns,
        Lifecycle!RoleAssumption
<1>1. CASE Lifecycle!StartListener
  BY <1>1, <1>t DEF Lifecycle!StartListener, Lifecycle!Booting
<1>2. CASE Lifecycle!Listens
  <2>1. opened' \in Nat /\ opened' <= n /\ opened' = opened + 1 /\ opened + 1 \in Tiers
    BY <1>2, <1>t DEF Lifecycle!Listens
  <2>2. pushed' = (opened + 2 \notin Tiers)
    BY <1>2 DEF Lifecycle!Listens
  <2>3. pushed' => opened' + 1 \notin Tiers /\ Tiers = 1..opened'
    BY <2>1, <2>2
  <2>4. 1..opened' = 1..opened \cup {opened + 1}
    BY <2>1, <1>t
  <2>5. ~pushed
    BY <1>2 DEF Lifecycle!Listens
  <2>6. phase = "up" => opened + 1 \in listeners
    BY <1>2 DEF Lifecycle!Listens
  <2> QED
    BY <1>2, <1>t, <2>1, <2>3, <2>4, <2>5, <2>6 DEF Lifecycle!Listens, Lifecycle!Booting
<1>3. CASE Lifecycle!Attach
  BY <1>3, <1>t, <1>p DEF Lifecycle!Attach
<1>4. ASSUME NEW c \in Conns, Lifecycle!Route(c) PROVE RoleInv'
  BY <1>4 DEF Lifecycle!Route
<1>5. ASSUME NEW c \in Conns, Lifecycle!Request(c) PROVE RoleInv'
  BY <1>5 DEF Lifecycle!Request
<1>6. ASSUME NEW c \in Conns, Lifecycle!Answer(c) PROVE RoleInv'
  BY <1>6 DEF Lifecycle!Answer
<1>7. ASSUME NEW c \in Conns, Lifecycle!Leave(c) PROVE RoleInv'
  BY <1>7 DEF Lifecycle!Leave
<1>8. ASSUME NEW c \in Conns, NEW t \in Tiers, Lifecycle!Accept(c, t) PROVE RoleInv'
  BY <1>8 DEF Lifecycle!Accept
<1>9. CASE Lifecycle!Signal
  <2> DEFINE set == IF pushed THEN listeners \cap listening ELSE {}
  <2>1. set \in SUBSET Tiers
    OBVIOUS
  <2>2. Lifecycle!CloseListeners(set) /\ phase = "up" /\ phase' = "drain" /\ early' = ~pushed
        /\ UNCHANGED <<opening, opened, pushed, attached, listeners, timedOut>>
    BY <1>9 DEF Lifecycle!Signal
  <2>3. pushed => set = Tiers
    BY <1>p, <2>2
  <2> HIDE DEF set
  <2>4. ~early' <=> pushed
    BY <2>2, Zenon
  <2>5. ~early' => pushed' /\ listening' = {} /\ awaited' = Tiers
    BY <2>1, <2>2, <2>3, <2>4, Closing
  <2>6. opening' => opened' + 1 \in Tiers
    BY <2>2
  <2>7. (pushed' => ~opening' /\ opened' + 1 \notin Tiers) /\ (attached' => pushed')
    BY <2>2
  <2>c. /\ tcp' \in [Conns -> {"none", "unrouted", "open", "ended", "gone"}]
        /\ cut' = {} /\ UNCHANGED <<port, h2, inFlight>> /\ ConnsFit'
        /\ listening' = listening \ set /\ closing' = closing \cup set /\ awaited' = set
    BY <2>1, <2>2, Closing
  <2>8. Lifecycle!TypeOK'
    <3>1. listening' \subseteq Tiers /\ closing' \subseteq Tiers /\ awaited' \subseteq Tiers
          /\ listeners' \subseteq Tiers
      BY <2>1, <2>2, <2>c
    <3>2. ~Lifecycle!Ready'
      BY <2>2
    <3> QED
      BY <2>2, <2>c, <3>1, <3>2
  <2>9. BootFits'
    BY <2>2, <2>6, <2>7
  <2>10. DrainFits'
    BY <2>2, <2>5
  <2> QED
    BY <2>c, <2>8, <2>9, <2>10
<1>10. CASE Lifecycle!Drained
  BY <1>10 DEF Lifecycle!Drained, Lifecycle!StopOver, Lifecycle!Forget
<1>11. CASE Lifecycle!Destroyed
  <2>1. listeners \cap listening \in SUBSET Tiers
    OBVIOUS
  <2>2. Lifecycle!CloseListeners(listeners \cap listening)
    BY <1>11 DEF Lifecycle!Destroyed
  <2> QED
    BY <1>11, <2>1, <2>2, Closing DEF Lifecycle!Destroyed
<1>12. CASE Lifecycle!Released
  BY <1>12 DEF Lifecycle!Released, Lifecycle!Forget
<1>13. CASE Lifecycle!DrainTimesOut
  BY <1>13 DEF Lifecycle!DrainTimesOut
<1>14. CASE Lifecycle!Exit
  BY <1>14 DEF Lifecycle!Exit
<1>15. CASE UNCHANGED roleVars
  BY <1>15 DEF roleVars
<1> QED
  BY <1>1, <1>2, <1>3, <1>4, <1>5, <1>6, <1>7, <1>8, <1>9, <1>10, <1>11, <1>12, <1>13,
     <1>14, <1>15 DEF Lifecycle!Next, Lifecycle!Teardown

LEMMA RoleHolds == RoleInv => Lifecycle!NothingCutOff
BY DEF RoleInv, DrainFits, ConnsFit, Lifecycle!NothingCutOff

-----------------------------------------------------------------------------
(* The job queue and its dead letters.                                     *)

\* An operator between two replays holds nothing; one that replays an entry
\* knows the job it names.
ReplaysFit ==
    \A o \in Operators :
        IF replayPc[o] = "idle" THEN replaying[o] = Queue!Nothing
        ELSE /\ replaying[o] \in Entries /\ source[o] \in Jobs
             /\ entry[replaying[o]] \in {source[o], Queue!Nothing}

\* A replay that is past its look at a job is going to remove the entry.
Doomed(d) == \E o \in Operators : replaying[o] = d /\ replayPc[o] \in {"add", "remove"}

\* A failed job's entry is there, and nobody who found the job in another state
\* is going to remove it.
LettersKept ==
    \A j \in Jobs : jobState[j] = "failed" =>
        j \in copying \cup uncopied \/ \E d \in Entries : entry[d] = j /\ ~Doomed(d)

\* Where the work is: with a job that runs or is being copied, or with an entry
\* that no replay has acted on.
Running == {j \in Jobs : jobState[j] \in {"waiting", "active"}}
Open == {d \in Entries : entry[d] # Queue!Nothing /\ d \notin acted}

\* The work is in one place, until it is done.
OneToken ==
    /\ emails <= 1
    /\ jobState[First] = "absent" => emails = 0
    /\ jobState[First] = "absent" \/ emails = 1 =>
           Running = {} /\ copying = {} /\ Open = {}
    /\ Running = {} \/ copying = {}
    /\ Open = {} \/ (Running = {} /\ copying = {})
    /\ \A i, j \in Running : i = j
    /\ \A i, j \in copying : i = j
    /\ \A d, e \in Open : d = e
    /\ \A o \in Operators : replayPc[o] \in {"look", "retry", "add"} => replaying[o] \in Open
    /\ \A o, p \in Operators : replaying[o] = replaying[p] /\ replayPc[o] # "idle" => o = p

\* A job that is yet to be added has no attempts on record.
NewIsUntried == \A j \in Jobs : jobState[j] = "absent" => made[j] = 0

QueueInv ==
    /\ Queue!TypeOK /\ NewIsUntried
    /\ ReplaysFit /\ LettersKept
    /\ ~repeated => OneToken

LEMMA QueueStart ==
    ASSUME Queue!QueueAssumption, Queue!Init
    PROVE  QueueInv
<1>1. repeated \in BOOLEAN
  BY Zenon DEF Queue!Init
<1> QED
  BY <1>1
     DEF Queue!QueueAssumption, Queue!Init, QueueInv, Queue!TypeOK, ReplaysFit, LettersKept,
         NewIsUntried,
         OneToken, Running, Open

\* An excuse stays one.
LEMMA RepeatedKept ==
    ASSUME repeated \in BOOLEAN, [Queue!Next]_queueVars
    PROVE  repeated' \in BOOLEAN /\ (repeated => repeated')
BY Zenon DEF queueVars, Queue!Next, Queue!Enqueue, Queue!WorkerStops, Queue!Trim, Queue!Take,
       Queue!Complete, Queue!AttemptFails, Queue!Copy, Queue!CopyFails, Queue!Pick, Queue!Look,
       Queue!Retry, Queue!Add, Queue!Remove, Queue!OperatorStops

\* The jobs, the entries and the operators keep their types.
LEMMA QueueTypes ==
    ASSUME Queue!QueueAssumption, QueueInv, [Queue!Next]_queueVars
    PROVE  (Queue!TypeOK /\ NewIsUntried)'
<1>0. repeated' \in BOOLEAN /\ (repeated => repeated')
  BY RepeatedKept DEF QueueInv, Queue!TypeOK
<1> USE <1>0
   DEF Queue!QueueAssumption, QueueInv, Queue!TypeOK, Queue!queue, Queue!letters, Queue!replays,
       NewIsUntried,
       ReplaysFit
<1>1. CASE Queue!Enqueue
  BY <1>1 DEF Queue!Enqueue, Queue!Put
<1>2. ASSUME NEW j \in Jobs, Queue!Trim(j) PROVE (Queue!TypeOK /\ NewIsUntried)'
  BY <1>2 DEF Queue!Trim, Queue!Put
<1>3. ASSUME NEW j \in Jobs, Queue!Take(j) PROVE (Queue!TypeOK /\ NewIsUntried)'
  BY <1>3 DEF Queue!Take, Queue!Put
<1>4. ASSUME NEW j \in Jobs, Queue!Complete(j) PROVE (Queue!TypeOK /\ NewIsUntried)'
  BY <1>4 DEF Queue!Complete, Queue!Put
<1>5. ASSUME NEW j \in Jobs, Queue!AttemptFails(j) PROVE (Queue!TypeOK /\ NewIsUntried)'
  BY <1>5 DEF Queue!AttemptFails, Queue!Put, Queue!Failed, Queue!ForGood
<1>6. CASE Queue!WorkerStops
  BY <1>6 DEF Queue!WorkerStops, Queue!Put, Queue!Fault
<1>7. ASSUME NEW j \in Jobs, Queue!Copy(j) PROVE (Queue!TypeOK /\ NewIsUntried)'
  BY <1>7 DEF Queue!Copy, Queue!Places
<1>8. ASSUME NEW j \in Jobs, Queue!CopyFails(j) PROVE (Queue!TypeOK /\ NewIsUntried)'
  BY <1>8 DEF Queue!CopyFails, Queue!Fault
<1>9. ASSUME NEW o \in Operators, NEW d \in Entries, Queue!Pick(o, d)
      PROVE  (Queue!TypeOK /\ NewIsUntried)'
  BY <1>9 DEF Queue!Pick, Queue!At
<1>10. ASSUME NEW o \in Operators, Queue!Look(o) PROVE (Queue!TypeOK /\ NewIsUntried)'
  BY <1>10 DEF Queue!Look, Queue!At
<1>11. ASSUME NEW o \in Operators, Queue!Retry(o) PROVE (Queue!TypeOK /\ NewIsUntried)'
  BY <1>11 DEF Queue!Retry, Queue!At, Queue!Done, Queue!Put
<1>12. ASSUME NEW o \in Operators, Queue!Add(o) PROVE (Queue!TypeOK /\ NewIsUntried)'
  BY <1>12 DEF Queue!Add, Queue!At, Queue!Put
<1>13. ASSUME NEW o \in Operators, Queue!Remove(o) PROVE (Queue!TypeOK /\ NewIsUntried)'
  BY <1>13 DEF Queue!Remove, Queue!Done, Queue!At
<1>14. ASSUME NEW o \in Operators, Queue!OperatorStops(o) PROVE (Queue!TypeOK /\ NewIsUntried)'
  BY <1>14 DEF Queue!OperatorStops, Queue!Done, Queue!At
<1>15. CASE UNCHANGED queueVars
  BY <1>15 DEF queueVars
<1> QED
  BY <1>1, <1>2, <1>3, <1>4, <1>5, <1>6, <1>7, <1>8, <1>9, <1>10, <1>11, <1>12, <1>13, <1>14,
     <1>15
     DEF Queue!Next

\* An entry that is replayed is not given to another job.
LEMMA ReplaysStep ==
    ASSUME Queue!QueueAssumption, QueueInv, [Queue!Next]_queueVars
    PROVE  ReplaysFit'
<1>0. repeated' \in BOOLEAN /\ (repeated => repeated')
  BY RepeatedKept DEF QueueInv, Queue!TypeOK
<1> USE <1>0
   DEF Queue!QueueAssumption, QueueInv, Queue!TypeOK, Queue!queue, Queue!letters, Queue!replays,
       NewIsUntried,
       ReplaysFit
<1>1. CASE Queue!Enqueue
  BY <1>1 DEF Queue!Enqueue, Queue!Put
<1>2. ASSUME NEW j \in Jobs, Queue!Trim(j) PROVE ReplaysFit'
  BY <1>2 DEF Queue!Trim, Queue!Put
<1>3. ASSUME NEW j \in Jobs, Queue!Take(j) PROVE ReplaysFit'
  BY <1>3 DEF Queue!Take, Queue!Put
<1>4. ASSUME NEW j \in Jobs, Queue!Complete(j) PROVE ReplaysFit'
  BY <1>4 DEF Queue!Complete, Queue!Put
<1>5. ASSUME NEW j \in Jobs, Queue!AttemptFails(j) PROVE ReplaysFit'
  BY <1>5 DEF Queue!AttemptFails, Queue!Put, Queue!Failed, Queue!ForGood
<1>6. CASE Queue!WorkerStops
  BY <1>6 DEF Queue!WorkerStops, Queue!Put, Queue!Fault
<1>7. ASSUME NEW j \in Jobs, Queue!Copy(j) PROVE ReplaysFit'
  BY <1>7 DEF Queue!Copy, Queue!Places
<1>8. ASSUME NEW j \in Jobs, Queue!CopyFails(j) PROVE ReplaysFit'
  BY <1>8 DEF Queue!CopyFails, Queue!Fault
<1>9. ASSUME NEW o \in Operators, NEW d \in Entries, Queue!Pick(o, d) PROVE ReplaysFit'
  BY <1>9 DEF Queue!Pick, Queue!At
<1>10. ASSUME NEW o \in Operators, Queue!Look(o) PROVE ReplaysFit'
  BY <1>10 DEF Queue!Look, Queue!At
<1>11. ASSUME NEW o \in Operators, Queue!Retry(o) PROVE ReplaysFit'
  BY <1>11 DEF Queue!Retry, Queue!At, Queue!Done, Queue!Put
<1>12. ASSUME NEW o \in Operators, Queue!Add(o) PROVE ReplaysFit'
  BY <1>12 DEF Queue!Add, Queue!At, Queue!Put
<1>13. ASSUME NEW o \in Operators, Queue!Remove(o) PROVE ReplaysFit'
  BY <1>13 DEF Queue!Remove, Queue!Done, Queue!At
<1>14. ASSUME NEW o \in Operators, Queue!OperatorStops(o) PROVE ReplaysFit'
  BY <1>14 DEF Queue!OperatorStops, Queue!Done, Queue!At
<1>15. CASE UNCHANGED queueVars
  BY <1>15 DEF queueVars
<1> QED
  BY <1>1, <1>2, <1>3, <1>4, <1>5, <1>6, <1>7, <1>8, <1>9, <1>10, <1>11, <1>12, <1>13, <1>14,
     <1>15
     DEF Queue!Next

\* The entry of a failed job is removed only by a replay that retried the job.
LEMMA LettersStep ==
    ASSUME Queue!QueueAssumption, QueueInv, [Queue!Next]_queueVars
    PROVE  LettersKept'
<1>0. repeated' \in BOOLEAN /\ (repeated => repeated')
  BY RepeatedKept DEF QueueInv, Queue!TypeOK
<1> USE <1>0
   DEF Queue!QueueAssumption, QueueInv, Queue!TypeOK, Queue!queue, Queue!letters, Queue!replays,
       NewIsUntried,
       ReplaysFit, LettersKept, Doomed
<1>1. CASE Queue!Enqueue
  BY <1>1 DEF Queue!Enqueue, Queue!Put
<1>2. ASSUME NEW j \in Jobs, Queue!Trim(j) PROVE LettersKept'
  BY <1>2 DEF Queue!Trim, Queue!Put
<1>3. ASSUME NEW j \in Jobs, Queue!Take(j) PROVE LettersKept'
  BY <1>3 DEF Queue!Take, Queue!Put
<1>4. ASSUME NEW j \in Jobs, Queue!Complete(j) PROVE LettersKept'
  BY <1>4 DEF Queue!Complete, Queue!Put
<1>5. ASSUME NEW j \in Jobs, Queue!AttemptFails(j) PROVE LettersKept'
  BY <1>5 DEF Queue!AttemptFails, Queue!Put, Queue!Failed, Queue!ForGood
<1>6. CASE Queue!WorkerStops
  BY <1>6 DEF Queue!WorkerStops, Queue!Put, Queue!Fault
<1>7. ASSUME NEW j \in Jobs, Queue!Copy(j) PROVE LettersKept'
  BY <1>7 DEF Queue!Copy, Queue!Places
<1>8. ASSUME NEW j \in Jobs, Queue!CopyFails(j) PROVE LettersKept'
  BY <1>8 DEF Queue!CopyFails, Queue!Fault
<1>9. ASSUME NEW o \in Operators, NEW d \in Entries, Queue!Pick(o, d) PROVE LettersKept'
  BY <1>9 DEF Queue!Pick, Queue!At
<1>10. ASSUME NEW o \in Operators, Queue!Look(o) PROVE LettersKept'
  BY <1>10 DEF Queue!Look, Queue!At
<1>11. ASSUME NEW o \in Operators, Queue!Retry(o) PROVE LettersKept'
  BY <1>11 DEF Queue!Retry, Queue!At, Queue!Done, Queue!Put
<1>12. ASSUME NEW o \in Operators, Queue!Add(o) PROVE LettersKept'
  BY <1>12 DEF Queue!Add, Queue!At, Queue!Put
<1>13. ASSUME NEW o \in Operators, Queue!Remove(o) PROVE LettersKept'
  BY <1>13 DEF Queue!Remove, Queue!Done, Queue!At
<1>14. ASSUME NEW o \in Operators, Queue!OperatorStops(o) PROVE LettersKept'
  BY <1>14 DEF Queue!OperatorStops, Queue!Done, Queue!At
<1>15. CASE UNCHANGED queueVars
  BY <1>15 DEF queueVars
<1> QED
  BY <1>1, <1>2, <1>3, <1>4, <1>5, <1>6, <1>7, <1>8, <1>9, <1>10, <1>11, <1>12, <1>13, <1>14,
     <1>15
     DEF Queue!Next

\* The work moves from one place to the next.
LEMMA TokenStep ==
    ASSUME Queue!QueueAssumption, QueueInv, [Queue!Next]_queueVars, ~repeated'
    PROVE  OneToken'
<1>0. repeated' \in BOOLEAN /\ (repeated => repeated')
  BY RepeatedKept DEF QueueInv, Queue!TypeOK
<1> USE <1>0
   DEF Queue!QueueAssumption, QueueInv, Queue!TypeOK, Queue!queue, Queue!letters, Queue!replays,
       NewIsUntried,
       ReplaysFit, OneToken, Running, Open
<1>1. CASE Queue!Enqueue
  BY <1>1 DEF Queue!Enqueue, Queue!Put
<1>2. ASSUME NEW j \in Jobs, Queue!Trim(j) PROVE OneToken'
  BY <1>2 DEF Queue!Trim, Queue!Put
<1>3. ASSUME NEW j \in Jobs, Queue!Take(j) PROVE OneToken'
  BY <1>3 DEF Queue!Take, Queue!Put
<1>4. ASSUME NEW j \in Jobs, Queue!Complete(j) PROVE OneToken'
  BY <1>4 DEF Queue!Complete, Queue!Put
<1>5. ASSUME NEW j \in Jobs, Queue!AttemptFails(j) PROVE OneToken'
  BY <1>5 DEF Queue!AttemptFails, Queue!Put, Queue!Failed, Queue!ForGood
<1>6. CASE Queue!WorkerStops
  BY <1>6 DEF Queue!WorkerStops, Queue!Put, Queue!Fault
<1>7. ASSUME NEW j \in Jobs, Queue!Copy(j) PROVE OneToken'
  <2>1. copying # {} /\ ~repeated
    BY <1>7 DEF Queue!Copy
  <2>2. Running = {} /\ Open = {} /\ emails <= 1 /\ jobState[First] # "absent" /\ emails # 1
    BY <2>1
  <2>3. PICK d \in Queue!Places :
            entry' = [entry EXCEPT ![d] = j] /\ acted' = acted \ {d}
    <3> DEFINE e == CHOOSE d \in Queue!Places : TRUE
    <3>1. e \in Queue!Places
      BY <1>7 DEF Queue!Copy
    <3>2. entry' = [entry EXCEPT ![e] = j] /\ acted' = acted \ {e}
      BY <1>7 DEF Queue!Copy
    <3> QED
      BY <3>1, <3>2
  <2>4. /\ copying' = copying \ {j} /\ j \in copying
        /\ UNCHANGED <<jobState, made, stalled, emails, replaying, source, replayPc>>
    BY <1>7 DEF Queue!Copy
  <2>5. copying' = {} /\ Running' = {}
    BY <2>1, <2>2, <2>4
  <2>6. Open' = {d}
    BY <2>2, <2>3 DEF Queue!Places
  <2>7. \A o \in Operators : replayPc[o] \notin {"look", "retry", "add"}
    BY <2>1, <2>2
  <2> QED
    BY <2>1, <2>2, <2>4, <2>5, <2>6, <2>7
<1>8. ASSUME NEW j \in Jobs, Queue!CopyFails(j) PROVE OneToken'
  BY <1>8 DEF Queue!CopyFails, Queue!Fault
<1>9. ASSUME NEW o \in Operators, NEW d \in Entries, Queue!Pick(o, d) PROVE OneToken'
  <2>1. ~repeated /\ d \notin acted /\ \A p \in Operators : replaying[p] # d
    BY <1>9, Zenon DEF Queue!Pick
  <2>2. /\ replaying' = [replaying EXCEPT ![o] = d]
        /\ replayPc' = [replayPc EXCEPT ![o] = "look"]
        /\ entry[d] # Queue!Nothing
        /\ UNCHANGED <<jobState, made, stalled, emails, copying, entry, acted>>
    BY <1>9 DEF Queue!Pick, Queue!At
  <2>3. d \in Open /\ Open' = Open /\ Running' = Running
    BY <2>1, <2>2
  <2>4. \A p \in Operators : replayPc'[p] \in {"look", "retry", "add"} => replaying'[p] \in Open
    BY <2>1, <2>2, <2>3
  <2>5. \A p, q \in Operators :
            replaying'[p] = replaying'[q] /\ replayPc'[p] # "idle" => p = q
    BY <2>1, <2>2
  <2> HIDE DEF Open, Running
  <2> QED
    BY <2>1, <2>2, <2>3, <2>4, <2>5
<1>10. ASSUME NEW o \in Operators, Queue!Look(o) PROVE OneToken'
  BY <1>10 DEF Queue!Look, Queue!At
<1>11. ASSUME NEW o \in Operators, Queue!Retry(o) PROVE OneToken'
  BY <1>11 DEF Queue!Retry, Queue!At, Queue!Done, Queue!Put
<1>12. ASSUME NEW o \in Operators, Queue!Add(o) PROVE OneToken'
  BY <1>12 DEF Queue!Add, Queue!At, Queue!Put
<1>13. ASSUME NEW o \in Operators, Queue!Remove(o) PROVE OneToken'
  BY <1>13 DEF Queue!Remove, Queue!Done, Queue!At
<1>14. ASSUME NEW o \in Operators, Queue!OperatorStops(o) PROVE OneToken'
  BY <1>14 DEF Queue!OperatorStops, Queue!Done, Queue!At
<1>15. CASE UNCHANGED queueVars
  BY <1>15 DEF queueVars
<1> QED
  BY <1>1, <1>2, <1>3, <1>4, <1>5, <1>6, <1>7, <1>8, <1>9, <1>10, <1>11, <1>12, <1>13, <1>14,
     <1>15
     DEF Queue!Next

LEMMA QueueStep ==
    ASSUME Queue!QueueAssumption, QueueInv, [Queue!Next]_queueVars
    PROVE  QueueInv'
BY QueueTypes, ReplaysStep, LettersStep, TokenStep DEF QueueInv

LEMMA QueueHolds == QueueInv => Queue!FailedIsKept /\ Queue!SentOnce
BY DEF QueueInv, LettersKept, OneToken, Queue!FailedIsKept, Queue!SentOnce

-----------------------------------------------------------------------------
(* The caches: tenants, statistics and probes.                             *)

\* What is cached or about to be was true since the record's last change, or for
\* no longer than it has been on its way.
DirectoryInv ==
    /\ Directory!TypeOK
    /\ cached \notin {tenant, Directory!Miss} => since + cacheLeft <= Directory!Bound
    /\ \A p \in Processes :
          /\ flightPc[p] = "set" => value[p] # Directory!Miss
                /\ (value[p] # tenant => since + deadline[p] <= MaxLoad)
          /\ flightPc[p] = "answer" /\ value[p] # tenant => since <= Directory!Bound

LEMMA DirectoryStart ==
    ASSUME Directory!DirectoryAssumption, Directory!Init
    PROVE  DirectoryInv
<1>1. deleting \in BOOLEAN
  BY Zenon DEF Directory!Init
<1> QED
  BY <1>1 DEF Directory!DirectoryAssumption, Directory!Init, DirectoryInv, Directory!TypeOK,
       Directory!Bound, Directory!Statuses, Directory!Miss

LEMMA DirectoryStep ==
    ASSUME Directory!DirectoryAssumption, DirectoryInv, [Directory!Next]_directoryVars
    PROVE  DirectoryInv'
<1> USE DEF Directory!DirectoryAssumption, DirectoryInv, Directory!TypeOK,
            Directory!Bound, Directory!Statuses, Directory!Miss
<1>1. CASE Directory!Tick
  <2>1. \A p \in Processes :
            deadline'[p] = IF flightPc[p] = "idle" THEN 0 ELSE deadline[p] - 1
    BY <1>1 DEF Directory!Tick
  <2>2. deadline' \in [Processes -> 0..MaxLoad]
    BY <1>1 DEF Directory!Tick
  <2>3. Directory!TypeOK'
    BY <1>1, <2>2 DEF Directory!Tick
  <2>4. since' <= since + 1 /\ cacheLeft' <= cacheLeft
    BY <1>1 DEF Directory!Tick
  <2> QED
    BY <1>1, <2>1, <2>3 DEF Directory!Tick
<1>2. CASE Directory!Delete
  <2>1. deleting' \in BOOLEAN
    BY <1>2, Zenon DEF Directory!Delete
  <2>2. CASE cached' = Directory!Miss /\ cacheLeft' = 0
    BY <1>2, <2>1, <2>2 DEF Directory!Delete, Directory!flights
  <2>3. CASE UNCHANGED <<cached, cacheLeft>>
    BY <1>2, <2>1, <2>3 DEF Directory!Delete, Directory!flights
  <2> QED
    BY <1>2, <2>2, <2>3 DEF Directory!Delete
<1>3. ASSUME NEW s \in Directory!Statuses \ {"unregistered"}, Directory!Register(s)
      PROVE  DirectoryInv'
  BY <1>3 DEF Directory!Register, Directory!flights
<1>4. ASSUME NEW p \in Processes, Directory!Find(p) PROVE DirectoryInv'
  BY <1>4 DEF Directory!Find
<1>5. ASSUME NEW p \in Processes, Directory!Get(p) PROVE DirectoryInv'
  BY <1>5 DEF Directory!Get
<1>6. ASSUME NEW p \in Processes, Directory!Load(p) PROVE DirectoryInv'
  BY <1>6 DEF Directory!Load
<1>7. ASSUME NEW p \in Processes, Directory!Set(p) PROVE DirectoryInv'
  BY <1>7 DEF Directory!Set
<1>8. ASSUME NEW p \in Processes, Directory!Land(p) PROVE DirectoryInv'
  BY <1>8 DEF Directory!Land
<1>9. CASE UNCHANGED directoryVars
  BY <1>9 DEF directoryVars
<1> QED
  BY <1>1, <1>2, <1>3, <1>4, <1>5, <1>6, <1>7, <1>8, <1>9 DEF Directory!Next

\* What is cached of the statistics, or about to be, leaves out no event that
\* was stored for longer than it has been on its way.
StatsInv ==
    /\ Stats!TypeOK
    /\ \A e \in Events : recorded[e] # "stored" => storedAge[e] = 0
    /\ stats # Stats!Miss =>
          \A e \in Stats!Stored \ stats : storedAge[e] + statsLeft <= Stats!Bound
    /\ \A r \in Readers : \A e \in Stats!Stored \ counted[r] :
          /\ readPc[r] = "set" => storedAge[e] + readLeft[r] <= MaxLoad
          /\ readPc[r] = "answer" => storedAge[e] <= Stats!Bound

LEMMA StatsStart ==
    ASSUME Stats!AnalyticsAssumption, Stats!Init
    PROVE  StatsInv
BY DEF Stats!AnalyticsAssumption, Stats!Init, StatsInv, Stats!TypeOK, Stats!Stored, Stats!Bound

LEMMA StatsStep ==
    ASSUME Stats!AnalyticsAssumption, StatsInv, [Stats!Next]_statsVars
    PROVE  StatsInv'
<1> USE DEF Stats!AnalyticsAssumption, StatsInv, Stats!TypeOK, Stats!Stored, Stats!Bound
<1>1. CASE Stats!Tick
  <2>1. \A e \in Events :
            /\ storedAge'[e] \in 0..TTL + MaxLoad + 1 /\ storedAge'[e] <= storedAge[e] + 1
            /\ (recorded[e] # "stored" => storedAge'[e] = storedAge[e])
    BY <1>1 DEF Stats!Tick
  <2>2. storedAge' \in [Events -> 0..TTL + MaxLoad + 1]
    BY <1>1, <2>1 DEF Stats!Tick
  <2>3. readLeft' \in [Readers -> 0..MaxLoad]
    BY <1>1 DEF Stats!Tick
  <2>4. \A r \in Readers :
            /\ readPc[r] # "answer"
            /\ readPc[r] # "idle" => readLeft'[r] = readLeft[r] - 1
    BY <1>1 DEF Stats!Tick
  <2>5. /\ statsLeft' \in 0..TTL
        /\ stats' # Stats!Miss => stats' = stats /\ statsLeft' = statsLeft - 1
        /\ (stats' = Stats!Miss <=> statsLeft' = 0) /\ (stats' = Stats!Miss \/ stats' = stats)
    BY <1>1 DEF Stats!Tick
  <2>6. Stats!TypeOK'
    BY <1>1, <2>2, <2>3, <2>5 DEF Stats!Tick
  <2>7. recorded' = recorded /\ readPc' = readPc /\ counted' = counted
    BY <1>1 DEF Stats!Tick
  <2>8. stats' # Stats!Miss =>
            \A e \in Stats!Stored' \ stats' : storedAge'[e] + statsLeft' <= Stats!Bound
    BY <2>1, <2>5, <2>7
  <2>9. \A r \in Readers : \A e \in Stats!Stored' \ counted'[r] :
            /\ readPc'[r] = "set" => storedAge'[e] + readLeft'[r] <= MaxLoad
            /\ readPc'[r] # "answer"
    BY <2>1, <2>3, <2>4, <2>7
  <2> QED
    BY <2>1, <2>6, <2>7, <2>8, <2>9
<1>2. ASSUME NEW e \in Events, Stats!Create(e) PROVE StatsInv'
  BY <1>2 DEF Stats!Create, Stats!readings
<1>3. ASSUME NEW e \in Events, Stats!Bust(e) PROVE StatsInv'
  BY <1>3 DEF Stats!Bust, Stats!readings
<1>4. ASSUME NEW e \in Events, Stats!Store(e) PROVE StatsInv'
  BY <1>4 DEF Stats!Store, Stats!readings
<1>5. ASSUME NEW r \in Readers, Stats!GetStats(r) PROVE StatsInv'
  BY <1>5 DEF Stats!GetStats, Stats!Go
<1>6. ASSUME NEW r \in Readers, Stats!Hit(r) PROVE StatsInv'
  BY <1>6 DEF Stats!Hit, Stats!Go
<1>7. ASSUME NEW r \in Readers, Stats!Count(r) PROVE StatsInv'
  BY <1>7 DEF Stats!Count, Stats!Go
<1>8. ASSUME NEW r \in Readers, Stats!Set(r) PROVE StatsInv'
  BY <1>8 DEF Stats!Set, Stats!Go
<1>9. ASSUME NEW r \in Readers, Stats!Ends(r) PROVE StatsInv'
  BY <1>9 DEF Stats!Ends, Stats!Go
<1>10. CASE UNCHANGED statsVars
  BY <1>10 DEF statsVars
<1> QED
  BY <1>1, <1>2, <1>3, <1>4, <1>5, <1>6, <1>7, <1>8, <1>9, <1>10 DEF Stats!Next

\* A probe begins once the last result's window is over, and what it found or
\* is cached was so within a probe's time.
ProbesInv ==
    /\ Probes!TypeOK
    /\ gap >= CacheTicks
    /\ probe = Probes!None => begun >= (IF probed = Probes!None THEN CacheTicks ELSE age)
    /\ ~healthy =>
          /\ probe = "up" => changed + probeLeft <= ProbeTimeout
          /\ probed = "up" /\ age < CacheTicks => changed <= ProbeTimeout + age
          /\ \A c \in Callers : reply[c] = "up" => changed <= Probes!Bound

LEMMA ProbesStart ==
    ASSUME Probes!ProbesAssumption, Probes!Init
    PROVE  ProbesInv
<1>1. healthy \in BOOLEAN
  BY Zenon DEF Probes!Init
<1> QED
  BY <1>1 DEF Probes!ProbesAssumption, Probes!Init, ProbesInv, Probes!TypeOK, Probes!Bound,
       Probes!None

LEMMA ProbesStep ==
    ASSUME Probes!ProbesAssumption, ProbesInv, [Probes!Next]_probeVars
    PROVE  ProbesInv'
<1> USE DEF Probes!ProbesAssumption, ProbesInv, Probes!TypeOK, Probes!Bound, Probes!None
<1>1. CASE Probes!Change
  <2>1. healthy' \in BOOLEAN
    BY <1>1, Zenon DEF Probes!Change
  <2> QED
    BY <1>1, <2>1 DEF Probes!Change
<1>2. CASE Probes!Finds
  BY <1>2 DEF Probes!Finds
<1>3. ASSUME NEW result \in {"up", "down"}, probe # Probes!None, Probes!Settle(result),
             result = "up" => probe = "up"
      PROVE  ProbesInv'
  BY <1>3 DEF Probes!Settle
<1>4. CASE Probes!Tick
  BY <1>4 DEF Probes!Tick, Probes!UpTo
<1>5. ASSUME NEW c \in Callers, Probes!FromCache(c) PROVE ProbesInv'
  BY <1>5 DEF Probes!FromCache
<1>6. ASSUME NEW c \in Callers, Probes!Ask(c) PROVE ProbesInv'
  BY <1>6 DEF Probes!Ask
<1>7. ASSUME NEW c \in Callers, Probes!Given(c) PROVE ProbesInv'
  BY <1>7 DEF Probes!Given
<1>8. CASE UNCHANGED probeVars
  BY <1>8 DEF probeVars
<1> QED
  BY <1>1, <1>2, <1>3, <1>4, <1>5, <1>6, <1>7, <1>8
     DEF Probes!Next, Probes!Answers, Probes!TimesOut

\* A reader is answered within the bounds of what is cached.
LEMMA CachesHold ==
    /\ DirectoryInv => Directory!StaleIsBounded
    /\ StatsInv => Stats!StatsAreRecent
    /\ ProbesInv => Probes!UpIsRecent /\ Probes!ProbesApart
BY DEF DirectoryInv, Directory!StaleIsBounded, StatsInv, Stats!StatsAreRecent, ProbesInv,
       Probes!UpIsRecent, Probes!ProbesApart

-----------------------------------------------------------------------------
(* The composition: each part's invariant beside the others'.              *)

PartsInv ==
    /\ BreakerInv /\ LockoutInv /\ SocketsInv /\ ClientInv
    /\ VaultInv /\ WorkersInv /\ RoleInv /\ QueueInv
    /\ DirectoryInv /\ StatsInv /\ ProbesInv /\ FollowUpInv

LEMMA PartsStart == PartsInit => PartsInv
BY PartsAssumption, BreakerStart, LockoutStart, SocketsStart, ClientStart, VaultStart,
   WorkersStart, RoleStart, QueueStart, DirectoryStart, StatsStart, ProbesStart, FollowUpStart
   DEF PartsInit, PartsInv

\* A step of one part leaves the others as they are.
LEMMA PartsMove ==
    [PartsNext]_partVars =>
        /\ [Next]_vars /\ [Lockout!Next]_lockoutVars /\ [Realtime!Next]_socketVars
        /\ [Client!Next]_clientVars /\ [Vault!Next]_vaultVars /\ [Workers!Next]_workerVars
        /\ [Lifecycle!Next]_roleVars /\ [Queue!Next]_queueVars
        /\ [Directory!Next]_directoryVars /\ [Stats!Next]_statsVars
        /\ [Probes!Next]_probeVars /\ [FollowUp!Next]_followUpVars
BY Zenon
   DEF PartsNext, partVars, guardVars, processVars, sideVars, readVars, OnBreaker, OnLockout,
       OnSockets, OnClient, OnVault, OnWorkers, OnRole, OnQueue, OnDirectory, OnProbes, OnStats,
       OnFollowUp

LEMMA PartsStep == PartsInv /\ [PartsNext]_partVars => PartsInv'
<1> SUFFICES ASSUME PartsInv, [PartsNext]_partVars PROVE PartsInv'
  OBVIOUS
<1>1. BreakerInv' /\ LockoutInv' /\ SocketsInv' /\ ClientInv'
  BY PartsAssumption, PartsMove, BreakerStep, LockoutStep, SocketsStep, ClientStep
     DEF PartsInv
<1>2. VaultInv' /\ WorkersInv' /\ RoleInv' /\ QueueInv'
  BY PartsAssumption, PartsMove, VaultStep, WorkersStep, RoleStep, QueueStep DEF PartsInv
<1>3. DirectoryInv' /\ StatsInv' /\ ProbesInv' /\ FollowUpInv'
  BY PartsAssumption, PartsMove, DirectoryStep, StatsStep, ProbesStep, FollowUpStep
     DEF PartsInv
<1> QED
  BY <1>1, <1>2, <1>3 DEF PartsInv

\* All of them are invariants of the composition.
LEMMA PartsInvariance == PartsSpec => []PartsInv
BY PartsStart, PartsStep, PTL DEF PartsSpec

\* Every variable of every part keeps its type; a process that reports ready
\* listens, an open Vault adapter waits for one timer, and status() says
\* "running" of the queues whose worker polls.
THEOREM TypesCorrect == PartsSpec => []TypesOK
<1>1. PartsInv => TypesOK
  BY DEF PartsInv, BreakerInv, LockoutInv, SocketsInv, ClientInv, VaultInv, WorkersInv, RoleInv,
         QueueInv, DirectoryInv, StatsInv, ProbesInv, FollowUpInv, TypesOK
<1> QED
  BY <1>1, PartsInvariance, PTL

\* At most one probe of the breaker is in flight, and the flag is set exactly
\* while it is: fire() and its `finally` keep it so through any settlement
\* order.
THEOREM ProbeExclusive == PartsSpec => []OneProbe
<1>1. PartsInv => OneProbe
  BY DEF PartsInv, BreakerInv
<1> QED
  BY <1>1, PartsInvariance, PTL

\* A closed breaker has fewer failures on record than the threshold, and
\* HALF_OPEN always has a probe to leave it: onSuccess and onFailure decide the
\* state on every settlement, whichever calls settle.
THEOREM ThresholdKept == PartsSpec => [](ClosedBelowThreshold /\ HalfOpenHasProbe)
<1>1. PartsInv => ClosedBelowThreshold /\ HalfOpenHasProbe
  BY DEF PartsInv, BreakerInv
<1> QED
  BY <1>1, PartsInvariance, PTL

\* However logins overlap and calls come late or fail, a key counts a bounded
\* number of failures in a window; what is cached of a tenant, its statistics
\* or a probe is stale for a bounded time, and a window begins one probe.
THEOREM BoundsHold == PartsSpec => []Bounded
<1>1. PartsInv => Bounded
  <2> SUFFICES ASSUME PartsInv PROVE Bounded
    OBVIOUS
  <2>1. Lockout!FailuresBounded
    BY PartsAssumption, LockoutHolds DEF PartsInv
  <2>2. Directory!StaleIsBounded /\ Stats!StatsAreRecent /\ Probes!UpIsRecent
        /\ Probes!ProbesApart
    BY PartsAssumption, CachesHold DEF PartsInv
  <2> QED
    BY <2>1, <2>2 DEF Bounded
<1> QED
  BY <1>1, PartsInvariance, PTL

\* A socket that is gone leaves no timer and no count behind, a worker service
\* that was destroyed no worker, no timer and no connection but that of a start
\* it overtook in its wait for the client, and a job that failed is on its way to the dead letters, among them, or its copy was lost.
THEOREM NothingStaysBehind == PartsSpec => []NothingLeftBehind
<1>1. PartsInv => NothingLeftBehind
  BY WorkersHold, QueueHolds DEF PartsInv, SocketsInv, NothingLeftBehind
<1> QED
  BY <1>1, PartsInvariance, PTL

\* With the lock, refreshes whose answers are heard do not end the session, and
\* a logout that no refresh races ends it in every tab.
THEOREM SessionsEndByLogout == PartsSpec => []EndsByLogout
<1>1. PartsInv => EndsByLogout
  BY SessionEnds DEF PartsInv
<1> QED
  BY <1>1, PartsInvariance, PTL

\* A refresh that answers a token leaves one in the cookie that the server
\* knows, unless an answer was lost or a logout came between.
THEOREM GivenStaysRefreshable == PartsSpec => GivenIsRefreshable
<1> DEFINE Given == \A t \in Tabs :
                        t \in access' \ access /\ locks /\ ~lost' /\ revoke' = Client!None
                            => jar' \in records'
<1>1. PartsInv /\ [PartsNext]_partVars => [Given]_Client!vars
  <2> SUFFICES ASSUME PartsInv, [PartsNext]_partVars PROVE Given
    OBVIOUS
  <2>1. ClientInv /\ [Client!Next]_clientVars
    BY PartsMove DEF PartsInv
  <2> QED
    BY <2>1, GivenStep DEF Client!None
<1> QED
  BY <1>1, PartsInvariance, PTL DEF PartsSpec, GivenIsRefreshable, Client!GivenIsRefreshable

\* No connection is ended under a request and no module torn down under one, a
\* Vault token runs out only with its maximum TTL and has a successor within the
\* shortest interval, no follow-up's run ends under its attempts, and a job or a
\* follow-up that was sent is not sent again.
THEOREM NothingIsCutOff == PartsSpec => []NothingCutOff
<1>1. PartsInv => NothingCutOff
  BY RoleHolds, PartsAssumption, VaultHolds, QueueHolds, FollowUpHolds
     DEF PartsInv, NothingCutOff
<1> QED
  BY <1>1, PartsInvariance, PTL

=============================================================================
