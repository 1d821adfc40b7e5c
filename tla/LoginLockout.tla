---------------------------- MODULE LoginLockout ----------------------------
(***************************************************************************)
(* The lockout of one account's logins (login-lockout.service.ts): failure *)
(* counters of a fixed window in the ratelimit store                       *)
(* (redis-ratelimit.adapter.ts), and lockout markers in the KV store, set  *)
(* for the rest of the window when a counter reaches its limit.            *)
(*                                                                         *)
(* Attempts overlap: each looks at its markers, has its password checked,  *)
(* and then counts a failure on each of its counters, or clears its        *)
(* markers; calls for different keys run side by side.  Any call may fail, *)
(* and then the attempt goes on as if there were no lockout.               *)
(*                                                                         *)
(* Abstracted: what passwords are, and the limit on RPC logins, a counter  *)
(* of its own that every attempt hits.                                     *)
(***************************************************************************)
EXTENDS Integers, FiniteSets

CONSTANTS
    Attempts,       \* logins that may be under way at once
    Keys,           \* the counters: one per address, one for the e-mail
    KeysOf,         \* per attempt: the keys of its address and the e-mail
    Limit,          \* LOCKOUT_MAX_ATTEMPTS, LOCKOUT_EMAIL_MAX
    Window,         \* LOCKOUT_WINDOW_S
    MaxFaults,      \* bound on failed and late calls
    MaxLogins       \* bound on successful logins

LockoutAssumption ==
    /\ IsFiniteSet(Attempts) /\ KeysOf \in [Attempts -> SUBSET Keys]
    /\ Limit \in [Keys -> Nat \ {0}] /\ Window \in Nat \ {0}
    /\ MaxFaults \in Nat /\ MaxLogins \in Nat

VARIABLES
    count,      \* per key: failures counted in its window
    window,     \* per key: time left of the window, 0 if there is none
    marker,     \* per key: time left of the marker, 0 if there is none
    pc,         \* per attempt: "idle", "look", "password", "count", "reset"
    calls,      \* per attempt: keys whose call is still to be made
    locked,     \* attempts that saw a marker
    due,        \* per attempt and key: the lifetime of a marker to be set
    excused,    \* per key: logins, failed and late calls in this window
    logins,
    faults

stores == <<count, window, marker>>
attempt == <<pc, calls, locked, due>>
bounds == <<logins, faults>>
vars == <<stores, attempt, excused, bounds>>

Init ==
    /\ count = [k \in Keys |-> 0]
    /\ window = [k \in Keys |-> 0]
    /\ marker = [k \in Keys |-> 0]
    /\ pc = [a \in Attempts |-> "idle"]
    /\ calls = [a \in Attempts |-> {}]
    /\ locked = {}
    /\ due = [a \in Attempts |-> [k \in Keys |-> 0]]
    /\ excused = [k \in Keys |-> 0]
    /\ logins = 0 /\ faults = 0

Fault == faults < MaxFaults /\ faults' = faults + 1

\* The calls for every key of a phase are made side by side.
Enter(a, phase) ==
    /\ pc' = [pc EXCEPT ![a] = phase]
    /\ calls' = [calls EXCEPT ![a] = IF phase \in {"idle", "password"} THEN {} ELSE KeysOf[a]]

Called(a, k) == calls' = [calls EXCEPT ![a] = @ \ {k}]

Waiting(a) == calls[a] # {} \/ \E k \in Keys : due[a][k] > 0

-----------------------------------------------------------------------------
(* A login.                                                                *)

Begin(a) ==
    /\ pc[a] = "idle"
    /\ Enter(a, "look")
    /\ UNCHANGED <<stores, locked, due, excused, bounds>>

\* assertNotLocked: isMarked.
Look(a, k) ==
    /\ pc[a] = "look" /\ k \in calls[a]
    /\ locked' = IF marker[k] > 0 THEN locked \cup {a} ELSE locked
    /\ Called(a, k)
    /\ UNCHANGED <<stores, pc, due, excused, bounds>>

\* Either marker refuses the login, before the password is checked.
Looked(a) ==
    /\ pc[a] = "look" /\ calls[a] = {}
    /\ Enter(a, IF a \in locked THEN "idle" ELSE "password")
    /\ locked' = locked \ {a}
    /\ UNCHANGED <<stores, due, excused, bounds>>

WrongPassword(a) ==
    /\ pc[a] = "password"
    /\ Enter(a, "count")
    /\ UNCHANGED <<stores, locked, due, excused, bounds>>

RightPassword(a) ==
    /\ pc[a] = "password" /\ logins < MaxLogins
    /\ logins' = logins + 1
    /\ Enter(a, "reset")
    /\ UNCHANGED <<stores, locked, due, excused, faults>>

\* The password is right and the account inactive: neither counted nor reset.
InactiveAccount(a) ==
    /\ pc[a] = "password"
    /\ Enter(a, "idle")
    /\ UNCHANGED <<stores, locked, due, excused, bounds>>

\* Bug: only the failure that reaches the limit exactly locks.
BugReachedExactly(k, n) == n = Limit[k]

\* result.remaining === 0
Reached(k, n) == n >= Limit[k]

\* The script's expire: the first hit starts the window.
WindowAfterHit(k) == IF window[k] = 0 THEN Window ELSE window[k]

\* countFailure: hit, in one script.
Hit(a, k) ==
    /\ pc[a] = "count" /\ k \in calls[a]
    /\ count' = [count EXCEPT ![k] = @ + 1]
    /\ window' = [window EXCEPT ![k] = WindowAfterHit(k)]
    /\ due' = [due EXCEPT ![a][k] = IF Reached(k, count'[k]) THEN window'[k] ELSE 0]
    /\ Called(a, k)
    /\ UNCHANGED <<marker, pc, locked, excused, bounds>>

\* countFailure: the marker is set for what was left of the window.
SetMarker(a, k) ==
    /\ due[a][k] > 0
    /\ marker' = [marker EXCEPT ![k] = due[a][k]]
    /\ due' = [due EXCEPT ![a][k] = 0]
    /\ UNCHANGED <<count, window, pc, calls, locked, excused, bounds>>

\* reset clears the marker; the counter keeps its count.
Clear(a, k) ==
    /\ pc[a] = "reset" /\ k \in calls[a]
    /\ marker' = [marker EXCEPT ![k] = 0]
    /\ Called(a, k)
    /\ excused' = [excused EXCEPT ![k] = @ + 1]
    /\ UNCHANGED <<count, window, pc, locked, due, bounds>>

\* A call fails open: nothing is marked, counted or cleared.
CallFails(a, k) ==
    /\ \/ k \in calls[a] /\ Called(a, k) /\ UNCHANGED due
       \/ due[a][k] > 0 /\ due' = [due EXCEPT ![a][k] = 0] /\ UNCHANGED calls
    /\ Fault
    /\ excused' = [excused EXCEPT ![k] = @ + 1]
    /\ UNCHANGED <<stores, pc, locked, logins>>

Finish(a) ==
    /\ pc[a] \in {"count", "reset"} /\ ~Waiting(a)
    /\ Enter(a, "idle")
    /\ UNCHANGED <<stores, locked, due, excused, bounds>>

-----------------------------------------------------------------------------
(* Time.                                                                   *)

Down(n) == IF n > 0 THEN n - 1 ELSE 0

Late(k) == {a \in Attempts : due[a][k] > 0}

\* Windows and markers run out.  A marker that is still to be set when its
\* window ends is late: it will be in the next one.
Tick ==
    /\ \E k \in Keys : window[k] + marker[k] > 0
    /\ window' = [k \in Keys |-> Down(window[k])]
    /\ marker' = [k \in Keys |-> Down(marker[k])]
    /\ count' = [k \in Keys |-> IF window'[k] = 0 THEN 0 ELSE count[k]]
    /\ excused' = [k \in Keys |-> IF window[k] = 1 THEN Cardinality(Late(k)) ELSE excused[k]]
    /\ IF \E k \in Keys : window[k] = 1 /\ Late(k) # {} THEN Fault ELSE UNCHANGED faults
    /\ UNCHANGED <<attempt, logins>>

-----------------------------------------------------------------------------

Step(a) ==
    \/ Looked(a) \/ WrongPassword(a) \/ Finish(a)
    \/ \E k \in Keys : Look(a, k) \/ Hit(a, k) \/ SetMarker(a, k) \/ Clear(a, k)

Next ==
    \/ Tick
    \/ \E a \in Attempts : Begin(a) \/ RightPassword(a) \/ InactiveAccount(a) \/ Step(a)
    \/ \E a \in Attempts, k \in Keys : CallFails(a, k)

\* Calls answer and time passes; nobody has to log in.
Fairness == WF_vars(Tick) /\ \A a \in Attempts : WF_vars(Step(a))

Spec == Init /\ [][Next]_vars /\ Fairness

-----------------------------------------------------------------------------
(* The properties.                                                         *)

Under(k) == {a \in Attempts : k \in KeysOf[a]}

\* The most failures the lockout lets through in one window: those before the
\* one that locks, and one of each attempt that was past its look by then,
\* again for each login that cleared the marker and each call that failed.
FailureLimit(k) == Limit[k] - 1 + Cardinality(Under(k)) * (1 + excused[k])

\* Every variable holds a value the code can give it: a counter counts while
\* its window lasts.
TypeOK ==
    /\ count \in [Keys -> Nat]
    /\ window \in [Keys -> 0..Window] /\ marker \in [Keys -> 0..Window]
    /\ \A k \in Keys : count[k] = 0 <=> window[k] = 0
    /\ pc \in [Attempts -> {"idle", "look", "password", "count", "reset"}]
    /\ calls \in [Attempts -> SUBSET Keys] /\ \A a \in Attempts : calls[a] \subseteq KeysOf[a]
    /\ due \in [Attempts -> [Keys -> 0..Window]]
    /\ locked \subseteq Attempts
    /\ excused \in [Keys -> Nat]
    /\ logins \in 0..MaxLogins /\ faults \in 0..MaxFaults

\* "Stops targeted brute force": however logins overlap and in whatever order
\* their calls reach the two stores, no more passwords are tried in a window.
FailuresBounded == \A k \in Keys : count[k] <= FailureLimit(k)

Free(k) == marker[k] = 0

\* "For the rest of that window": nobody stays locked out.  A refused login
\* is not counted, so trying again does not prolong it.
LockoutEnds == \A k \in Keys : []<>Free(k)

=============================================================================
