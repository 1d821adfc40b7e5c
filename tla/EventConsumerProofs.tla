------------------------ MODULE EventConsumerProofs ------------------------
(* No event is lost and no two attempts share a key, for every number of   *)
(* workers, messages and keys and all times the assumption allows.         *)
EXTENDS EventConsumer, TLAPS

\* The regime in which no event is lost: an attempt that lives acks or nacks
\* in time, and a release that is called takes effect.
Timely == ~SlowWork /\ ~ReleaseFails

-----------------------------------------------------------------------------
(* The inductive invariant, by what each part is about.                    *)

\* A worker has a message exactly while it is busy, and claims only its keys.
Attempting ==
    \A w \in Workers :
        /\ pc[w] = "idle" <=> msg[w] = None
        /\ pc[w] # "idle" => mine[w] \subseteq KeysOf[msg[w]]
        /\ pc[w] \in {"idle", "claim"} => mine[w] = {}

\* A marker with a worker's token is one its attempt set.
MarkersOfAttempt ==
    \A k \in Keys, w \in Workers : owner[k] = w => k \in mine[w]

\* Done work is handled work.
DoneIsHandled ==
    \A w \in Workers : pc[w] \in {"extend", "ack"} => mine[w] \subseteq handled

\* An attempt holds each of its claims for exactly the time it has left; then
\* a marker of the key has expired.
HoldsOrLapsed ==
    \A w \in Workers : pc[w] \in {"work", "drop"} =>
        /\ pc[w] = "drop" => left[w] > 0
        /\ left[w] > 0 => \A k \in mine[w] : owner[k] = w /\ ttl[k] = left[w]
        /\ left[w] = 0 => mine[w] \subseteq lapsed

\* Before its work is done an attempt holds no handled key, but for those a
\* marker of which expired.
HeldIsFresh ==
    \A k \in Keys, w \in Workers :
        owner[k] = w /\ pc[w] \in {"work", "release", "drop"} =>
            k \notin handled \/ k \in lapsed

\* A busy worker has the current delivery of its message, out for long enough
\* that a claim it makes ends before the delivery does.
Current ==
    /\ \A m \in Messages : to[m] # None => state[m] = "out" /\ ackLeft[m] > 0
    /\ \A m \in Messages, w \in Workers : to[m] = w => msg[w] = m
    /\ \A w \in Workers : pc[w] # "idle" => to[msg[w]] = w
    /\ \A w \in Workers : pc[w] = "claim" =>
           left[w] + AckTimeout <= ackLeft[msg[w]] + ClaimDelay

\* A claim before its work is done ends with its delivery at the latest; none
\* is left when the message is nacked.
ClaimEndsFirst ==
    \A k \in Keys, w \in Workers : owner[k] = w =>
        /\ pc[w] # "nack"
        /\ pc[w] \in {"work", "release", "drop"} => ttl[k] <= ackLeft[msg[w]]

\* A delivery of a killed worker that lasts as long as its marker of k.
Outlasts(m, k) ==
    k \in KeysOf[m] /\ state[m] = "out" /\ to[m] = None /\ ttl[k] <= ackLeft[m]

\* A marker nobody has the token of is that of a handled key, or of a killed
\* worker whose delivery outlasts it.
OrphanEndsFirst ==
    \A k \in Keys :
        owner[k] = Past => k \in handled \/ \E m \in Messages : Outlasts(m, k)

\* The message will be handled for k again, or is being handled for it.
Carries(m, k) ==
    /\ k \in KeysOf[m]
    /\ \/ state[m] \in {"queued", "dead"}
       \/ state[m] = "out" /\ to[m] = None
       \/ /\ state[m] = "out" /\ to[m] \in Workers
          /\ \/ pc[to[m]] \in {"claim", "release", "drop", "nack"}
             \/ k \in mine[to[m]]

\* An event that was not handled has a message that carries it.
Carried ==
    \A k \in Keys :
        (\E m \in Messages : k \in KeysOf[m] /\ state[m] # "unsent") =>
            k \in handled \/ \E m \in Messages : Carries(m, k)

Base == TypeOK /\ Attempting /\ MarkersOfAttempt /\ DoneIsHandled
Marked == ~LateDrop => HoldsOrLapsed /\ HeldIsFresh /\ HandledStaysMarked
Kept == Timely => Current /\ ClaimEndsFirst /\ OrphanEndsFirst /\ Carried

-----------------------------------------------------------------------------

LEMMA InitBase == Init => Base
BY TimesAssumption, NamesAssumption
   DEF TimesAssumption, NamesAssumption, Init, Base, TypeOK, Calls, Attempting,
       MarkersOfAttempt, DoneIsHandled

\* The end of an attempt keeps what Base says of markers and workers.
LEMMA EndKeepsBase ==
    ASSUME Base, NEW w \in Workers, AttemptEnds(w), UNCHANGED <<ttl, ghosts>>
    PROVE  /\ owner' \in [Keys -> Workers \cup {None, Past}]
           /\ \A k \in Keys : owner'[k] = None <=> ttl'[k] = 0
           /\ pc' \in [Workers -> Calls]
           /\ msg' \in [Workers -> Messages \cup {None}]
           /\ mine' \in [Workers -> SUBSET Keys]
           /\ left' \in [Workers -> Nat]
           /\ Attempting' /\ MarkersOfAttempt' /\ DoneIsHandled'
<1> USE NamesAssumption
    DEF NamesAssumption, Base, TypeOK, Calls, AttemptEnds, ghosts
<1>1. /\ owner' \in [Keys -> Workers \cup {None, Past}]
      /\ \A k \in Keys : owner'[k] = None <=> ttl'[k] = 0
      /\ \A k \in Keys, v \in Workers : owner'[k] = v => owner[k] = v /\ v # w
  <2>1. \A k \in Keys : owner'[k] = IF owner[k] = w THEN Past ELSE owner[k]
    OBVIOUS
  <2>2. owner' \in [Keys -> Workers \cup {None, Past}]
    OBVIOUS
  <2>3. Past # None /\ w # None /\ Past \notin Workers /\ ttl' = ttl
    BY DEF None, Past
  <2>4. \A k \in Keys : owner[k] = None <=> ttl[k] = 0
    OBVIOUS
  <2> HIDE NamesAssumption DEF NamesAssumption, Base, TypeOK, AttemptEnds
  <2> QED
    BY <2>1, <2>2, <2>3, <2>4
<1>2. /\ pc' \in [Workers -> Calls]
      /\ msg' \in [Workers -> Messages \cup {None}]
      /\ mine' \in [Workers -> SUBSET Keys]
      /\ left' \in [Workers -> Nat]
  OBVIOUS
<1>3. /\ pc'[w] = "idle" /\ msg'[w] = None /\ mine'[w] = {}
      /\ \A v \in Workers \ {w} :
             pc'[v] = pc[v] /\ msg'[v] = msg[v] /\ mine'[v] = mine[v]
  OBVIOUS
<1>4. Attempting'
  BY <1>3 DEF Attempting
<1>5. MarkersOfAttempt'
  BY <1>1, <1>3 DEF MarkersOfAttempt
<1>6. DoneIsHandled'
  BY <1>3 DEF DoneIsHandled
<1> QED
  BY <1>1, <1>2, <1>4, <1>5, <1>6

\* A redelivery keeps the types of the broker.
LEMMA RedeliverTypes ==
    ASSUME TypeOK, NEW m \in Messages, Redeliver(m)
    PROVE  /\ state' \in [Messages -> {"unsent", "queued", "out", "acked", "dead"}]
           /\ to' \in [Messages -> Workers \cup {None}]
           /\ ackLeft' \in [Messages -> 0..AckTimeout]
           /\ tries' \in [Messages -> 0..MaxRedeliveries]
BY TimesAssumption DEF TimesAssumption, TypeOK, Redeliver

LEMMA StepBase == Base /\ [Next]_vars => Base'
<1> SUFFICES ASSUME Base, [Next]_vars PROVE Base'
  OBVIOUS
<1> USE TimesAssumption, KeysAssumption, NamesAssumption
    DEF TimesAssumption, KeysAssumption, NamesAssumption, Base, TypeOK, Calls,
        Attempting, MarkersOfAttempt, DoneIsHandled, markers, workers, ghosts,
        broker, Go
<1>1. CASE Tick
  BY <1>1 DEF Tick, Down
<1>2. ASSUME NEW m \in Messages, Publish(m) PROVE Base'
  BY <1>2 DEF Publish
<1>3. ASSUME NEW m \in Messages, AckRunsOut(m) PROVE Base'
  BY <1>3 DEF AckRunsOut, Redeliver
<1>4. ASSUME NEW w \in Workers, NEW m \in Messages, Deliver(w, m) PROVE Base'
  BY <1>4 DEF Deliver
<1>5. ASSUME NEW w \in Workers, Claim(w) PROVE Base'
  BY <1>5 DEF Claim, SetMarkers, Free
<1>6. ASSUME NEW w \in Workers, ClaimFails(w) PROVE Base'
  BY <1>6 DEF ClaimFails, SetMarkers, Free
<1>7. ASSUME NEW w \in Workers, WorkDone(w) PROVE Base'
  BY <1>7 DEF WorkDone
<1>8. ASSUME NEW w \in Workers, WorkFails(w) PROVE Base'
  BY <1>8 DEF WorkFails
<1>9. ASSUME NEW w \in Workers, Extend(w) PROVE Base'
  BY <1>9 DEF Extend, Owned
<1>10. ASSUME NEW w \in Workers, Release(w) PROVE Base'
  BY <1>10 DEF Release, Owned, DeleteMarkers
<1>11. ASSUME NEW w \in Workers, Drop(w) PROVE Base'
  BY <1>11 DEF Drop, DeleteMarkers
<1>12. ASSUME NEW w \in Workers, Ack(w) PROVE Base'
  <2>1. AttemptEnds(w) /\ UNCHANGED <<ttl, ghosts>>
    BY <1>12 DEF Ack
  <2>2. /\ state' \in [Messages -> {"unsent", "queued", "out", "acked", "dead"}]
        /\ to' \in [Messages -> Workers \cup {None}]
    BY <1>12 DEF Ack, LetGo
  <2> QED
    BY <1>12, <2>1, <2>2, EndKeepsBase DEF Ack
<1>13. ASSUME NEW w \in Workers, Nack(w) PROVE Base'
  <2>1. AttemptEnds(w) /\ UNCHANGED <<ttl, ghosts>>
    BY <1>13 DEF Nack
  <2>2. msg[w] \in Messages
    BY <1>13 DEF Nack
  <2>3. Redeliver(msg[w]) \/ UNCHANGED broker
    BY <1>13 DEF Nack
  <2>4. /\ state' \in [Messages -> {"unsent", "queued", "out", "acked", "dead"}]
        /\ to' \in [Messages -> Workers \cup {None}]
        /\ ackLeft' \in [Messages -> 0..AckTimeout]
        /\ tries' \in [Messages -> 0..MaxRedeliveries]
    BY <2>2, <2>3, RedeliverTypes
  <2> QED
    BY <2>1, <2>4, EndKeepsBase
<1>14. ASSUME NEW w \in Workers, Crash(w) PROVE Base'
  <2>1. AttemptEnds(w) /\ UNCHANGED <<ttl, ghosts>>
    BY <1>14 DEF Crash
  <2>2. to' \in [Messages -> Workers \cup {None}]
    BY <1>14 DEF Crash, LetGo
  <2> QED
    BY <1>14, <2>1, <2>2, EndKeepsBase DEF Crash
<1>15. CASE UNCHANGED vars
  BY <1>15 DEF vars
<1> QED
  BY <1>1, <1>2, <1>3, <1>4, <1>5, <1>6, <1>7, <1>8, <1>9, <1>10, <1>11,
     <1>12, <1>13, <1>14, <1>15 DEF Next, Attempt

LEMMA BaseInvariant == Spec => []Base
BY InitBase, StepBase, PTL DEF Spec

\* Every variable of the consumer model keeps its type.
THEOREM TypeCorrect == Spec => []TypeOK
<1>1. Base => TypeOK
  BY DEF Base
<1> QED
  BY <1>1, BaseInvariant, PTL

-----------------------------------------------------------------------------
(* Keys and markers.                                                       *)

LEMMA InitMarked == Init => Marked
BY DEF Init, Marked, HoldsOrLapsed, HeldIsFresh, HandledStaysMarked

LEMMA StepMarked == Base /\ Base' /\ Marked /\ [Next]_vars => Marked'
<1> SUFFICES ASSUME Base, Base', HoldsOrLapsed, HeldIsFresh, HandledStaysMarked,
                    ~LateDrop, [Next]_vars
             PROVE  HoldsOrLapsed' /\ HeldIsFresh' /\ HandledStaysMarked'
  BY DEF Marked
<1> USE TimesAssumption, NamesAssumption
    DEF TimesAssumption, NamesAssumption, Base, TypeOK, MarkersOfAttempt,
        HoldsOrLapsed, HeldIsFresh, HandledStaysMarked, markers, workers,
        ghosts, broker, Go
<1>1. CASE Tick
  BY <1>1 DEF Tick, Down, Punctual
<1>2. ASSUME NEW m \in Messages, Publish(m) \/ AckRunsOut(m)
      PROVE  UNCHANGED <<markers, workers, ghosts>>
  BY <1>2 DEF Publish, AckRunsOut
<1>3. ASSUME NEW w \in Workers, NEW m \in Messages, Deliver(w, m)
      PROVE  HoldsOrLapsed' /\ HeldIsFresh' /\ HandledStaysMarked'
  BY <1>3 DEF Deliver
<1>4. ASSUME NEW w \in Workers, Claim(w) \/ ClaimFails(w)
      PROVE  HoldsOrLapsed' /\ HeldIsFresh' /\ HandledStaysMarked'
  BY <1>4 DEF Claim, ClaimFails, SetMarkers, Free
<1>5. ASSUME NEW w \in Workers, WorkDone(w)
      PROVE  HoldsOrLapsed' /\ HeldIsFresh' /\ HandledStaysMarked'
  BY <1>5 DEF WorkDone
<1>6. ASSUME NEW w \in Workers, WorkFails(w)
      PROVE  HoldsOrLapsed' /\ HeldIsFresh' /\ HandledStaysMarked'
  BY <1>6 DEF WorkFails
<1>7. ASSUME NEW w \in Workers, Extend(w)
      PROVE  HoldsOrLapsed' /\ HeldIsFresh' /\ HandledStaysMarked'
  BY <1>7 DEF Extend, Owned
<1>8. ASSUME NEW w \in Workers, Release(w)
      PROVE  HoldsOrLapsed' /\ HeldIsFresh' /\ HandledStaysMarked'
  BY <1>8 DEF Release, Owned, DeleteMarkers
<1>9. ASSUME NEW w \in Workers, Drop(w)
      PROVE  HoldsOrLapsed' /\ HeldIsFresh' /\ HandledStaysMarked'
  BY <1>9 DEF Drop, DeleteMarkers
<1>10. ASSUME NEW w \in Workers, Ack(w) \/ Nack(w) \/ Crash(w)
       PROVE  HoldsOrLapsed' /\ HeldIsFresh' /\ HandledStaysMarked'
  <2>1. AttemptEnds(w) /\ UNCHANGED <<ttl, ghosts>>
    BY <1>10 DEF Ack, Nack, Crash
  <2> QED
    BY <2>1 DEF AttemptEnds, None, Past
<1>11. CASE UNCHANGED <<markers, workers, ghosts>>
  BY <1>11
<1>12. CASE UNCHANGED vars
  BY <1>12 DEF vars
<1> QED
  BY <1>1, <1>2, <1>3, <1>4, <1>5, <1>6, <1>7, <1>8, <1>9, <1>10, <1>11,
     <1>12 DEF Next, Attempt

LEMMA MarkedInvariant == Spec => []Marked
BY InitMarked, StepMarked, BaseInvariant, PTL DEF Spec

\* Two attempts work on one key only when one of them has outlived its claim,
\* as long as the DEL of a failed claim is not late.
THEOREM WorkIsExclusive == Spec => [](~LateDrop => NoConcurrentWork)
<1>1. Base /\ Marked => (~LateDrop => NoConcurrentWork)
  BY DEF Base, TypeOK, Marked, HoldsOrLapsed, NoConcurrentWork
<1> QED
  BY <1>1, BaseInvariant, MarkedInvariant, PTL

\* The marker of a handled key goes only by expiring, under the same
\* condition.
THEOREM HandledIsMarked == Spec => [](~LateDrop => HandledStaysMarked)
<1>1. Marked => (~LateDrop => HandledStaysMarked)
  BY DEF Marked
<1> QED
  BY <1>1, MarkedInvariant, PTL

-----------------------------------------------------------------------------
(* Events.                                                                 *)

LEMMA InitKept == Init => Kept
BY NamesAssumption
   DEF NamesAssumption, Init, Kept, Current, ClaimEndsFirst, OrphanEndsFirst,
       Carried, None, Past

LEMMA StepCurrent ==
    ASSUME Base, Base', Current, Timely, [Next]_vars
    PROVE  Current'
<1> USE TimesAssumption, NamesAssumption
    DEF TimesAssumption, NamesAssumption, Base, TypeOK, Attempting, Current,
        markers, workers, ghosts, broker, Go
<1>1. CASE Tick
  BY <1>1 DEF Tick, Down, Punctual, Timely
<1>2. ASSUME NEW m \in Messages, Publish(m) PROVE Current'
  BY <1>2 DEF Publish
<1>3. ASSUME NEW m \in Messages, AckRunsOut(m) PROVE Current'
  BY <1>3 DEF AckRunsOut, Redeliver
<1>4. ASSUME NEW w \in Workers, NEW m \in Messages, Deliver(w, m)
      PROVE  Current'
  BY <1>4 DEF Deliver
<1>5. ASSUME NEW w \in Workers,
             \/ Claim(w) \/ ClaimFails(w) \/ WorkDone(w) \/ WorkFails(w)
             \/ Extend(w) \/ Release(w) \/ Drop(w)
      PROVE  Current'
  BY <1>5 DEF Claim, ClaimFails, WorkDone, WorkFails, Extend, Release, Drop,
              SetMarkers
<1>6. ASSUME NEW w \in Workers, Ack(w) PROVE Current'
  BY <1>6 DEF Ack, LetGo, AttemptEnds
<1>7. ASSUME NEW w \in Workers, Nack(w) PROVE Current'
  BY <1>7 DEF Nack, Redeliver, AttemptEnds
<1>8. ASSUME NEW w \in Workers, Crash(w) PROVE Current'
  BY <1>8 DEF Crash, LetGo, AttemptEnds
<1>9. CASE UNCHANGED vars
  BY <1>9 DEF vars
<1> QED
  BY <1>1, <1>2, <1>3, <1>4, <1>5, <1>6, <1>7, <1>8, <1>9 DEF Next, Attempt

LEMMA StepClaimEndsFirst ==
    ASSUME Base, Base', Current, ClaimEndsFirst, Timely, [Next]_vars
    PROVE  ClaimEndsFirst'
<1> USE TimesAssumption, NamesAssumption
    DEF TimesAssumption, NamesAssumption, Base, TypeOK, Attempting,
        MarkersOfAttempt, Current, ClaimEndsFirst, markers, workers, ghosts,
        broker, Go
<1>1. CASE Tick
  BY <1>1 DEF Tick, Down
<1>2. ASSUME NEW m \in Messages, Publish(m) PROVE ClaimEndsFirst'
  BY <1>2 DEF Publish
<1>3. ASSUME NEW m \in Messages, AckRunsOut(m) PROVE ClaimEndsFirst'
  BY <1>3 DEF AckRunsOut, Redeliver
<1>4. ASSUME NEW w \in Workers, NEW m \in Messages, Deliver(w, m)
      PROVE  ClaimEndsFirst'
  BY <1>4 DEF Deliver
<1>5. ASSUME NEW w \in Workers, Claim(w) \/ ClaimFails(w)
      PROVE  ClaimEndsFirst'
  BY <1>5 DEF Claim, ClaimFails, SetMarkers
<1>6. ASSUME NEW w \in Workers, WorkDone(w) \/ WorkFails(w)
      PROVE  ClaimEndsFirst'
  BY <1>6 DEF WorkDone, WorkFails
<1>7. ASSUME NEW w \in Workers, Extend(w) PROVE ClaimEndsFirst'
  BY <1>7 DEF Extend, Owned
<1>8. ASSUME NEW w \in Workers, Release(w) PROVE ClaimEndsFirst'
  BY <1>8 DEF Release, Owned, DeleteMarkers, Timely
<1>9. ASSUME NEW w \in Workers, Drop(w) PROVE ClaimEndsFirst'
  BY <1>9 DEF Drop, DeleteMarkers, Timely
<1>10. ASSUME NEW w \in Workers, Ack(w) \/ Nack(w) \/ Crash(w)
       PROVE  ClaimEndsFirst'
  <2>1. AttemptEnds(w) /\ ttl' = ttl
    BY <1>10 DEF Ack, Nack, Crash
  <2>2. \A v \in Workers : v # w /\ pc[v] # "idle" =>
            msg[v] # msg[w] \/ pc[w] = "idle"
    OBVIOUS
  <2>3. \A v \in Workers : v # w /\ pc[v] # "idle" =>
            ackLeft'[msg[v]] = ackLeft[msg[v]]
    BY <1>10, <2>2 DEF Ack, Nack, Crash, Redeliver
  <2> QED
    BY <2>1, <2>3 DEF AttemptEnds
<1>11. CASE UNCHANGED vars
  BY <1>11 DEF vars
<1> QED
  BY <1>1, <1>2, <1>3, <1>4, <1>5, <1>6, <1>7, <1>8, <1>9, <1>10, <1>11
     DEF Next, Attempt

LEMMA StepOrphan ==
    ASSUME Base, Base', Current, ClaimEndsFirst, OrphanEndsFirst, Timely,
           [Next]_vars
    PROVE  OrphanEndsFirst'
<1> SUFFICES ASSUME NEW k \in Keys, owner'[k] = Past, k \notin handled'
             PROVE  \E m \in Messages : Outlasts(m, k)'
  BY DEF OrphanEndsFirst
<1> USE TimesAssumption, NamesAssumption
    DEF TimesAssumption, NamesAssumption, Base, TypeOK, None, Past, Outlasts,
        markers, workers, ghosts, broker
<1>1. ASSUME owner[k] = Past, ttl'[k] = ttl[k], k \notin handled,
             \A m \in Messages : Outlasts(m, k) =>
                 state'[m] = "out" /\ to'[m] = None /\ ackLeft'[m] = ackLeft[m]
      PROVE  \E m \in Messages : Outlasts(m, k)'
  BY <1>1 DEF OrphanEndsFirst
<1>2. CASE Tick
  <2>1. owner[k] = Past /\ k \notin handled /\ ttl'[k] = ttl[k] - 1
    BY <1>2 DEF Tick, Down
  <2>2. PICK m \in Messages : Outlasts(m, k)
    BY <2>1 DEF OrphanEndsFirst
  <2>3. Outlasts(m, k)'
    BY <1>2, <2>1, <2>2 DEF Tick, Down
  <2> QED
    BY <2>3
<1>3. ASSUME NEW m \in Messages, Publish(m) \/ AckRunsOut(m)
      PROVE  \E n \in Messages : Outlasts(n, k)'
  BY <1>1, <1>3 DEF Publish, AckRunsOut, Redeliver
<1>4. ASSUME NEW w \in Workers, NEW m \in Messages, Deliver(w, m)
      PROVE  \E n \in Messages : Outlasts(n, k)'
  BY <1>1, <1>4 DEF Deliver
<1>5. ASSUME NEW w \in Workers,
             \/ Claim(w) \/ ClaimFails(w) \/ WorkDone(w) \/ WorkFails(w)
             \/ Extend(w) \/ Release(w) \/ Drop(w)
      PROVE  \E n \in Messages : Outlasts(n, k)'
  <2>1. owner[k] = Past /\ k \notin handled /\ UNCHANGED broker
    BY <1>5 DEF Claim, ClaimFails, WorkDone, WorkFails, Extend, Release, Drop,
                SetMarkers, DeleteMarkers
  <2>2. ttl'[k] = ttl[k]
    BY <1>5, <2>1 DEF Claim, ClaimFails, WorkDone, WorkFails, Extend, Release,
                      Drop, SetMarkers, DeleteMarkers, Free, Owned
  <2> QED
    BY <1>1, <2>1, <2>2
<1>6. ASSUME NEW w \in Workers, Ack(w) \/ Nack(w) \/ Crash(w)
      PROVE  \E n \in Messages : Outlasts(n, k)'
  <2>1. /\ pc[w] # "idle" /\ k \notin handled /\ ttl'[k] = ttl[k]
        /\ owner[k] = Past \/ owner[k] = w
    BY <1>6 DEF Ack, Nack, Crash, AttemptEnds
  <2>2. msg[w] \in Messages /\ to[msg[w]] = w /\ state[msg[w]] = "out"
    BY <2>1 DEF Attempting, Current
  <2>3. CASE owner[k] = Past
    <3>1. \A m \in Messages : to[m] = None /\ state[m] = "out" =>
              /\ state'[m] = "out" /\ to'[m] = None
              /\ ackLeft'[m] = ackLeft[m]
      BY <1>6, <2>2 DEF Ack, Nack, Crash, LetGo, Redeliver
    <3> QED
      BY <1>1, <2>1, <2>3, <3>1
  <2>4. CASE owner[k] = w
    <3>1. k \in mine[w] /\ pc[w] \in {"work", "release", "drop"}
      BY <2>1, <2>4
         DEF MarkersOfAttempt, Attempting, ClaimEndsFirst, DoneIsHandled, Calls
    <3>2. /\ ttl[k] <= ackLeft[msg[w]] /\ k \in KeysOf[msg[w]]
      BY <2>4, <3>1 DEF ClaimEndsFirst, Attempting
    <3>3. Crash(w)
      BY <1>6, <3>1 DEF Ack, Nack
    <3>4. PICK m \in Messages : m = msg[w]
      BY <2>2
    <3>5. Outlasts(m, k)'
      BY <2>1, <2>2, <3>2, <3>3, <3>4 DEF Crash, LetGo
    <3> QED
      BY <3>5
  <2> QED
    BY <2>1, <2>3, <2>4
<1>7. CASE UNCHANGED vars
  BY <1>1, <1>7 DEF vars
<1> QED
  BY <1>2, <1>3, <1>4, <1>5, <1>6, <1>7 DEF Next, Attempt

LEMMA StepCarried ==
    ASSUME Base, Base', Current, OrphanEndsFirst, Carried, Timely, [Next]_vars
    PROVE  Carried'
<1> SUFFICES ASSUME NEW k \in Keys, k \notin handled',
                    NEW p \in Messages, k \in KeysOf[p], state'[p] # "unsent"
             PROVE  \E m \in Messages : Carries(m, k)'
  BY DEF Carried
<1> USE TimesAssumption, NamesAssumption
    DEF TimesAssumption, NamesAssumption, Base, TypeOK, None, Carries, markers,
        workers, ghosts, broker, Go
<1>1. CASE UNCHANGED <<state, to, pc, mine>> /\ handled \subseteq handled'
  BY <1>1 DEF Carried
<1>2. ASSUME NEW q \in Messages, Publish(q)
      PROVE  \E m \in Messages : Carries(m, k)'
  <2>1. CASE k \in KeysOf[q]
    BY <1>2, <2>1 DEF Publish
  <2>2. CASE k \notin KeysOf[q]
    <3>1. PICK m \in Messages : Carries(m, k)
      BY <1>2, <2>2 DEF Publish, Carried
    <3>2. Carries(m, k)'
      BY <1>2, <2>2, <3>1 DEF Publish
    <3> QED
      BY <3>2
  <2> QED
    BY <2>1, <2>2
<1>3. ASSUME k \notin handled, state[p] # "unsent"
      PROVE  \E m \in Messages : Carries(m, k)
  BY <1>3 DEF Carried
<1>4. ASSUME NEW q \in Messages, AckRunsOut(q)
      PROVE  \E m \in Messages : Carries(m, k)'
  <2>1. PICK m \in Messages : Carries(m, k)
    BY <1>3, <1>4 DEF AckRunsOut, Redeliver
  <2>2. Carries(m, k)'
    BY <1>4, <2>1 DEF AckRunsOut, Redeliver
  <2> QED
    BY <2>2
<1>5. ASSUME NEW w \in Workers, NEW q \in Messages, Deliver(w, q)
      PROVE  \E m \in Messages : Carries(m, k)'
  <2>1. PICK m \in Messages : Carries(m, k)
    BY <1>3, <1>5 DEF Deliver
  <2>2. Carries(m, k)'
    BY <1>5, <2>1 DEF Deliver, Attempting, Current
  <2> QED
    BY <2>2
<1>6. ASSUME NEW w \in Workers, Claim(w)
      PROVE  \E m \in Messages : Carries(m, k)'
  <2>1. k \notin handled /\ state[p] # "unsent" /\ pc[w] = "claim"
    BY <1>6 DEF Claim
  <2>2. PICK m \in Messages : Carries(m, k)
    BY <1>3, <2>1
  <2>3. CASE to[m] # w
    <3>1. Carries(m, k)'
      BY <1>6, <2>2, <2>3 DEF Claim, SetMarkers
    <3> QED
      BY <3>1
  <2>4. CASE to[m] = w /\ owner[k] = None
    <3>1. state[m] = "out" /\ k \in KeysOf[m] /\ msg[w] = m
      BY <2>4 , <2>2 DEF Current
    <3>2. Carries(m, k)'
      BY <1>6, <2>4, <3>1 DEF Claim, SetMarkers, Free
    <3> QED
      BY <3>2
  <2>5. CASE owner[k] = Past
    <3>1. PICK n \in Messages : Outlasts(n, k)
      BY <2>1, <2>5 DEF OrphanEndsFirst
    <3>2. Carries(n, k)'
      BY <1>6, <3>1 DEF Claim, Outlasts
    <3> QED
      BY <3>2
  <2>6. ASSUME NEW v \in Workers, owner[k] = v
        PROVE  \E n \in Messages : Carries(n, k)'
    <3>1. k \in mine[v] /\ pc[v] # "idle" /\ v # w
      BY <2>1, <2>6 DEF MarkersOfAttempt, Attempting
    <3>2. PICK n \in Messages : n = msg[v]
      BY <3>1 DEF Attempting
    <3>3. to[n] = v /\ state[n] = "out" /\ k \in KeysOf[n]
      BY <3>1, <3>2 DEF Current, Attempting
    <3>4. Carries(n, k)'
      BY <1>6, <3>1, <3>3 DEF Claim, SetMarkers
    <3> QED
      BY <3>4
  <2> QED
    BY <2>3, <2>4, <2>5, <2>6
<1>7. ASSUME NEW w \in Workers,
             \/ ClaimFails(w) \/ WorkDone(w) \/ WorkFails(w)
             \/ Extend(w) \/ Release(w) \/ Drop(w)
      PROVE  \E m \in Messages : Carries(m, k)'
  <2>1. k \notin handled /\ state[p] # "unsent"
    BY <1>7 DEF ClaimFails, WorkDone, WorkFails, Extend, Release, Drop
  <2>2. PICK m \in Messages : Carries(m, k)
    BY <1>3, <2>1
  <2>3. UNCHANGED <<state, to>>
    BY <1>7 DEF ClaimFails, WorkDone, WorkFails, Extend, Release, Drop
  <2>4. /\ pc'[w] \in {"extend", "ack"} => UNCHANGED mine /\ k \notin mine[w]
                                           /\ pc[w] \in {"work", "extend"}
        /\ \A v \in Workers \ {w} : pc'[v] = pc[v] /\ mine'[v] = mine[v]
        /\ pc'[w] \in {"extend", "ack", "release", "drop", "nack"}
    BY <1>7, <2>1
       DEF ClaimFails, SetMarkers, WorkDone, WorkFails, Extend, Release, Drop,
           DoneIsHandled
  <2>5. Carries(m, k)'
    BY <2>2, <2>3, <2>4
  <2> QED
    BY <2>5
<1>8. ASSUME NEW w \in Workers, Ack(w) \/ Nack(w) \/ Crash(w)
      PROVE  \E m \in Messages : Carries(m, k)'
  <2>1. /\ pc[w] # "idle" /\ k \notin handled
        /\ \A v \in Workers \ {w} : pc'[v] = pc[v] /\ mine'[v] = mine[v]
    BY <1>8 DEF Ack, Nack, Crash, AttemptEnds
  <2>2. msg[w] \in Messages /\ to[msg[w]] = w /\ state[msg[w]] = "out"
    BY <2>1 DEF Attempting, Current
  <2>3. state[p] # "unsent"
    BY <1>8, <2>2 DEF Ack, Nack, Crash, Redeliver
  <2>4. PICK m \in Messages : Carries(m, k)
    BY <1>3, <2>1, <2>3
  <2>5. CASE to[m] # w
    <3>1. m # msg[w]
      BY <2>2, <2>5
    <3>2. state'[m] = state[m] /\ to'[m] = to[m]
      BY <1>8, <2>2, <2>5, <3>1 DEF Ack, Nack, Crash, LetGo, Redeliver
    <3>3. Carries(m, k)'
      BY <2>1, <2>4, <2>5, <3>2
    <3> QED
      BY <3>3
  <2>6. CASE to[m] = w
    <3>1. msg[w] = m /\ k \in KeysOf[m] /\ ~Ack(w)
      BY <2>1, <2>2, <2>4, <2>6 DEF Current, DoneIsHandled, Ack
    <3>2. Carries(m, k)'
      BY <1>8, <2>2, <2>6, <3>1 DEF Nack, Crash, LetGo, Redeliver
    <3> QED
      BY <3>2
  <2> QED
    BY <2>5, <2>6
<1>9. Tick \/ UNCHANGED vars => UNCHANGED <<state, to, pc, mine, handled>>
  BY DEF Tick, vars
<1> QED
  BY <1>1, <1>2, <1>4, <1>5, <1>6, <1>7, <1>8, <1>9 DEF Next, Attempt

LEMMA StepKept == Base /\ Base' /\ Kept /\ [Next]_vars => Kept'
<1> SUFFICES ASSUME Base, Base', [Next]_vars, Timely,
                    Current, ClaimEndsFirst, OrphanEndsFirst, Carried
             PROVE  Current' /\ ClaimEndsFirst' /\ OrphanEndsFirst' /\ Carried'
  BY DEF Kept, Timely
<1> QED
  BY StepCurrent, StepClaimEndsFirst, StepOrphan, StepCarried

LEMMA KeptInvariant == Spec => []Kept
BY InitKept, StepKept, BaseInvariant, PTL DEF Spec

\* No event is lost: one that was published and not handled is still in the
\* queue, with a worker or dead-lettered, whoever fails or stops, as long as
\* live attempts answer in time and releases take effect.
THEOREM NothingLost == Spec => [](Timely => NoEventLost)
<1>1. Base /\ Kept => (Timely => NoEventLost)
  BY DEF Base, TypeOK, Kept, Carried, Carries, NoEventLost
<1> QED
  BY <1>1, BaseInvariant, KeptInvariant, PTL

=============================================================================
