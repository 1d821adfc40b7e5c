------------------------ MODULE KafkaConsumerProofs ------------------------
(* The Kafka adapter's group passes a record only when it was settled, or  *)
(* under a claim that outlived its holder's session, and then by no more   *)
(* than the times allow; and it works through its partition in order.  For *)
(* every number of members, records, redeliveries and failures, and for    *)
(* all times.                                                              *)
EXTENDS KafkaConsumer, TLAPS

Assumptions == KafkaAssumption /\ MembersAssumption

-----------------------------------------------------------------------------
(* The inductive invariant.                                                *)

\* Where a member is, and the record it handles.
AtRecord(m) ==
    /\ pc[m] \in Handling \cup {"wait"} => next[m] < end
    /\ pc[m] = "wait" => attempt[m] < MaxRedeliveries
    /\ pc[m] = "claim" => owner = m /\ ClaimTTL <= session[m] + Overhang
    /\ pc[m] = "extend" => next[m] \in handled

\* A claim that is held is that of a member at work on its record, or of one
\* that was killed.  Until the group drops its holder, the partition is the
\* holder's and the claim over at most an overhang after the holder's session.
ClaimEnds(r) ==
    \/ ttl[r] <= Overhang
    \/ /\ owner # None /\ ttl[r] <= session[owner] + Overhang
       /\ \/ claim[r] = owner
          \/ claim[r] = "past" /\ pc[owner] = "off"

ClaimIsHeld(r) ==
    /\ claim[r] \in Members =>
         next[claim[r]] = r /\ pc[claim[r]] \in {"work", "extend", "release"}
    /\ Held(r) => ClaimEnds(r)
    /\ claim[r] = "seen" => r \in handled

\* Nobody joins before the group is pinned, and nobody who joined leaves while
\* another still pins.
PinnedFirst ==
    /\ \A m \in closing : pc[m] \in Handling \cup {"poll", "wait", "join"}
    /\ committed = Unpinned =>
         /\ \A m \in Members : pc[m] \in {"off", "ends", "pin"}
         /\ group = {} /\ from = MaxRecords
    /\ (\E m \in Members : Pinning(m)) =>
         /\ closing = {}
         /\ \A g \in group : session[g] > 0
         /\ group = {} => from = MaxRecords

\* A member stands behind settled records only.
BehindIsSettled(m) == \A r \in from..(next[m] - 1) : Settled(r)

KInv ==
    /\ TypeOK
    /\ \A m \in Members : AtRecord(m) /\ BehindIsSettled(m)
    /\ \A r \in Records : ClaimIsHeld(r)
    /\ PinnedFirst
    /\ PassedAreSettled
    /\ presumed # {} => Overhang > 0

-----------------------------------------------------------------------------
(* One lemma per part of it, one step per action.                          *)

\* The types of what the end of a record's handling changes.
LEMMA ResolveTypes ==
    ASSUME KafkaAssumption, TypeOK, NEW m \in Members, next[m] < end, Resolve(m)
    PROVE  /\ committed' \in Unpinned..end /\ next' \in [Members -> 0..end]
           /\ session' \in [Members -> 0..SessionTimeout] /\ pc' \in [Members -> Calls]
           /\ attempt' \in [Members -> 0..MaxRedeliveries]
BY DEF KafkaAssumption, TypeOK, Resolve, Calls, Unpinned, Go

LEMMA RethrowTypes ==
    ASSUME KafkaAssumption, TypeOK, NEW m \in Members, committed # Unpinned, Rethrow(m)
    PROVE  /\ next' \in [Members -> 0..end] /\ pc' \in [Members -> Calls]
           /\ attempt' \in [Members -> 0..MaxRedeliveries]
BY DEF KafkaAssumption, TypeOK, Rethrow, Calls, Unpinned, Go

\* A claim that starts, ends or is marked, with its time.
ClaimSet(m, c, t) ==
    /\ claim' = [claim EXCEPT ![next[m]] = c]
    /\ ttl' = [ttl EXCEPT ![next[m]] = t]

LEMMA ClaimSetTypes ==
    ASSUME KafkaAssumption, TypeOK, NEW m \in Members, next[m] < end,
           NEW c \in Members \cup {None, "seen", "past"}, NEW t \in 0..ClaimTTL,
           t > 0 <=> c \in Members \cup {"past"}, ClaimSet(m, c, t)
    PROVE  /\ claim' \in [Records -> Members \cup {None, "seen", "past"}]
           /\ ttl' \in [Records -> 0..ClaimTTL]
           /\ \A r \in Records : ttl'[r] > 0 <=> claim'[r] \in Members \cup {"past"}
<1>1. next[m] \in Records
  BY DEF KafkaAssumption, TypeOK, Records
<1> QED
  BY <1>1 DEF TypeOK, ClaimSet

LEMMA StepKeepsTypes ==
    ASSUME Assumptions, KInv, Next PROVE TypeOK'
<1> USE DEF Assumptions, KafkaAssumption, TypeOK, Calls, Handling, Unpinned, topic,
            coordinator, member, claims, results, Go
<1>0. TypeOK
  BY DEF KInv
<1>1. CASE Publish
  BY <1>0, <1>1 DEF Publish
<1>2. CASE Tick
  <2>1. faults' \in 0..MaxFaults
    BY <1>0, <1>2 DEF Tick, Fault
  <2>2. session' \in [Members -> 0..SessionTimeout]
    BY <1>0, <1>2 DEF Tick, Down
  <2>3. ttl' \in [Records -> 0..ClaimTTL]
    BY <1>0, <1>2 DEF Tick, Down
  <2>4. claim' \in [Records -> Members \cup {None, "seen", "past"}]
    BY <1>0, <1>2 DEF Tick
  <2>5. \A r \in Records : ttl'[r] > 0 <=> claim'[r] \in Members \cup {"past"}
    BY <1>0, <1>2 DEF Tick, Down, MembersAssumption, None
  <2> QED
    BY <1>0, <1>2, <2>1, <2>2, <2>3, <2>4, <2>5 DEF Tick
<1> SUFFICES ASSUME NEW m \in Members,
                    \/ FetchOffsets(m) \/ Step(m) \/ Close(m)
                    \/ Crash(m) \/ Assign(m) \/ Evict(m)
             PROVE  TypeOK'
  BY <1>1, <1>2 DEF Next
<1>a. /\ pc[m] \in Handling => next[m] \in Records /\ next[m] < end
      /\ pc[m] = "wait" => next[m] < end /\ attempt[m] < MaxRedeliveries
      /\ pc[m] = "extend" => next[m] \in handled
      /\ pc[m] \notin {"off", "ends", "pin"} => committed # Unpinned
      /\ group # {} => committed # Unpinned
  BY <1>0 DEF KInv, AtRecord, PinnedFirst, Records
<1>3. CASE FetchOffsets(m)
  BY <1>0, <1>3 DEF FetchOffsets
<1>4. CASE FetchEnds(m)
  BY <1>0, <1>4 DEF FetchEnds
<1>5. CASE Pin(m)
  <2>1. committed' \in Unpinned..end
    BY <1>0, <1>5 DEF Pin
  <2> QED
    BY <1>0, <1>5, <2>1 DEF Pin
<1>6. CASE Join(m)
  BY <1>0, <1>6 DEF Join
<1>7. CASE Poll(m)
  BY <1>0, <1>7 DEF Poll, Heartbeated
<1>8. CASE Claim(m)
  <2>1. CASE claim[next[m]] = None
    <3>1. ClaimSet(m, m, ClaimTTL)
      BY <1>8, <2>1 DEF Claim, ClaimSet
    <3> QED
      BY <1>0, <1>a, <1>8, <2>1, <3>1, ClaimSetTypes DEF Claim
  <2>2. CASE claim[next[m]] # None
    BY <1>0, <1>a, <1>8, <2>2, ResolveTypes DEF Claim, Resolve
  <2> QED
    BY <2>1, <2>2
<1>9. CASE WorkDone(m)
  BY <1>0, <1>a, <1>9 DEF WorkDone
<1>10. CASE WorkFails(m)
  BY <1>0, <1>10 DEF WorkFails
<1>11. CASE Extend(m)
  <2>1. /\ claim' \in [Records -> Members \cup {None, "seen", "past"}]
        /\ ttl' \in [Records -> 0..ClaimTTL]
        /\ \A r \in Records : ttl'[r] > 0 <=> claim'[r] \in Members \cup {"past"}
    <3>1. CASE Mine(m)
      <4>1. ClaimSet(m, "seen", 0)
        BY <1>11, <3>1 DEF Extend, ClaimSet
      <4>2. "seen" \notin Members \cup {"past"}
        BY DEF MembersAssumption
      <4> QED
        BY <1>0, <1>a, <1>11, <4>1, <4>2, ClaimSetTypes DEF Extend
    <3> QED
      BY <1>0, <1>11, <3>1 DEF Extend
  <2>2. Resolve(m) /\ next[m] < end /\ UNCHANGED <<results, faults>>
    BY <1>a, <1>11 DEF Extend
  <2> QED
    BY <1>0, <2>1, <2>2, ResolveTypes DEF Resolve
<1>12. CASE Release(m)
  <2>1. /\ claim' \in [Records -> Members \cup {None, "seen", "past"}]
        /\ ttl' \in [Records -> 0..ClaimTTL]
        /\ \A r \in Records : ttl'[r] > 0 <=> claim'[r] \in Members \cup {"past"}
    <3>1. CASE Mine(m)
      <4>1. ClaimSet(m, None, 0)
        BY <1>12, <3>1 DEF Release, ClaimSet
      <4>2. None \notin Members \cup {"past"}
        BY DEF MembersAssumption, None
      <4> QED
        BY <1>0, <1>a, <1>12, <4>1, <4>2, ClaimSetTypes DEF Release
    <3> QED
      BY <1>0, <1>12, <3>1 DEF Release
  <2> QED
    BY <1>0, <1>12, <2>1 DEF Release
<1>13. CASE Retry(m)
  <2>1. CASE m \in closing \/ owner # m
    BY <1>0, <1>a, <1>13, <2>1, RethrowTypes DEF Retry
  <2>2. CASE ~(m \in closing \/ owner # m)
    BY <1>0, <1>a, <1>13, <2>2 DEF Retry, Heartbeated
  <2> QED
    BY <2>1, <2>2
<1>14. CASE DeadLetter(m)
  <2>1. CASE Resolve(m)
    <3>1. handled' \cup dead' \subseteq 0..(end' - 1) /\ faults' \in 0..MaxFaults
      BY <1>0, <1>a, <1>14, <2>1 DEF DeadLetter, Resolve, Fault
    <3> QED
      BY <1>0, <1>a, <1>14, <2>1, <3>1, ResolveTypes DEF DeadLetter, Resolve
  <2>2. CASE ~Resolve(m)
    BY <1>0, <1>a, <1>14, <2>2, RethrowTypes DEF DeadLetter, Fault
  <2> QED
    BY <2>1, <2>2
<1>15. CASE Disconnect(m)
  BY <1>0, <1>15 DEF Disconnect, Leave, Stop
<1>16. CASE Close(m)
  BY <1>0, <1>16 DEF Close, Fault
<1>17. CASE Crash(m)
  BY <1>0, <1>17 DEF Crash, Stop, Fault
<1>18. CASE Assign(m)
  BY <1>0, <1>a, <1>18 DEF Assign
<1>19. CASE Evict(m)
  BY <1>0, <1>19 DEF Evict, Leave
<1> QED
  BY <1>3, <1>4, <1>5, <1>6, <1>7, <1>8, <1>9, <1>10, <1>11, <1>12, <1>13, <1>14,
     <1>15, <1>16, <1>17, <1>18, <1>19 DEF Step

\* What a step does to another member: nothing but let time pass.
OfOthers(m, other) ==
    /\ pc'[other] = pc[other] /\ next'[other] = next[other]
    /\ attempt'[other] = attempt[other] /\ session'[other] = session[other]

LEMMA OneMemberMoves ==
    ASSUME TypeOK, NEW m \in Members,
           FetchOffsets(m) \/ Step(m) \/ Close(m) \/ Crash(m) \/ Assign(m) \/ Evict(m)
    PROVE  /\ \A other \in Members \ {m} :
                  OfOthers(m, other) /\ (other \in closing' <=> other \in closing)
           /\ end' = end /\ handled \subseteq handled' /\ dead \subseteq dead'
           /\ presumed \subseteq presumed'
<1> USE DEF TypeOK, OfOthers, topic, coordinator, member, claims, results, Go
<1>1. CASE FetchOffsets(m) \/ FetchEnds(m) \/ Pin(m) \/ Join(m) \/ Poll(m)
  BY <1>1 DEF FetchOffsets, FetchEnds, Pin, Join, Poll, Heartbeated
<1>2. CASE Claim(m)
  BY <1>2 DEF Claim, Resolve
<1>3. CASE WorkDone(m) \/ WorkFails(m) \/ Release(m)
  BY <1>3 DEF WorkDone, WorkFails, Release
<1>4. CASE Extend(m)
  BY <1>4 DEF Extend, Resolve
<1>5. CASE Retry(m)
  BY <1>5 DEF Retry, Rethrow, Heartbeated
<1>6. CASE DeadLetter(m)
  BY <1>6 DEF DeadLetter, Resolve, Rethrow
<1>7. CASE Disconnect(m) \/ Close(m) \/ Crash(m)
  BY <1>7 DEF Disconnect, Leave, Stop, Close, Crash
<1>8. CASE Assign(m) \/ Evict(m)
  BY <1>8 DEF Assign, Evict, Leave
<1> QED
  BY <1>1, <1>2, <1>3, <1>4, <1>5, <1>6, <1>7, <1>8 DEF Step

\* The partition changes hands only when it is free or its owner goes.
LEMMA OwnerKept ==
    ASSUME NEW m \in Members,
           FetchOffsets(m) \/ Step(m) \/ Close(m) \/ Crash(m) \/ Assign(m) \/ Evict(m)
    PROVE  owner \notin {None, m} => owner' = owner
BY DEF Step, FetchOffsets, FetchEnds, Pin, Join, Poll, Claim, Resolve, WorkDone, WorkFails,
       Extend, Release, Retry, DeadLetter, Disconnect, Leave, Close, Crash, Assign, Evict,
       coordinator, topic

LEMMA StepKeepsAtRecord ==
    ASSUME Assumptions, KInv, Next PROVE \A m \in Members : AtRecord(m)'
<1> USE DEF Assumptions, KafkaAssumption, TypeOK, Handling, topic, coordinator, member,
            claims, results, Go, AtRecord
<1>0. TypeOK /\ \A m \in Members : AtRecord(m)
  BY DEF KInv
<1>1. CASE Publish
  BY <1>0, <1>1 DEF Publish
<1>2. CASE Tick
  BY <1>0, <1>2 DEF Tick
<1> SUFFICES ASSUME NEW m \in Members,
                    \/ FetchOffsets(m) \/ Step(m) \/ Close(m)
                    \/ Crash(m) \/ Assign(m) \/ Evict(m)
             PROVE  \A n \in Members : AtRecord(n)'
  BY <1>1, <1>2 DEF Next
<1>3. ASSUME NEW n \in Members \ {m} PROVE AtRecord(n)'
  <2>1. pc[n] = "claim" => owner = n /\ owner # None
    BY <1>0 DEF MembersAssumption
  <2> QED
    BY <1>0, <2>1, OneMemberMoves, OwnerKept DEF OfOthers
<1>4. AtRecord(m)'
  <2>1. CASE FetchOffsets(m) \/ FetchEnds(m) \/ Pin(m) \/ Join(m)
    BY <1>0, <2>1 DEF FetchOffsets, FetchEnds, Pin, Join
  <2>2. CASE Poll(m)
    BY <1>0, <2>2 DEF Poll, Heartbeated, Overhang
  <2>3. CASE Claim(m)
    BY <1>0, <2>3 DEF Claim, Resolve
  <2>4. CASE WorkDone(m) \/ WorkFails(m) \/ Release(m)
    BY <1>0, <2>4 DEF WorkDone, WorkFails, Release
  <2>5. CASE Extend(m)
    BY <1>0, <2>5 DEF Extend, Resolve
  <2>6. CASE Retry(m)
    BY <1>0, <2>6 DEF Retry, Rethrow, Heartbeated, Overhang
  <2>7. CASE DeadLetter(m)
    BY <1>0, <2>7 DEF DeadLetter, Resolve, Rethrow
  <2>8. CASE Disconnect(m) \/ Close(m) \/ Crash(m)
    BY <1>0, <2>8 DEF Disconnect, Stop, Close, Crash
  <2>9. CASE Assign(m)
    BY <1>0, <2>9 DEF Assign
  <2>10. CASE Evict(m)
    BY <1>0, <2>10 DEF Evict, Leave, Overhang
  <2> QED
    BY <2>1, <2>2, <2>3, <2>4, <2>5, <2>6, <2>7, <2>8, <2>9, <2>10 DEF Step
<1> QED
  BY <1>3, <1>4

LEMMA StepKeepsPinned ==
    ASSUME Assumptions, KInv, Next PROVE PinnedFirst'
<1> USE DEF Assumptions, KafkaAssumption, TypeOK, Handling, topic, coordinator, member,
            claims, results, Go, Pinning, Unpinned
<1>0. TypeOK /\ PinnedFirst
  BY DEF KInv
<1>1. CASE Publish
  BY <1>0, <1>1 DEF Publish, PinnedFirst
<1>2. CASE Tick
  BY <1>0, <1>2 DEF Tick, PinnedFirst
<1> SUFFICES ASSUME NEW m \in Members,
                    \/ FetchOffsets(m) \/ Step(m) \/ Close(m)
                    \/ Crash(m) \/ Assign(m) \/ Evict(m)
             PROVE  PinnedFirst'
  BY <1>1, <1>2 DEF Next
<1>3. CASE FetchOffsets(m)
  BY <1>0, <1>3 DEF FetchOffsets, PinnedFirst
<1>4. CASE FetchEnds(m)
  BY <1>0, <1>4 DEF FetchEnds, PinnedFirst
<1>5. CASE Pin(m)
  BY <1>0, <1>5 DEF Pin, PinnedFirst
<1>6. CASE Join(m)
  BY <1>0, <1>6 DEF Join, PinnedFirst
<1>7. CASE Poll(m)
  BY <1>0, <1>7 DEF Poll, Heartbeated, PinnedFirst
<1>8. CASE Claim(m)
  BY <1>0, <1>8 DEF Claim, Resolve, PinnedFirst
<1>9. CASE WorkDone(m) \/ WorkFails(m) \/ Release(m)
  BY <1>0, <1>9 DEF WorkDone, WorkFails, Release, PinnedFirst
<1>10. CASE Extend(m)
  BY <1>0, <1>10 DEF Extend, Resolve, PinnedFirst
<1>11. CASE Retry(m)
  BY <1>0, <1>11 DEF Retry, Rethrow, Heartbeated, PinnedFirst
<1>12. CASE DeadLetter(m)
  BY <1>0, <1>12 DEF DeadLetter, Resolve, Rethrow, PinnedFirst
<1>13. CASE Disconnect(m)
  BY <1>0, <1>13 DEF Disconnect, Leave, Stop, PinnedFirst
<1>14. CASE Close(m)
  BY <1>0, <1>14 DEF Close, PinnedFirst
<1>15. CASE Crash(m)
  BY <1>0, <1>15 DEF Crash, Stop, PinnedFirst
<1>16. CASE Assign(m)
  BY <1>0, <1>16 DEF Assign, PinnedFirst
<1>17. CASE Evict(m)
  BY <1>0, <1>17 DEF Evict, Leave, PinnedFirst
<1> QED
  BY <1>3, <1>4, <1>5, <1>6, <1>7, <1>8, <1>9, <1>10, <1>11, <1>12, <1>13, <1>14,
     <1>15, <1>16, <1>17 DEF Step

\* Whose claim another attempt finds held when it makes its own: one whose time
\* has an overhang.
LEMMA FoundHeld ==
    ASSUME Assumptions, KInv, NEW m \in Members, pc[m] = "claim", Held(next[m])
    PROVE  Overhang > 0
<1>1. next[m] \in Records /\ owner = m /\ owner # None
  BY DEF KInv, AtRecord, TypeOK, Records, Handling, Assumptions, KafkaAssumption,
         MembersAssumption
<1>2. ttl[next[m]] > 0 /\ ttl[next[m]] \in Int /\ Overhang \in Int
  BY <1>1 DEF KInv, TypeOK, Held, Overhang, Assumptions, KafkaAssumption
<1>3. ttl[next[m]] <= Overhang
  BY <1>1 DEF KInv, ClaimIsHeld, ClaimEnds
<1> QED
  BY <1>2, <1>3

\* A record that is resolved is settled.
LEMMA ResolvedIsSettled ==
    ASSUME Assumptions, KInv, NEW m \in Members, Claim(m) \/ Extend(m), Resolve(m)
    PROVE  next[m] \in handled' \cup dead' \cup presumed'
<1> USE DEF Handling, Go
<1>1. next[m] \in Records
  BY DEF Claim, Extend, KInv, AtRecord, TypeOK, Records, Assumptions, KafkaAssumption
<1>2. CASE Claim(m)
  <2>1. claim[next[m]] # None
    BY <1>2 DEF Claim, Resolve, KInv, TypeOK
  <2>2. CASE Held(next[m])
    BY <1>2, <2>1, <2>2 DEF Claim, Settled
  <2>3. CASE ~Held(next[m])
    BY <1>1, <1>2, <2>1, <2>3 DEF Claim, Settled, KInv, ClaimIsHeld, TypeOK, Held
  <2> QED
    BY <2>2, <2>3
<1>3. CASE Extend(m)
  BY <1>3 DEF Extend, KInv, AtRecord, Settled, results
<1> QED
  BY <1>2, <1>3

\* Resolving a settled record and fetching from the group's offset leave
\* settled records behind.
Behind(m) == BehindIsSettled(m) /\ PassedAreSettled

LEMMA ResolveKeepsBehind ==
    ASSUME KafkaAssumption, TypeOK, NEW m \in Members, Behind(m), Resolve(m),
           next[m] \in handled' \cup dead' \cup presumed',
           handled \subseteq handled', dead \subseteq dead', presumed \subseteq presumed'
    PROVE  Behind(m)'
<1>1. /\ next[m] \in Nat /\ from \in Nat /\ from' = from
      /\ next'[m] \in {next[m], next[m] + 1}
      /\ committed \in Int /\ committed' \in {committed, next[m] + 1}
  BY DEF KafkaAssumption, TypeOK, Resolve, Unpinned
<1>2. \A r \in from..next[m] : Settled(r)'
  BY <1>1 DEF Behind, BehindIsSettled, Settled
<1>3. BehindIsSettled(m)'
  BY <1>1, <1>2 DEF BehindIsSettled
<1>4. PassedAreSettled'
  <2>1. CASE committed' = committed
    BY <1>1, <2>1 DEF Behind, PassedAreSettled, Settled
  <2>2. CASE committed' = next[m] + 1
    BY <1>1, <1>2, <2>2 DEF PassedAreSettled
  <2> QED
    BY <1>1, <2>1, <2>2
<1> QED
  BY <1>3, <1>4 DEF Behind

LEMMA RethrowKeepsBehind ==
    ASSUME KafkaAssumption, TypeOK, NEW m \in Members, Behind(m), Rethrow(m),
           UNCHANGED topic,
           handled \subseteq handled', dead \subseteq dead', presumed \subseteq presumed'
    PROVE  Behind(m)'
BY DEF Settled, KafkaAssumption, TypeOK, Behind, BehindIsSettled, PassedAreSettled, Rethrow, topic

LEMMA StepKeepsBehind ==
    ASSUME Assumptions, KInv, Next
    PROVE  PassedAreSettled' /\ \A m \in Members : BehindIsSettled(m)'
<1> USE DEF Assumptions, KafkaAssumption, TypeOK, topic, coordinator, member, claims,
            results, Unpinned, Settled
<1>0. TypeOK /\ PassedAreSettled /\ \A m \in Members : BehindIsSettled(m)
  BY DEF KInv
<1>1. CASE Publish \/ Tick
  BY <1>0, <1>1 DEF Publish, Tick, PassedAreSettled, BehindIsSettled
<1> SUFFICES ASSUME NEW m \in Members,
                    \/ FetchOffsets(m) \/ Step(m) \/ Close(m)
                    \/ Crash(m) \/ Assign(m) \/ Evict(m)
             PROVE  PassedAreSettled' /\ \A n \in Members : BehindIsSettled(n)'
  BY <1>1 DEF Next
<1>2. from' = from \/ (from = MaxRecords /\ from' = end)
  BY DEF Step, FetchOffsets, FetchEnds, Pin, Join, Poll, Claim, Resolve, WorkDone,
         WorkFails, Extend, Release, Retry, DeadLetter, Disconnect, Close, Crash, Assign,
         Evict
<1>3. ASSUME NEW n \in Members \ {m} PROVE BehindIsSettled(n)'
  <2>1. /\ OfOthers(m, n) /\ handled \subseteq handled' /\ dead \subseteq dead' /\ end' = end
        /\ presumed \subseteq presumed'
    BY <1>0, OneMemberMoves
  <2>2. next[n] \in 0..end
    BY <1>0
  <2> QED
    BY <1>0, <1>2, <2>1, <2>2 DEF BehindIsSettled, OfOthers
<1>4. Behind(m)'
  <2>0. Behind(m)
    BY <1>0 DEF Behind
  <2>1. CASE FetchOffsets(m) \/ FetchEnds(m) \/ Poll(m) \/ Close(m) \/ Evict(m)
    BY <1>0, <2>1 DEF FetchOffsets, FetchEnds, Poll, Close, Evict, Behind, PassedAreSettled,
                      BehindIsSettled
  <2>2. CASE Pin(m)
    <3>1. group = {} => from = MaxRecords
      BY <2>2 DEF KInv, PinnedFirst, Pin, Pinning
    <3>2. ends[m] \in 0..end
      BY <1>0
    <3> QED
      BY <1>0, <2>2, <3>1, <3>2 DEF Pin, Behind, PassedAreSettled, BehindIsSettled
  <2>3. CASE Join(m)
    <3>1. next[m] \in 0..end
      BY <1>0
    <3> QED
      BY <1>0, <2>3, <3>1 DEF Join, Behind, PassedAreSettled, BehindIsSettled
  <2>4. CASE Claim(m)
    <3>1. CASE claim[next[m]] = None
      BY <1>0, <2>4, <3>1 DEF Claim, Behind, PassedAreSettled, BehindIsSettled
    <3>2. CASE claim[next[m]] # None
      BY <1>0, <2>0, <2>4, <3>2, ResolvedIsSettled, ResolveKeepsBehind DEF Claim
    <3> QED
      BY <3>1, <3>2
  <2>5. CASE WorkDone(m) \/ WorkFails(m) \/ Release(m)
    BY <1>0, <2>5 DEF WorkDone, WorkFails, Release, Behind, PassedAreSettled, BehindIsSettled
  <2>6. CASE Extend(m)
    BY <1>0, <2>0, <2>6, ResolvedIsSettled, ResolveKeepsBehind DEF Extend
  <2>7. CASE Retry(m)
    <3>1. CASE m \in closing \/ owner # m
      BY <1>0, <2>0, <2>7, <3>1, RethrowKeepsBehind DEF Retry
    <3>2. CASE ~(m \in closing \/ owner # m)
      BY <1>0, <2>7, <3>2 DEF Retry, Behind, PassedAreSettled, BehindIsSettled
    <3> QED
      BY <3>1, <3>2
  <2>8. CASE DeadLetter(m)
    <3>1. CASE Resolve(m) /\ dead' = dead \cup {next[m]}
      BY <1>0, <2>0, <2>8, <3>1, ResolveKeepsBehind DEF DeadLetter
    <3>2. CASE Rethrow(m) /\ UNCHANGED topic
      BY <1>0, <2>0, <2>8, <3>2, OneMemberMoves, RethrowKeepsBehind DEF Step
    <3> QED
      BY <2>8, <3>1, <3>2 DEF DeadLetter
  <2>9. CASE Disconnect(m) \/ Crash(m)
    <3>1. 0 <= from
      BY <1>0
    <3> QED
      BY <1>0, <2>9, <3>1 DEF Disconnect, Crash, Stop, Behind, PassedAreSettled,
                              BehindIsSettled
  <2>10. CASE Assign(m)
    <3>1. committed # Unpinned
      BY <2>10 DEF KInv, PinnedFirst, Assign
    <3> QED
      BY <1>0, <2>10, <3>1 DEF Assign, Behind, PassedAreSettled, BehindIsSettled
  <2> QED
    BY <2>1, <2>2, <2>3, <2>4, <2>5, <2>6, <2>7, <2>8, <2>9, <2>10 DEF Step
<1> QED
  BY <1>3, <1>4 DEF Behind

LEMMA StepKeepsClaims ==
    ASSUME Assumptions, KInv, Next
    PROVE  \A r \in Records : ClaimIsHeld(r)'
<1> USE DEF Assumptions, KafkaAssumption, MembersAssumption, TypeOK, Handling, topic,
            coordinator, member, claims, results, Go, None, Held
<1>0. /\ TypeOK /\ \A r \in Records : ClaimIsHeld(r)
      /\ Overhang \in Int
  BY DEF KInv, Overhang
<1>1. CASE Publish
  BY <1>0, <1>1 DEF Publish, ClaimIsHeld, ClaimEnds
<1>2. CASE Tick
  <2> SUFFICES ASSUME NEW r \in Records, claim[r] # None, ttl[r] # 1
               PROVE  ClaimIsHeld(r)'
    BY <1>0, <1>2 DEF Tick, ClaimIsHeld
  <2>1. claim'[r] = claim[r] /\ ttl'[r] = Down(ttl[r])
    BY <1>0, <1>2 DEF Tick
  <2>2. CASE claim[r] = "seen"
    BY <1>0, <1>2, <2>1, <2>2 DEF Tick, ClaimIsHeld
  <2>3. CASE Held(r)
    <3>0. ttl[r] \in Int /\ ttl[r] > 1 /\ ttl'[r] = ttl[r] - 1
      BY <1>0, <2>1, <2>3 DEF Down
    <3>1. CASE ttl[r] <= Overhang
      BY <1>0, <1>2, <2>1, <2>3, <3>0, <3>1 DEF Tick, ClaimIsHeld, ClaimEnds
    <3>2. CASE ttl[r] > Overhang
      <4>1. /\ owner \in Members /\ pc[owner] \notin {"poll", "wait"}
            /\ session[owner] \in Int /\ session[owner] > 0
            /\ ttl[r] <= session[owner] + Overhang
        BY <1>0, <2>3, <3>0, <3>2 DEF ClaimIsHeld, ClaimEnds
      <4>2. session'[owner] = session[owner] - 1
        BY <1>0, <1>2, <4>1 DEF Tick, Down
      <4>3. ttl'[r] <= session'[owner] + Overhang
        BY <1>0, <3>0, <4>1, <4>2
      <4> QED
        BY <1>0, <1>2, <2>1, <2>3, <3>0, <3>2, <4>3 DEF Tick, ClaimIsHeld, ClaimEnds
    <3> QED
      BY <1>0, <3>0, <3>1, <3>2
  <2> QED
    BY <1>0, <2>2, <2>3
<1> SUFFICES ASSUME NEW m \in Members,
                    \/ FetchOffsets(m) \/ Step(m) \/ Close(m)
                    \/ Crash(m) \/ Assign(m) \/ Evict(m),
                    NEW r \in Records
             PROVE  ClaimIsHeld(r)'
  BY <1>1, <1>2 DEF Next
<1>a. /\ Held(r) <=> ttl[r] > 0
      /\ claim[r] \in Members \cup {None, "seen", "past"} /\ ttl[r] \in 0..ClaimTTL
      /\ ClaimIsHeld(r)
  BY <1>0
<1>b. pc[m] \in Handling => next[m] \in Records /\ AtRecord(m)
  <2>1. AtRecord(m)
    BY DEF KInv
  <2>2. next[m] \in 0..end /\ end \in 0..MaxRecords
    BY <1>0
  <2> QED
    BY <2>1, <2>2 DEF AtRecord, Records
<1>c. handled \subseteq handled'
  BY <1>0, OneMemberMoves
\* A step that leaves the claim, whose holder is another member.
<1>d. ASSUME claim'[r] = claim[r], ttl'[r] = ttl[r], claim[r] # m,
             owner = m => ttl[r] <= Overhang
      PROVE  ClaimIsHeld(r)'
  <2>1. ttl[r] <= Overhang \/ owner \notin {None, m} \/ ~Held(r)
    BY <1>a, <1>d DEF ClaimIsHeld, ClaimEnds
  <2>2. claim[r] \in Members =>
            /\ claim[r] \in Members \ {m} /\ next'[claim[r]] = next[claim[r]]
            /\ pc'[claim[r]] = pc[claim[r]]
    BY <1>0, <1>d, OneMemberMoves DEF OfOthers
  <2>3. owner \notin {None, m} =>
            owner' = owner /\ session'[owner] = session[owner] /\ pc'[owner] = pc[owner]
    BY <1>0, OwnerKept, OneMemberMoves DEF OfOthers
  <2> QED
    BY <1>0, <1>a, <1>c, <1>d, <2>1, <2>2, <2>3 DEF ClaimIsHeld, ClaimEnds
\* A claim of one who is not at work on its record.
<1>e. pc[m] \notin {"work", "extend", "release", "off"} =>
          claim[r] # m /\ (owner = m /\ Held(r) => ttl[r] <= Overhang)
  BY <1>a DEF ClaimIsHeld, ClaimEnds
\* Nobody holds it.
<1>f. ASSUME claim'[r] = claim[r], ttl'[r] = ttl[r], ~Held(r)
      PROVE  ClaimIsHeld(r)'
  BY <1>a, <1>c, <1>f DEF ClaimIsHeld
<1>3. CASE \/ FetchOffsets(m) \/ FetchEnds(m) \/ Pin(m) \/ Join(m) \/ Poll(m) \/ Retry(m)
           \/ DeadLetter(m) \/ Disconnect(m) \/ Assign(m)
  <2>1. UNCHANGED claims
    BY <1>3 DEF FetchOffsets, FetchEnds, Pin, Join, Poll, Retry, DeadLetter, Disconnect,
                Assign
  <2>2. pc[m] \notin {"work", "extend", "release"} /\ (pc[m] = "off" => owner # m)
    BY <1>0, <1>3 DEF FetchOffsets, FetchEnds, Pin, Join, Poll, Retry, DeadLetter,
                      Disconnect, Assign
  <2>3. claim[r] # m /\ (owner = m /\ Held(r) => ttl[r] <= Overhang)
    BY <1>a, <1>e, <2>2 DEF ClaimIsHeld
  <2> QED
    BY <1>d, <1>f, <2>1, <2>3
<1>4. CASE Claim(m)
  <2>1. owner = m /\ ClaimTTL <= session[m] + Overhang
    BY <1>b, <1>4 DEF Claim, AtRecord
  <2>2. claim[r] # m /\ (owner = m /\ Held(r) => ttl[r] <= Overhang)
    BY <1>e, <1>4 DEF Claim
  <2>3. CASE claim[next[m]] = None /\ r = next[m]
    <3>1. claim'[r] = m /\ ttl'[r] = ClaimTTL /\ owner' = m /\ session' = session
      BY <1>0, <1>4, <2>1, <2>3 DEF Claim
    <3>2. next'[m] = r /\ pc'[m] = "work"
      BY <1>0, <1>4, <2>3 DEF Claim
    <3>3. m # None /\ m # "seen" /\ m # "past"
      OBVIOUS
    <3>4. ClaimEnds(r)'
      BY <2>1, <3>1, <3>3 DEF ClaimEnds
    <3> QED
      BY <3>1, <3>2, <3>3, <3>4 DEF ClaimIsHeld
  <2>4. CASE claim[next[m]] # None \/ r # next[m]
    <3>1. claim'[r] = claim[r] /\ ttl'[r] = ttl[r]
      BY <1>0, <1>4, <2>4 DEF Claim
    <3> QED
      BY <1>d, <1>f, <2>2, <3>1
  <2> QED
    BY <2>3, <2>4
<1>5. CASE WorkDone(m) \/ WorkFails(m) \/ Close(m)
  BY <1>0, <1>a, <1>5 DEF WorkDone, WorkFails, Close, ClaimIsHeld, ClaimEnds
<1>6. CASE Extend(m) \/ Release(m)
  <2>1. CASE Mine(m) /\ r = next[m]
    BY <1>0, <1>b, <1>c, <1>6, <2>1 DEF Extend, Release, AtRecord, ClaimIsHeld
  <2>2. CASE ~(Mine(m) /\ r = next[m])
    <3>1. claim'[r] = claim[r] /\ ttl'[r] = ttl[r]
      BY <1>0, <1>6, <2>2 DEF Extend, Release
    <3>2. claim[r] # m /\ (owner = m /\ Held(r) => ttl[r] <= Overhang)
      BY <1>a, <1>6, <2>2 DEF Extend, Release, ClaimIsHeld, ClaimEnds, Mine
    <3> QED
      BY <1>d, <1>f, <3>1, <3>2
  <2> QED
    BY <2>1, <2>2
<1>8. CASE Crash(m)
  <2>1. CASE claim[r] = m
    BY <1>0, <1>a, <1>8, <2>1 DEF Crash, Stop, ClaimIsHeld, ClaimEnds
  <2>2. CASE claim[r] # m
    BY <1>0, <1>a, <1>8, <2>2 DEF Crash, Stop, ClaimIsHeld, ClaimEnds
  <2> QED
    BY <2>1, <2>2
<1>9. CASE Evict(m)
  <2>1. owner = m /\ Held(r) => ttl[r] <= Overhang
    BY <1>0, <1>a, <1>9 DEF Evict, ClaimIsHeld, ClaimEnds
  <2>2. CASE claim[r] = m
    <3>1. ttl[r] <= Overhang
      BY <1>0, <1>a, <2>1, <2>2 DEF ClaimIsHeld, ClaimEnds
    <3> QED
      BY <1>0, <1>a, <1>9, <2>2, <3>1 DEF Evict, Leave, ClaimIsHeld, ClaimEnds
  <2> QED
    BY <1>d, <1>f, <1>9, <2>1, <2>2 DEF Evict
<1> QED
  BY <1>3, <1>4, <1>5, <1>6, <1>8, <1>9 DEF Step

\* Nothing is passed by under a claim without an overhang.
LEMMA StepKeepsPresumed ==
    ASSUME Assumptions, KInv, Next PROVE presumed' # {} => Overhang > 0
<1>1. CASE presumed' = presumed
  BY <1>1 DEF KInv
<1>2. CASE presumed' # presumed
  <2>1. PICK m \in Members : Claim(m) /\ Held(next[m])
    BY <1>2 DEF Next, Step, Publish, Tick, FetchOffsets, FetchEnds, Pin, Join, Poll, Claim,
           WorkDone, WorkFails, Extend, Release, Retry, DeadLetter, Disconnect, Close,
           Crash, Assign, Evict, results
  <2> QED
    BY <2>1, FoundHeld DEF Claim
<1> QED
  BY <1>1, <1>2

-----------------------------------------------------------------------------
(* The theorems.                                                           *)

LEMMA InitKInv == Assumptions /\ Init => KInv
BY DEF Assumptions, KafkaAssumption, MembersAssumption, Init, KInv, TypeOK, AtRecord,
       BehindIsSettled, ClaimIsHeld, PinnedFirst, PassedAreSettled, Records, Calls, Handling,
       Unpinned, Pinning, None, Held, ClaimEnds, Settled

LEMMA StepKInv == Assumptions /\ KInv /\ [Next]_vars => KInv'
<1> SUFFICES ASSUME Assumptions, KInv, [Next]_vars PROVE KInv'
  OBVIOUS
<1>1. CASE Next
  BY <1>1, StepKeepsTypes, StepKeepsAtRecord, StepKeepsClaims, StepKeepsPinned,
     StepKeepsBehind, StepKeepsPresumed
     DEF KInv
<1>2. CASE UNCHANGED vars
  BY <1>2 DEF vars, topic, coordinator, member, claims, results, KInv, TypeOK, AtRecord,
              BehindIsSettled, ClaimIsHeld, PinnedFirst, Pinning,
              PassedAreSettled, Held, ClaimEnds, Settled
<1> QED
  BY <1>1, <1>2

LEMMA Invariance == Assumptions /\ Spec => []KInv
<1>1. CASE Assumptions
  BY <1>1, InitKInv, StepKInv, PTL DEF Spec
<1> QED
  BY <1>1

\* Every variable of a Kafka group keeps its type.
THEOREM TypeCorrect == Assumptions /\ Spec => []TypeOK
<1>1. KInv => TypeOK
  BY DEF KInv
<1> QED
  BY <1>1, Invariance, PTL

LEMMA Bounded == Assumptions /\ KInv => LostOnlyUnderClaim
<1> SUFFICES ASSUME Assumptions, KInv, NEW r \in Records, Abandoned(r)
             PROVE  ttl[r] <= Overhang
  BY DEF KInv, LostOnlyUnderClaim, ClaimsEndInTime
<1> QED
  BY DEF Abandoned, Held, KInv, ClaimIsHeld, ClaimEnds, TypeOK, None,
       Assumptions, MembersAssumption

\* The group's offset passes a record only when it was handled or
\* dead-lettered, or under the claim of a member the group had dropped: through
\* rebalances, slow handlers, closing members and killed ones.  Such a claim
\* lasts an overhang at most, so nothing is lost when the claim's time and a
\* heartbeat's fit in the session's, which the code's do not.
THEOREM RecordsKept == Assumptions /\ Spec => []LostOnlyUnderClaim
<1>1. CASE Assumptions
  BY <1>1, Bounded, Invariance, PTL
<1> QED
  BY <1>1

LEMMA StepInOrder ==
    KInv /\ [Next]_vars =>
        [\A r \in handled' \ handled :
           \A q \in from..(r - 1) : Settled(q)]_vars
<1> SUFFICES ASSUME KInv, Next, NEW r \in handled', r \notin handled,
                    NEW q \in from..(r - 1)
             PROVE  Settled(q)
  BY DEF vars, results
<1>1. PICK m \in Members : WorkDone(m)
  BY DEF Next, Step, Publish, Tick, FetchOffsets, FetchEnds, Pin, Join, Poll, Claim,
         WorkFails, Extend, Release, Retry, DeadLetter, Disconnect, Close, Crash, Assign,
         Evict, results
<1>2. r = next[m]
  BY <1>1 DEF WorkDone
<1> QED
  BY <1>2 DEF KInv, BehindIsSettled

\* A record is handled only when those before it were settled, although a
\* member that was evicted may still be at work on an earlier one.
THEOREM WorkedInOrder == Assumptions /\ Spec => PartitionInOrder
BY StepInOrder, Invariance, PTL DEF Spec, PartitionInOrder

=============================================================================
