-------------------------- MODULE MessagingProofs --------------------------
(* What the parts that carry a message promise, for every number of        *)
(* relays, members, subscriptions, events, messages, redeliveries and      *)
(* failures: one publisher at a time, nothing lost and nothing twice.      *)
EXTENDS Messaging, FiniteSetTheorems, SequenceTheorems, TLAPS

-----------------------------------------------------------------------------
(* The relays' lease.                                                      *)

\* A relay that was told its renewal succeeded has the lease for the rest of
\* its reply time and a whole publish after it.
RenewedInTime ==
    \A r \in Relays :
        pc[r] = "reply" => owner = r /\ timer[r] + PublishTimeout < ttl

LeaseInv == TypeOK /\ RenewedInTime /\ PublisherHoldsLease

LEMMA LeaseInit == Init => LeaseInv
BY TimesAssumption
   DEF TimesAssumption, Init, LeaseInv, TypeOK, RenewedInTime, PublisherHoldsLease

LEMMA LeaseStep == LeaseInv /\ [Next]_vars => LeaseInv'
<1> SUFFICES ASSUME LeaseInv, [Next]_vars PROVE LeaseInv'
  OBVIOUS
<1> USE TimesAssumption
    DEF TimesAssumption, LeaseInv, TypeOK, RenewedInTime, PublisherHoldsLease, Go
<1>1. CASE Tick
  <2>1. ASSUME NEW r \in Relays, pc[r] \in {"reply", "publish"}
        PROVE  /\ timer[r] > 0 /\ owner = r /\ ttl > 1
               /\ timer'[r] = timer[r] - 1 /\ ttl' = ttl - 1 /\ owner' = r
    BY <1>1, <2>1 DEF Tick
  <2>2. TypeOK'
    BY <1>1 DEF Tick
  <2>3. pc' = pc
    BY <1>1 DEF Tick
  <2> QED
    BY <2>1, <2>2, <2>3
<1>2. ASSUME NEW r \in Relays, Acquire(r) PROVE LeaseInv'
  BY <1>2, NoneAssumption DEF Acquire, NoneAssumption
<1>3. ASSUME NEW r \in Relays, Renew(r) PROVE LeaseInv'
  BY <1>3 DEF Renew
<1>4. ASSUME NEW r \in Relays, Publish(r) PROVE LeaseInv'
  BY <1>4 DEF Publish
<1>5. ASSUME NEW r \in Relays, Settle(r) PROVE LeaseInv'
  BY <1>5 DEF Settle
<1>6. ASSUME NEW r \in Relays, Heartbeat(r) PROVE LeaseInv'
  BY <1>6 DEF Heartbeat
<1>7. ASSUME NEW r \in Relays, Marked(r) PROVE LeaseInv'
  BY <1>7 DEF Marked
<1>8. ASSUME NEW r \in Relays, Release(r) PROVE LeaseInv'
  BY <1>8 DEF Release
<1>9. ASSUME NEW r \in Relays, Crash(r) PROVE LeaseInv'
  BY <1>9 DEF Crash
<1>10. CASE UNCHANGED vars
  BY <1>10 DEF vars
<1> QED
  BY <1>1, <1>2, <1>3, <1>4, <1>5, <1>6, <1>7, <1>8, <1>9, <1>10
     DEF Next, Relay

LEMMA LeaseInvariance == Spec => []LeaseInv
BY LeaseInit, LeaseStep, PTL DEF Spec

\* Every variable of the lease model keeps its type.
THEOREM LeaseTypeCorrect == Spec => []TypeOK
<1>1. LeaseInv => TypeOK
  BY DEF LeaseInv
<1> QED
  BY <1>1, LeaseInvariance, PTL

\* A relay publishes only while the lease key holds its token, with more time
\* left on the key than on the publish timer.
THEOREM LeaseCoversPublish == Spec => []PublisherHoldsLease
<1>1. LeaseInv => PublisherHoldsLease
  BY DEF LeaseInv
<1> QED
  BY <1>1, LeaseInvariance, PTL

\* No two relays publish rows of the aggregate at once.
THEOREM MutualExclusion == Spec => []OnePublisher
<1>1. LeaseInv => OnePublisher
  BY DEF LeaseInv, PublisherHoldsLease, OnePublisher
<1> QED
  BY <1>1, LeaseInvariance, PTL

-----------------------------------------------------------------------------
(* Dead letters.                                                           *)

\* One run at a time holds the oldest message, which it published when it is
\* about to drop it.
OldestIsHeld ==
    ~overlapped =>
        /\ \A o, p \in Operators : Letters!Running(o) /\ Letters!Running(p) => o = p
        /\ \A o \in Operators : redrivePc[o] \in {"publish", "skip"} =>
              kept # <<>> /\ holds[o] = Head(kept)
        /\ \A o \in Operators : redrivePc[o] = "skip" => published[Head(kept)] > 0

LettersInv ==
    /\ Letters!TypeOK
    /\ \A o \in Operators : redrivePc[o] \in {"publish", "skip"} =>
          holds[o] \in Messages /\ moved[o] < Count
    /\ OldestIsHeld
    /\ Letters!KeptOrPublished

\* What is kept is the oldest message and the others.
LEMMA OldestAndOthers ==
    ASSUME NEW k \in Seq(Messages), k # <<>>
    PROVE  /\ Head(k) \in Messages /\ Tail(k) \in Seq(Messages)
           /\ Letters!ToSet(k) = {Head(k)} \cup Letters!ToSet(Tail(k))
<1>1. Head(k) \in Messages /\ Tail(k) \in Seq(Messages)
  BY HeadTailProperties
<1>2. /\ Len(k) \in Nat \ {0} /\ Head(k) = k[1] /\ DOMAIN k = 1..Len(k)
      /\ Len(Tail(k)) = Len(k) - 1 /\ DOMAIN Tail(k) = 1..Len(Tail(k))
      /\ \A i \in 1..Len(Tail(k)) : Tail(k)[i] = k[i + 1]
  BY HeadTailProperties, LenProperties, EmptySeq
<1>3. \A i \in DOMAIN k : i = 1 \/ (i - 1 \in DOMAIN Tail(k) /\ Tail(k)[i - 1] = k[i])
  BY <1>2
<1>4. Letters!ToSet(k) \subseteq {Head(k)} \cup Letters!ToSet(Tail(k))
  BY <1>2, <1>3 DEF Letters!ToSet
<1>5. {Head(k)} \cup Letters!ToSet(Tail(k)) \subseteq Letters!ToSet(k)
  BY <1>2 DEF Letters!ToSet
<1> QED
  BY <1>1, <1>4, <1>5

LEMMA NewestAndOthers ==
    ASSUME NEW k \in Seq(Messages), NEW m \in Messages
    PROVE  /\ Append(k, m) \in Seq(Messages) /\ Append(k, m) # <<>>
           /\ Letters!ToSet(Append(k, m)) = Letters!ToSet(k) \cup {m}
           /\ k # <<>> => Head(Append(k, m)) = Head(k)
<1>1. /\ Append(k, m) \in Seq(Messages) /\ Len(Append(k, m)) = Len(k) + 1
      /\ DOMAIN k = 1..Len(k) /\ DOMAIN Append(k, m) = 1..(Len(k) + 1)
      /\ \A i \in 1..Len(k) : Append(k, m)[i] = k[i]
      /\ Append(k, m)[Len(k) + 1] = m /\ Len(k) \in Nat
  BY AppendProperties, LenProperties
<1>2. Append(k, m) # <<>>
  BY <1>1, EmptySeq
<1>3. k # <<>> => Head(Append(k, m)) = Head(k)
  BY <1>1, <1>2, HeadTailProperties, EmptySeq, LenProperties
<1>4. Letters!ToSet(Append(k, m)) = Letters!ToSet(k) \cup {m}
  BY <1>1 DEF Letters!ToSet
<1> QED
  BY <1>1, <1>2, <1>3, <1>4

LEMMA LettersStep == LettersInv /\ [Letters!Next]_redriveVars => LettersInv'
<1> SUFFICES ASSUME LettersInv, [Letters!Next]_redriveVars PROVE LettersInv'
  OBVIOUS
<1> USE PartsAssumption
    DEF PartsAssumption, Letters!RedriveAssumption, Letters!TypeOK, Letters!Running
<1>0. /\ Letters!TypeOK
      /\ \A o \in Operators : redrivePc[o] \in {"publish", "skip"} =>
            holds[o] \in Messages /\ moved[o] < Count
      /\ OldestIsHeld /\ Letters!KeptOrPublished
  BY DEF LettersInv
<1>1. ASSUME NEW m \in Messages, Letters!DeadLetter(m) PROVE LettersInv'
  BY <1>0, <1>1, NewestAndOthers
     DEF Letters!DeadLetter, LettersInv, OldestIsHeld, Letters!KeptOrPublished
<1>2. ASSUME NEW o \in Operators, Letters!Start(o) PROVE LettersInv'
  BY <1>0, <1>2 DEF Letters!Start, LettersInv, OldestIsHeld, Letters!KeptOrPublished
<1>3. ASSUME NEW o \in Operators, Letters!Peek(o) PROVE LettersInv'
  <2>1. CASE kept = <<>> \/ moved[o] = Count
    BY <1>0, <1>3, <2>1
       DEF Letters!Peek, LettersInv, OldestIsHeld, Letters!KeptOrPublished
  <2>2. CASE ~(kept = <<>> \/ moved[o] = Count)
    <3>1. Head(kept) \in Messages /\ moved[o] < Count
      BY <1>0, <2>2, OldestAndOthers
    <3> QED
      BY <1>0, <1>3, <2>2, <3>1
         DEF Letters!Peek, LettersInv, OldestIsHeld, Letters!KeptOrPublished
  <2> QED
    BY <2>1, <2>2
<1>4. ASSUME NEW o \in Operators, Letters!Publish(o) PROVE LettersInv'
  BY <1>0, <1>4 DEF Letters!Publish, LettersInv, OldestIsHeld, Letters!KeptOrPublished
<1>5. ASSUME NEW o \in Operators, Letters!PublishFails(o) PROVE LettersInv'
  <2>1. /\ published' \in [Messages -> Nat]
        /\ \A m \in Messages : published'[m] >= published[m]
    <3>1. redrivePc[o] = "publish" /\ holds[o] \in Messages
      BY <1>0, <1>5 DEF Letters!PublishFails
    <3>2. CASE published' = published
      BY <1>0, <3>2
    <3>3. CASE published' = [published EXCEPT ![holds[o]] = @ + 1]
      BY <1>0, <3>1, <3>3
    <3> QED
      BY <1>5, <3>2, <3>3 DEF Letters!PublishFails
  <2> QED
    BY <1>0, <1>5, <2>1
       DEF Letters!PublishFails, LettersInv, OldestIsHeld, Letters!KeptOrPublished
\* The oldest message goes, which an only run has published.
<1>6. ASSUME NEW o \in Operators, redrivePc[o] = "skip", kept' = Letters!Dropped,
             UNCHANGED <<arrived, published, overlapped>>
      PROVE  kept' \in Seq(Messages) /\ Letters!KeptOrPublished'
  <2>1. CASE kept = <<>>
    BY <1>0, <1>6, <2>1 DEF Letters!Dropped, Letters!KeptOrPublished
  <2>2. CASE kept # <<>>
    BY <1>0, <1>6, <2>2, OldestAndOthers
       DEF Letters!Dropped, OldestIsHeld, Letters!KeptOrPublished
  <2> QED
    BY <2>1, <2>2
<1>7. ASSUME NEW o \in Operators, Letters!Skip(o) PROVE LettersInv'
  <2>1. kept' \in Seq(Messages) /\ Letters!KeptOrPublished'
    BY <1>6, <1>7 DEF Letters!Skip
  <2>2. moved' \in [Operators -> 0..Count]
    BY <1>0, <1>7 DEF Letters!Skip
  <2>3. OldestIsHeld'
    BY <1>0, <1>7 DEF Letters!Skip, OldestIsHeld
  <2> QED
    BY <1>0, <1>7, <2>1, <2>2, <2>3 DEF Letters!Skip, LettersInv
<1>8. ASSUME NEW o \in Operators, Letters!SkipFails(o) PROVE LettersInv'
  <2>1. kept' \in Seq(Messages) /\ Letters!KeptOrPublished'
    BY <1>0, <1>6, <1>8 DEF Letters!SkipFails, Letters!KeptOrPublished
  <2>2. OldestIsHeld'
    BY <1>0, <1>8 DEF Letters!SkipFails, OldestIsHeld
  <2> QED
    BY <1>0, <1>8, <2>1, <2>2 DEF Letters!SkipFails, LettersInv
<1>9. CASE UNCHANGED redriveVars
  BY <1>0, <1>9 DEF redriveVars, LettersInv, OldestIsHeld, Letters!KeptOrPublished
<1> QED
  BY <1>1, <1>2, <1>3, <1>4, <1>5, <1>7, <1>8, <1>9 DEF Letters!Next

-----------------------------------------------------------------------------
(* Tracking: the page and its batches.                                     *)

\* A recorded event is in the buffer or in the batch of one post.
OnePlace ==
    /\ \A r \in Posts : ingestPc[r] = "none" => batch[r] = {}
    /\ \A r, q \in Posts : batch[r] \cap batch[q] # {} => r = q
    /\ \A r \in Posts : batch[r] \cap buffer = {}
    /\ tracked = buffer \cup UNION {batch[r] : r \in Posts}

LEMMA SameCardinality ==
    ASSUME NEW S PROVE Tracker!Cardinality(S) = Cardinality(S)
BY DEF Tracker!Cardinality, Cardinality

LEMMA BatchedOnceFromPlaces ==
    ASSUME Tracker!TypeOK, OnePlace PROVE Tracker!BatchedOnce
<1> SUFFICES ASSUME NEW e \in tracked
             PROVE  Cardinality({r \in Posts : e \in batch[r]})
                        + (IF e \in buffer THEN 1 ELSE 0) = 1
  BY SameCardinality DEF Tracker!BatchedOnce
<1>1. CASE e \in buffer
  <2>1. {r \in Posts : e \in batch[r]} = {}
    BY <1>1 DEF OnePlace
  <2>2. Cardinality({r \in Posts : e \in batch[r]}) = 0
    BY <2>1, FS_EmptySet, Zenon
  <2> QED
    BY <1>1, <2>2
<1>2. CASE e \notin buffer
  <2>1. PICK r \in Posts : e \in batch[r]
    BY <1>2 DEF OnePlace
  <2>2. {q \in Posts : e \in batch[q]} = {r}
    BY <2>1 DEF OnePlace
  <2>3. Cardinality({q \in Posts : e \in batch[q]}) = 1
    BY <2>2, FS_Singleton, Zenon
  <2> QED
    BY <1>2, <2>3
<1> QED
  BY <1>1, <1>2

\* A flush moves what it is given from the buffer into one batch.
LEMMA FlushKeepsPlaces ==
    ASSUME Tracker!TypeOK, OnePlace, NEW events \in SUBSET Events,
           events \cap tracked \subseteq buffer, buffer \subseteq events,
           tracked' = tracked \cup events, Tracker!Flush(events)
    PROVE  OnePlace'
<1>1. CASE events = {}
  BY <1>1 DEF Tracker!Flush, OnePlace
<1>2. CASE events # {}
  <2>1. PICK r \in Posts : /\ ingestPc[r] = "none"
                           /\ ingestPc' = [ingestPc EXCEPT ![r] = "posted"]
                           /\ batch' = [batch EXCEPT ![r] = events]
    BY <1>2 DEF Tracker!Flush
  <2>2. /\ \A q \in Posts : batch'[q] = IF q = r THEN events ELSE batch[q]
        /\ batch[r] = {} /\ buffer' = {} /\ ingestPc'[r] = "posted"
        /\ \A q \in Posts \ {r} : ingestPc'[q] = ingestPc[q]
    BY <1>2, <2>1 DEF Tracker!TypeOK, Tracker!Requests, Tracker!Flush, OnePlace
  <2>3. \A q \in Posts \ {r} : batch[q] \cap events = {}
    BY <2>2 DEF OnePlace
  <2>4. tracked' = UNION {batch'[q] : q \in Posts}
    <3>1. tracked' = events \cup UNION {batch[q] : q \in Posts}
      BY DEF OnePlace
    <3> QED
      BY <2>2, <3>1
  <2> QED
    BY <2>2, <2>3, <2>4 DEF OnePlace
<1> QED
  BY <1>1, <1>2

LEMMA StepKeepsPlaces ==
    ASSUME Tracker!TypeOK, OnePlace, [Tracker!Next]_trackVars PROVE OnePlace'
<1> USE DEF Tracker!TypeOK, Tracker!Requests, Tracker!page, Tracker!ingest
\* A step that touches neither the page nor the posts' batches.
<1>1. ASSUME UNCHANGED <<tracked, buffer>>, \A r \in Posts : batch'[r] = batch[r],
             \A r \in Posts : ingestPc'[r] = "none" => ingestPc[r] = "none"
      PROVE  OnePlace'
  BY <1>1 DEF OnePlace
<1>2. ASSUME NEW e \in Events, Tracker!Track(e) PROVE OnePlace'
  <2>1. CASE Tracker!Flush(buffer \cup {e})
    BY <1>2, <2>1, FlushKeepsPlaces DEF Tracker!Track
  <2>2. CASE buffer' = buffer \cup {e} /\ UNCHANGED <<ingestPc, batch>>
    BY <1>2, <2>2 DEF Tracker!Track, OnePlace
  <2> QED
    BY <1>2, <2>1, <2>2 DEF Tracker!Track
<1>3. CASE Tracker!FlushNow
  BY <1>3, FlushKeepsPlaces DEF Tracker!FlushNow
<1>4. ASSUME NEW r \in Repeats, NEW q \in Posts, Tracker!Repeat(r, q) PROVE OnePlace'
  BY <1>1, <1>4, PartsAssumption
     DEF Tracker!Repeat, PartsAssumption, Tracker!TrackingAssumption
<1>5. ASSUME NEW r \in Tracker!Requests,
             \/ Tracker!Ingest(r) \/ Tracker!Lost(r) \/ Tracker!ClaimFails(r)
             \/ Tracker!PublishFails(r) \/ Tracker!SettleFails(r)
      PROVE  OnePlace'
  BY <1>1, <1>5
     DEF Tracker!Ingest, Tracker!Claim, Tracker!Publish, Tracker!Settle, Tracker!Lost,
         Tracker!ClaimFails, Tracker!PublishFails, Tracker!SettleFails
<1>6. ASSUME NEW r \in Tracker!Requests,
             \/ Tracker!Handle(r) \/ Tracker!TakeFails(r) \/ Tracker!InsertFails(r)
             \/ Tracker!ExtendFails(r) \/ Tracker!WorkerStops(r)
      PROVE  OnePlace'
  BY <1>1, <1>6
     DEF Tracker!Handle, Tracker!Take, Tracker!Insert, Tracker!Extend, Tracker!Ack,
         Tracker!TakeFails, Tracker!InsertFails, Tracker!ExtendFails, Tracker!WorkerStops
<1>7. ASSUME NEW e \in Events, Tracker!ClaimExpires(e) \/ Tracker!MarkExpires(e)
      PROVE  OnePlace'
  BY <1>1, <1>7 DEF Tracker!ClaimExpires, Tracker!MarkExpires
<1>8. CASE UNCHANGED trackVars
  BY <1>1, <1>8 DEF trackVars
<1> QED
  BY <1>2, <1>3, <1>4, <1>5, <1>6, <1>7, <1>8 DEF Tracker!Next

-----------------------------------------------------------------------------
(* Tracking: ingest and the sink.                                          *)

\* Where a request and its message are.
Places(r) ==
    /\ ingestPc[r] \in {"none", "posted"} => fresh[r] = {} /\ mine[r] = {}
    /\ ingestPc[r] \in {"none", "posted", "publish"} => message[r] = "none"
    /\ ingestPc[r] = "extend" => message[r] # "none"
    /\ mine[r] \subseteq fresh[r] /\ taken[r] \subseteq fresh[r]
    /\ handler[r] # "none" => message[r] = "out"
    /\ handler[r] = "none" => taken[r] = {}

\* A handler has its claim on the events it takes, and each of them has a row
\* once they are inserted.
Takes(r) ==
    \A e \in taken[r] :
        /\ handler[r] \in {"insert", "extend"} => mark[e] = r
        /\ handler[r] = "extend" => rows[e] > 0

\* A claim of the sink has its handler, and an event that has its marker has
\* its row, or neither is known.
MarkTells(e) ==
    \/ e \in doubtful
    \/ /\ mark[e] \in Tracker!Requests =>
              e \in taken[mark[e]] /\ handler[mark[e]] \in {"insert", "extend"}
       /\ mark[e] = Tracker!Seen => rows[e] > 0
       /\ rows[e] <= 1
       /\ rows[e] > 0 => \/ mark[e] = Tracker!Seen
                         \/ mark[e] \in Tracker!Requests /\ handler[mark[e]] = "extend"

\* An event that was published is stored, or a message still carries it.
Live(e) ==
    \/ e \in doubtful \/ rows[e] > 0
    \/ \E q \in Tracker!Requests :
          /\ e \in fresh[q]
          /\ message[q] \in {"queued", "dead"} \/ (handler[q] = "insert" /\ e \in taken[q])

TrackerInv ==
    /\ Tracker!TypeOK
    /\ OnePlace
    /\ \A r \in Tracker!Requests : Places(r) /\ Takes(r)
    /\ \A e \in Events : MarkTells(e)
    /\ Tracker!SeenIsPublished
    /\ \A r \in Tracker!Requests : message[r] # "none" => \A e \in fresh[r] : Live(e)

LEMMA TrackerTypes ==
    ASSUME Tracker!TypeOK, [Tracker!Next]_trackVars PROVE Tracker!TypeOK'
<1> USE PartsAssumption
    DEF PartsAssumption, Tracker!TrackingAssumption, Tracker!TypeOK, Tracker!Requests,
        Tracker!page, Tracker!ingest, Tracker!sink, Tracker!Fault
<1>1. ASSUME NEW e \in Events, Tracker!Track(e) PROVE Tracker!TypeOK'
  BY <1>1 DEF Tracker!Track, Tracker!Flush
<1>2. CASE Tracker!FlushNow
  BY <1>2 DEF Tracker!FlushNow, Tracker!Flush
<1>3. ASSUME NEW r \in Repeats, NEW q \in Posts, Tracker!Repeat(r, q)
      PROVE  Tracker!TypeOK'
  BY <1>3 DEF Tracker!Repeat
<1>4. ASSUME NEW e \in Events, Tracker!ClaimExpires(e) \/ Tracker!MarkExpires(e)
      PROVE  Tracker!TypeOK'
  BY <1>4 DEF Tracker!ClaimExpires, Tracker!MarkExpires
<1> SUFFICES ASSUME NEW r \in Tracker!Requests,
                    \/ Tracker!Ingest(r) \/ Tracker!Lost(r) \/ Tracker!ClaimFails(r)
                    \/ Tracker!PublishFails(r) \/ Tracker!SettleFails(r)
                    \/ Tracker!Handle(r) \/ Tracker!TakeFails(r) \/ Tracker!InsertFails(r)
                    \/ Tracker!ExtendFails(r) \/ Tracker!WorkerStops(r)
             PROVE  Tracker!TypeOK'
  <2>1. CASE UNCHANGED trackVars
    BY <2>1 DEF trackVars
  <2> QED
    BY <1>1, <1>2, <1>3, <1>4, <2>1 DEF Tracker!Next
<1>5. CASE Tracker!Claim(r)
  BY <1>5 DEF Tracker!Claim, Tracker!Free
<1>6. CASE Tracker!ClaimFails(r)
  <2>1. PICK left \in {{}, Tracker!Free(r)} :
            seen' = [e \in Events |-> IF e \in left THEN r ELSE seen[e]]
    BY <1>6 DEF Tracker!ClaimFails
  <2> QED
    BY <1>6, <2>1 DEF Tracker!ClaimFails
<1>7. CASE Tracker!Publish(r) \/ Tracker!PublishFails(r) \/ Tracker!Lost(r)
  BY <1>7 DEF Tracker!Publish, Tracker!PublishFails, Tracker!Lost
<1>8. CASE Tracker!Settle(r) \/ Tracker!SettleFails(r)
  BY <1>8 DEF Tracker!Settle, Tracker!SettleFails
<1>9. CASE Tracker!Take(r)
  BY <1>9 DEF Tracker!Take, Tracker!Unmarked
<1>10. CASE Tracker!Insert(r) \/ Tracker!Extend(r) \/ Tracker!Ack(r)
  BY <1>10 DEF Tracker!Insert, Tracker!Written, Tracker!Extend, Tracker!Ack
<1>11. ASSUME Tracker!Redelivered(r)
       PROVE  /\ handler' \in [Tracker!Requests -> {"none", "insert", "extend", "ack"}]
              /\ taken' \in [Tracker!Requests -> SUBSET Events]
              /\ message' \in [Tracker!Requests ->
                                  {"none", "queued", "out", "acked", "dead"}]
              /\ deliveries' \in [Tracker!Requests -> 0..MaxRedeliveries]
  BY <1>11 DEF Tracker!Redelivered
<1>12. CASE Tracker!TakeFails(r) \/ Tracker!WorkerStops(r)
  BY <1>11, <1>12 DEF Tracker!TakeFails, Tracker!WorkerStops
<1>13. CASE Tracker!InsertFails(r)
  <2>1. PICK took, released \in BOOLEAN :
          /\ rows' = IF took THEN Tracker!Written(r) ELSE rows
          /\ mark' = IF released
                     THEN [e \in Events |-> IF e \in taken[r] THEN Tracker!Nobody
                                            ELSE mark[e]]
                     ELSE mark
          /\ doubtful' = IF took \/ ~released THEN doubtful \cup taken[r] ELSE doubtful
    BY <1>13 DEF Tracker!InsertFails
  <2>2. rows' \in [Events -> Nat]
    BY <2>1 DEF Tracker!Written
  <2>3. mark' \in [Events -> Tracker!Requests \cup {Tracker!Nobody, Tracker!Seen}]
    BY <2>1
  <2> QED
    BY <1>11, <1>13, <2>1, <2>2, <2>3 DEF Tracker!InsertFails
<1>14. CASE Tracker!ExtendFails(r)
  BY <1>14 DEF Tracker!ExtendFails
<1> QED
  BY <1>5, <1>6, <1>7, <1>8, <1>9, <1>10, <1>12, <1>13, <1>14
     DEF Tracker!Ingest, Tracker!Handle

LEMMA TrackerPlaces ==
    ASSUME TrackerInv, Tracker!Next
    PROVE  \A r \in Tracker!Requests : Places(r)'
<1> USE DEF Tracker!TypeOK, Tracker!page, Tracker!ingest, Tracker!sink, Places
<1>0. Tracker!TypeOK /\ \A r \in Tracker!Requests : Places(r)
  BY DEF TrackerInv
<1>1. ASSUME UNCHANGED <<ingestPc, fresh, mine, message, taken, handler>>
      PROVE  \A r \in Tracker!Requests : Places(r)'
  BY <1>0, <1>1
<1>2. ASSUME NEW e \in Events, Tracker!ClaimExpires(e) \/ Tracker!MarkExpires(e)
      PROVE  \A r \in Tracker!Requests : Places(r)'
  BY <1>1, <1>2 DEF Tracker!ClaimExpires, Tracker!MarkExpires
\* A flush posts a request that was not made yet.
<1>3. ASSUME NEW events, Tracker!Flush(events), UNCHANGED <<fresh, mine, message, Tracker!sink>>
      PROVE  \A r \in Tracker!Requests : Places(r)'
  BY <1>0, <1>1, <1>3 DEF Tracker!Flush, Tracker!Requests
<1>4. ASSUME NEW e \in Events, Tracker!Track(e)
      PROVE  \A r \in Tracker!Requests : Places(r)'
  BY <1>1, <1>3, <1>4 DEF Tracker!Track
<1>5. CASE Tracker!FlushNow
  BY <1>3, <1>5 DEF Tracker!FlushNow
<1>6. ASSUME NEW r \in Repeats, NEW q \in Posts, Tracker!Repeat(r, q)
      PROVE  \A s \in Tracker!Requests : Places(s)'
  BY <1>0, <1>6 DEF Tracker!Repeat, Tracker!Requests
<1> SUFFICES ASSUME NEW r \in Tracker!Requests,
                    \/ Tracker!Ingest(r) \/ Tracker!Lost(r) \/ Tracker!ClaimFails(r)
                    \/ Tracker!PublishFails(r) \/ Tracker!SettleFails(r)
                    \/ Tracker!Handle(r) \/ Tracker!TakeFails(r) \/ Tracker!InsertFails(r)
                    \/ Tracker!ExtendFails(r) \/ Tracker!WorkerStops(r)
             PROVE  \A s \in Tracker!Requests : Places(s)'
  BY <1>2, <1>4, <1>5, <1>6 DEF Tracker!Next
<1>7. CASE Tracker!Claim(r)
  BY <1>0, <1>7 DEF Tracker!Claim, Tracker!Free
<1>8. CASE Tracker!ClaimFails(r)
  BY <1>0, <1>8 DEF Tracker!ClaimFails
<1>9. CASE Tracker!Publish(r) \/ Tracker!PublishFails(r)
  BY <1>0, <1>9 DEF Tracker!Publish, Tracker!PublishFails
<1>10. CASE Tracker!Settle(r) \/ Tracker!SettleFails(r) \/ Tracker!Lost(r)
  BY <1>0, <1>10 DEF Tracker!Settle, Tracker!SettleFails, Tracker!Lost
<1>11. CASE Tracker!Take(r)
  BY <1>0, <1>11 DEF Tracker!Take, Tracker!Unmarked
<1>12. CASE Tracker!Insert(r) \/ Tracker!Extend(r) \/ Tracker!ExtendFails(r)
  BY <1>0, <1>12 DEF Tracker!Insert, Tracker!Extend, Tracker!ExtendFails
<1>13. CASE Tracker!Ack(r)
  BY <1>0, <1>13 DEF Tracker!Ack
<1>14. ASSUME Tracker!Redelivered(r), message[r] # "none",
              UNCHANGED <<ingestPc, fresh, mine>>
       PROVE  \A s \in Tracker!Requests : Places(s)'
  <2>1. Places(r)'
    BY <1>0, <1>14 DEF Tracker!Redelivered
  <2>2. ASSUME NEW s \in Tracker!Requests, s # r PROVE Places(s)'
    BY <1>0, <1>14, <2>2 DEF Tracker!Redelivered
  <2> QED
    BY <2>1, <2>2
<1>15. CASE Tracker!TakeFails(r) \/ Tracker!InsertFails(r) \/ Tracker!WorkerStops(r)
  BY <1>0, <1>14, <1>15
     DEF Tracker!TakeFails, Tracker!InsertFails, Tracker!WorkerStops
<1> QED
  BY <1>7, <1>8, <1>9, <1>10, <1>11, <1>12, <1>13, <1>15
     DEF Tracker!Ingest, Tracker!Handle

LEMMA TrackerSeen ==
    ASSUME TrackerInv, Tracker!Next PROVE Tracker!SeenIsPublished'
<1> USE PartsAssumption
    DEF PartsAssumption, Tracker!TrackingAssumption, Tracker!TypeOK, Tracker!page,
        Tracker!ingest, Tracker!sink, Tracker!SeenIsPublished
<1>0. /\ Tracker!TypeOK /\ Tracker!SeenIsPublished
      /\ \A r \in Tracker!Requests : Places(r)
      /\ Tracker!Seen \notin Tracker!Requests /\ Tracker!Seen # Tracker!Nobody
  BY DEF TrackerInv, Tracker!Seen, Tracker!Nobody
\* A published message is not forgotten, nor what it carries.
<1>1. ASSUME NEW r \in Tracker!Requests, message[r] # "none"
      PROVE  message'[r] # "none" /\ fresh'[r] = fresh[r]
  <2>0. ingestPc[r] \notin {"none", "posted", "publish"}
    BY <1>0, <1>1 DEF Places
  <2>1. ASSUME NEW e \in Events,
               Tracker!Track(e) \/ Tracker!ClaimExpires(e) \/ Tracker!MarkExpires(e)
        PROVE  message'[r] # "none" /\ fresh'[r] = fresh[r]
    BY <1>1, <2>1 DEF Tracker!Track, Tracker!ClaimExpires, Tracker!MarkExpires
  <2>2. CASE \/ Tracker!FlushNow
             \/ \E s \in Repeats, q \in Posts : Tracker!Repeat(s, q)
    BY <1>1, <2>2 DEF Tracker!FlushNow, Tracker!Repeat
  <2>3. ASSUME NEW q \in Tracker!Requests,
               \/ Tracker!Ingest(q) \/ Tracker!Lost(q) \/ Tracker!ClaimFails(q)
               \/ Tracker!PublishFails(q) \/ Tracker!SettleFails(q)
        PROVE  message'[r] # "none" /\ fresh'[r] = fresh[r]
    BY <1>0, <1>1, <2>0, <2>3
       DEF Tracker!Ingest, Tracker!Claim, Tracker!Publish, Tracker!Settle, Tracker!Lost,
           Tracker!ClaimFails, Tracker!PublishFails, Tracker!SettleFails
  <2>4. ASSUME NEW q \in Tracker!Requests,
               \/ Tracker!Handle(q) \/ Tracker!TakeFails(q) \/ Tracker!InsertFails(q)
               \/ Tracker!ExtendFails(q) \/ Tracker!WorkerStops(q)
        PROVE  message'[r] # "none" /\ fresh'[r] = fresh[r]
    BY <1>0, <1>1, <2>4
       DEF Tracker!Handle, Tracker!Take, Tracker!Insert, Tracker!Extend, Tracker!Ack,
           Tracker!TakeFails, Tracker!InsertFails, Tracker!ExtendFails,
           Tracker!WorkerStops, Tracker!Redelivered
  <2> QED
    BY <2>1, <2>2, <2>3, <2>4 DEF Tracker!Next
<1>2. ASSUME NEW e \in Events, seen'[e] = Tracker!Seen, seen[e] # Tracker!Seen
      PROVE  \E r \in Tracker!Requests : message'[r] # "none" /\ e \in fresh'[r]
  <2>1. ASSUME NEW f \in Events,
               Tracker!Track(f) \/ Tracker!ClaimExpires(f) \/ Tracker!MarkExpires(f)
        PROVE  FALSE
    BY <1>0, <1>2, <2>1 DEF Tracker!Track, Tracker!ClaimExpires, Tracker!MarkExpires
  <2>2. CASE \/ Tracker!FlushNow
             \/ \E s \in Repeats, q \in Posts : Tracker!Repeat(s, q)
    BY <1>2, <2>2 DEF Tracker!FlushNow, Tracker!Repeat
  <2>3. ASSUME NEW r \in Tracker!Requests, Tracker!Claim(r) \/ Tracker!ClaimFails(r)
        PROVE  FALSE
    BY <1>0, <1>2, <2>3 DEF Tracker!Claim, Tracker!ClaimFails
  <2>4. ASSUME NEW r \in Tracker!Requests,
               \/ Tracker!Publish(r) \/ Tracker!Lost(r) \/ Tracker!PublishFails(r)
               \/ Tracker!SettleFails(r)
               \/ Tracker!Handle(r) \/ Tracker!TakeFails(r) \/ Tracker!InsertFails(r)
               \/ Tracker!ExtendFails(r) \/ Tracker!WorkerStops(r)
        PROVE  FALSE
    BY <1>2, <2>4
       DEF Tracker!Publish, Tracker!Lost, Tracker!PublishFails, Tracker!SettleFails,
           Tracker!Handle, Tracker!Take, Tracker!Insert, Tracker!Extend, Tracker!Ack,
           Tracker!TakeFails, Tracker!InsertFails, Tracker!ExtendFails,
           Tracker!WorkerStops
  <2>5. PICK r \in Tracker!Requests : Tracker!Settle(r)
    BY <2>1, <2>2, <2>3, <2>4, <1>2 DEF Tracker!Next, Tracker!Ingest,
       Tracker!FlushNow, Tracker!Repeat
  <2>6. ingestPc[r] = "extend" /\ e \in mine[r]
    BY <1>0, <1>2, <2>5 DEF Tracker!Settle
  <2> QED
    BY <1>0, <1>1, <2>6 DEF Places
<1> QED
  BY <1>0, <1>1, <1>2

LEMMA TrackerMarks ==
    ASSUME TrackerInv, Tracker!Next
    PROVE  /\ \A r \in Tracker!Requests : Takes(r)'
           /\ \A e \in Events : MarkTells(e)'
<1> USE PartsAssumption
    DEF PartsAssumption, Tracker!TrackingAssumption, Tracker!TypeOK, Tracker!page,
        Tracker!ingest, Tracker!sink, Tracker!Seen, Tracker!Nobody
<1>0. /\ Tracker!TypeOK
      /\ \A r \in Tracker!Requests : Places(r) /\ Takes(r)
      /\ \A e \in Events : MarkTells(e)
  BY DEF TrackerInv
<1>1. ASSUME UNCHANGED Tracker!sink
      PROVE  /\ \A r \in Tracker!Requests : Takes(r)'
             /\ \A e \in Events : MarkTells(e)'
  BY <1>0, <1>1 DEF Takes, MarkTells
<1>2. ASSUME NEW e \in Events, Tracker!MarkExpires(e)
      PROVE  /\ \A r \in Tracker!Requests : Takes(r)'
             /\ \A f \in Events : MarkTells(f)'
  BY <1>0, <1>2 DEF Tracker!MarkExpires, Takes, MarkTells
<1> SUFFICES ASSUME NEW r \in Tracker!Requests,
                    \/ Tracker!Handle(r) \/ Tracker!TakeFails(r) \/ Tracker!InsertFails(r)
                    \/ Tracker!ExtendFails(r) \/ Tracker!WorkerStops(r)
             PROVE  /\ \A q \in Tracker!Requests : Takes(q)'
                    /\ \A e \in Events : MarkTells(e)'
  BY <1>1, <1>2
     DEF Tracker!Next, Tracker!Track, Tracker!ClaimExpires, Tracker!FlushNow,
         Tracker!Repeat, Tracker!Ingest, Tracker!Claim, Tracker!Publish, Tracker!Settle,
         Tracker!Lost, Tracker!ClaimFails, Tracker!PublishFails, Tracker!SettleFails
<1>3. CASE Tracker!Take(r)
  <2>1. ASSUME NEW q \in Tracker!Requests PROVE Takes(q)'
    BY <1>0, <1>3 DEF Tracker!Take, Tracker!Unmarked, Takes, Places
  <2>2. ASSUME NEW e \in Events PROVE MarkTells(e)'
    BY <1>0, <1>3 DEF Tracker!Take, Tracker!Unmarked, MarkTells, Places
  <2> QED
    BY <2>1, <2>2
<1>4. CASE Tracker!Insert(r)
  <2>1. ASSUME NEW q \in Tracker!Requests PROVE Takes(q)'
    BY <1>0, <1>4 DEF Tracker!Insert, Tracker!Written, Takes
  <2>2. ASSUME NEW e \in Events PROVE MarkTells(e)'
    BY <1>0, <1>4 DEF Tracker!Insert, Tracker!Written, MarkTells, Takes
  <2> QED
    BY <2>1, <2>2
<1>5. CASE Tracker!Extend(r) \/ Tracker!ExtendFails(r)
  <2>1. ASSUME NEW q \in Tracker!Requests PROVE Takes(q)'
    BY <1>0, <1>5 DEF Tracker!Extend, Tracker!ExtendFails, Takes
  <2>2. ASSUME NEW e \in Events PROVE MarkTells(e)'
    BY <1>0, <1>5 DEF Tracker!Extend, Tracker!ExtendFails, MarkTells, Takes
  <2> QED
    BY <2>1, <2>2
<1>6. CASE Tracker!Ack(r) \/ Tracker!TakeFails(r)
  <2>1. handler[r] \in {"none", "ack"}
    BY <1>0, <1>6 DEF Tracker!Ack, Tracker!TakeFails, Places
  <2>2. handler'[r] = "none" /\ taken'[r] = {} /\ UNCHANGED <<mark, rows, doubtful>>
    BY <1>0, <1>6 DEF Tracker!Ack, Tracker!TakeFails, Tracker!Redelivered
  <2>3. \A q \in Tracker!Requests \ {r} : handler'[q] = handler[q] /\ taken'[q] = taken[q]
    BY <1>0, <1>6 DEF Tracker!Ack, Tracker!TakeFails, Tracker!Redelivered
  <2> QED
    BY <1>0, <2>1, <2>2, <2>3 DEF Takes, MarkTells
<1>7. CASE Tracker!InsertFails(r)
  <2>1. PICK took, released \in BOOLEAN :
          /\ rows' = IF took THEN Tracker!Written(r) ELSE rows
          /\ mark' = IF released
                     THEN [e \in Events |-> IF e \in taken[r] THEN Tracker!Nobody
                                            ELSE mark[e]]
                     ELSE mark
          /\ doubtful' = IF took \/ ~released THEN doubtful \cup taken[r] ELSE doubtful
    BY <1>7 DEF Tracker!InsertFails
  <2>2. /\ handler[r] = "insert" /\ handler'[r] = "none" /\ taken'[r] = {}
        /\ \A q \in Tracker!Requests \ {r} :
              handler'[q] = handler[q] /\ taken'[q] = taken[q]
    BY <1>0, <1>7 DEF Tracker!InsertFails, Tracker!Redelivered
  <2>3. ASSUME NEW e \in Events, e \notin taken[r]
        PROVE  rows'[e] = rows[e] /\ mark'[e] = mark[e] /\ (e \in doubtful' <=> e \in doubtful)
    BY <1>0, <2>1, <2>3 DEF Tracker!Written
  <2>4. ASSUME NEW e \in Events, e \in taken[r]
        PROVE  \/ e \in doubtful'
               \/ rows'[e] = rows[e] /\ mark'[e] = Tracker!Nobody
    BY <1>0, <2>1, <2>4
  <2>5. ASSUME NEW q \in Tracker!Requests PROVE Takes(q)'
    BY <1>0, <2>2, <2>3 DEF Takes
  <2>6. ASSUME NEW e \in Events PROVE MarkTells(e)'
    <3>1. CASE e \in taken[r]
      <4>1. mark[e] = r /\ (e \in doubtful \/ rows[e] = 0)
        BY <1>0, <2>2, <3>1 DEF Takes, MarkTells
      <4> QED
        BY <1>0, <2>1, <2>4, <3>1, <4>1 DEF MarkTells
    <3>2. CASE e \notin taken[r]
      <4>1. e \in doubtful \/ mark[e] # r
        BY <1>0, <3>2 DEF MarkTells
      <4> QED
        BY <1>0, <2>2, <2>3, <3>2, <4>1 DEF MarkTells
    <3> QED
      BY <3>1, <3>2
  <2> QED
    BY <2>5, <2>6
<1>8. CASE Tracker!WorkerStops(r)
  <2>1. /\ handler'[r] = "none" /\ taken'[r] = {} /\ UNCHANGED rows
        /\ \A q \in Tracker!Requests \ {r} :
              handler'[q] = handler[q] /\ taken'[q] = taken[q]
        /\ \A e \in Events : mark'[e] = IF mark[e] = r THEN Tracker!Nobody ELSE mark[e]
        /\ doubtful' = IF handler[r] = "extend" THEN doubtful \cup taken[r] ELSE doubtful
    BY <1>0, <1>8 DEF Tracker!WorkerStops, Tracker!Redelivered
  <2>2. ASSUME NEW q \in Tracker!Requests PROVE Takes(q)'
    BY <1>0, <2>1 DEF Takes
  <2>3. ASSUME NEW e \in Events PROVE MarkTells(e)'
    BY <1>0, <2>1 DEF Takes, MarkTells
  <2> QED
    BY <2>2, <2>3
<1> QED
  BY <1>3, <1>4, <1>5, <1>6, <1>7, <1>8 DEF Tracker!Handle

\* What is stored stays stored, and what is not known stays so.
LEMMA StoredStays ==
    ASSUME Tracker!TypeOK, Tracker!Next
    PROVE  doubtful \subseteq doubtful' /\ \A e \in Events : rows[e] > 0 => rows'[e] > 0
<1> USE DEF Tracker!TypeOK, Tracker!page, Tracker!ingest, Tracker!sink
<1>1. ASSUME NEW r \in Tracker!Requests, Tracker!Insert(r) \/ Tracker!InsertFails(r)
      PROVE  doubtful \subseteq doubtful' /\ \A e \in Events : rows[e] > 0 => rows'[e] > 0
  BY <1>1 DEF Tracker!Insert, Tracker!InsertFails, Tracker!Written
<1>2. ASSUME NEW r \in Tracker!Requests,
             \/ Tracker!Take(r) \/ Tracker!Extend(r) \/ Tracker!Ack(r)
             \/ Tracker!TakeFails(r) \/ Tracker!ExtendFails(r) \/ Tracker!WorkerStops(r)
      PROVE  UNCHANGED rows /\ doubtful \subseteq doubtful'
  BY <1>2
     DEF Tracker!Take, Tracker!Extend, Tracker!Ack, Tracker!TakeFails,
         Tracker!ExtendFails, Tracker!WorkerStops
<1>3. ASSUME NEW e \in Events,
             Tracker!Track(e) \/ Tracker!ClaimExpires(e) \/ Tracker!MarkExpires(e)
      PROVE  UNCHANGED <<rows, doubtful>>
  BY <1>3 DEF Tracker!Track, Tracker!ClaimExpires, Tracker!MarkExpires
<1>4. CASE Tracker!FlushNow \/ \E s \in Repeats, q \in Posts : Tracker!Repeat(s, q)
  BY <1>4 DEF Tracker!FlushNow, Tracker!Repeat
<1>5. ASSUME NEW r \in Tracker!Requests,
             \/ Tracker!Ingest(r) \/ Tracker!Lost(r) \/ Tracker!ClaimFails(r)
             \/ Tracker!PublishFails(r) \/ Tracker!SettleFails(r)
      PROVE  UNCHANGED <<rows, doubtful>>
  BY <1>5
     DEF Tracker!Ingest, Tracker!Claim, Tracker!Publish, Tracker!Settle, Tracker!Lost,
         Tracker!ClaimFails, Tracker!PublishFails, Tracker!SettleFails
<1> QED
  BY <1>1, <1>2, <1>3, <1>4, <1>5 DEF Tracker!Next, Tracker!Handle

\* A message that is queued, dead or being inserted is lost by nobody: its
\* events stay live whatever happens to it.
LEMMA LiveStays ==
    ASSUME TrackerInv, Tracker!Next, NEW e \in Events, Live(e) PROVE Live(e)'
<1> USE PartsAssumption
    DEF PartsAssumption, Tracker!TrackingAssumption, Tracker!TypeOK, Tracker!page,
        Tracker!ingest, Tracker!sink, Tracker!Seen, Tracker!Nobody
<1>0. /\ Tracker!TypeOK
      /\ \A r \in Tracker!Requests : Places(r) /\ Takes(r)
      /\ MarkTells(e)
  BY DEF TrackerInv
<1>1. CASE e \in doubtful \/ rows[e] > 0
  BY <1>0, <1>1, StoredStays DEF Live
<1> SUFFICES ASSUME e \notin doubtful', ~(rows'[e] > 0), NEW q \in Tracker!Requests,
                    e \in fresh[q],
                    \/ message[q] \in {"queued", "dead"}
                    \/ handler[q] = "insert" /\ e \in taken[q]
             PROVE  Live(e)'
  BY <1>1 DEF Live
<1>a. e \notin doubtful /\ ~(rows[e] > 0) /\ rows[e] = 0
  BY <1>0, StoredStays
<1>b. ingestPc[q] \notin {"none", "posted", "publish"}
  BY <1>0 DEF Places
\* A step that leaves the message and its handler alone.
<1>2. ASSUME fresh'[q] = fresh[q], message'[q] = message[q], handler'[q] = handler[q],
             taken'[q] = taken[q]
      PROVE  Live(e)'
  BY <1>2 DEF Live
<1>3. ASSUME NEW f \in Events,
             Tracker!Track(f) \/ Tracker!ClaimExpires(f) \/ Tracker!MarkExpires(f)
      PROVE  Live(e)'
  BY <1>2, <1>3 DEF Tracker!Track, Tracker!ClaimExpires, Tracker!MarkExpires
<1>4. CASE Tracker!FlushNow \/ \E s \in Repeats, t \in Posts : Tracker!Repeat(s, t)
  BY <1>2, <1>4 DEF Tracker!FlushNow, Tracker!Repeat
<1>5. ASSUME NEW r \in Tracker!Requests,
             \/ Tracker!Ingest(r) \/ Tracker!Lost(r) \/ Tracker!ClaimFails(r)
             \/ Tracker!PublishFails(r) \/ Tracker!SettleFails(r)
      PROVE  Live(e)'
  BY <1>0, <1>2, <1>5, <1>b
     DEF Tracker!Ingest, Tracker!Claim, Tracker!Publish, Tracker!Settle, Tracker!Lost,
         Tracker!ClaimFails, Tracker!PublishFails, Tracker!SettleFails
<1> SUFFICES ASSUME NEW r \in Tracker!Requests,
                    \/ Tracker!Handle(r) \/ Tracker!TakeFails(r) \/ Tracker!InsertFails(r)
                    \/ Tracker!ExtendFails(r) \/ Tracker!WorkerStops(r)
             PROVE  Live(e)'
  BY <1>3, <1>4, <1>5 DEF Tracker!Next
<1>6. UNCHANGED fresh
  BY DEF Tracker!Handle, Tracker!Take, Tracker!Insert, Tracker!Extend, Tracker!Ack,
         Tracker!TakeFails, Tracker!InsertFails, Tracker!ExtendFails,
         Tracker!WorkerStops
<1>7. CASE r # q
  BY <1>0, <1>2, <1>6, <1>7
     DEF Tracker!Handle, Tracker!Take, Tracker!Insert, Tracker!Extend, Tracker!Ack,
         Tracker!TakeFails, Tracker!InsertFails, Tracker!ExtendFails,
         Tracker!WorkerStops, Tracker!Redelivered
<1>8. CASE r = q
  <2>1. CASE Tracker!Take(q)
    <3>1. CASE mark[e] = Tracker!Nobody
      BY <1>0, <1>6, <2>1, <3>1 DEF Tracker!Take, Tracker!Unmarked, Live
    <3>2. CASE mark[e] # Tracker!Nobody
      \* The claim is another's, which inserts it.
      <4>1. /\ mark[e] \in Tracker!Requests /\ e \in taken[mark[e]]
            /\ handler[mark[e]] = "insert"
        BY <1>0, <1>a, <3>2 DEF MarkTells, Takes
      <4>2. mark[e] # q
        BY <1>0, <2>1, <4>1 DEF Tracker!Take, Places
      <4>3. /\ handler'[mark[e]] = "insert" /\ taken'[mark[e]] = taken[mark[e]]
            /\ e \in fresh'[mark[e]]
        BY <1>0, <1>6, <2>1, <4>1, <4>2 DEF Tracker!Take, Places
      <4> QED
        BY <4>1, <4>3 DEF Live
    <3> QED
      BY <3>1, <3>2
  <2>2. CASE Tracker!Insert(q)
    BY <1>0, <1>a, <2>2 DEF Tracker!Insert, Tracker!Written, Places
  <2>3. CASE Tracker!Extend(q) \/ Tracker!ExtendFails(q) \/ Tracker!Ack(q)
    BY <1>0, <2>3 DEF Tracker!Extend, Tracker!ExtendFails, Tracker!Ack, Places
  <2>4. CASE Tracker!TakeFails(q) \/ Tracker!InsertFails(q) \/ Tracker!WorkerStops(q)
    <3>1. message'[q] \in {"queued", "dead"}
      BY <1>0, <2>4
         DEF Tracker!TakeFails, Tracker!InsertFails, Tracker!WorkerStops,
             Tracker!Redelivered
    <3> QED
      BY <1>6, <3>1 DEF Live
  <2> QED
    BY <1>8, <2>1, <2>2, <2>3, <2>4 DEF Tracker!Handle
<1> QED
  BY <1>7, <1>8

LEMMA TrackerLive ==
    ASSUME TrackerInv, Tracker!Next
    PROVE  \A r \in Tracker!Requests : message'[r] # "none" => \A e \in fresh'[r] : Live(e)'
<1> USE DEF Tracker!TypeOK, Tracker!page, Tracker!ingest, Tracker!sink
<1>0. /\ Tracker!TypeOK
      /\ \A r \in Tracker!Requests : Places(r)
      /\ \A r \in Tracker!Requests : message[r] # "none" => \A e \in fresh[r] : Live(e)
  BY DEF TrackerInv
<1> SUFFICES ASSUME NEW r \in Tracker!Requests, message'[r] # "none",
                    NEW e \in fresh'[r]
             PROVE  Live(e)'
  OBVIOUS
<1>1. e \in Events
  BY TrackerTypes DEF TrackerInv
<1>2. CASE message[r] # "none" /\ e \in fresh[r]
  BY <1>0, <1>1, <1>2, LiveStays
<1>3. ASSUME message'[r] = "queued" PROVE Live(e)'
  BY <1>3 DEF Live
<1>4. CASE message[r] = "none"
  <2>1. ASSUME NEW q \in Tracker!Requests,
               \/ Tracker!Ingest(q) \/ Tracker!Lost(q) \/ Tracker!ClaimFails(q)
               \/ Tracker!PublishFails(q) \/ Tracker!SettleFails(q)
        PROVE  message'[r] = "queued"
    BY <1>0, <1>4, <2>1
       DEF Tracker!Ingest, Tracker!Claim, Tracker!Publish, Tracker!Settle, Tracker!Lost,
           Tracker!ClaimFails, Tracker!PublishFails, Tracker!SettleFails
  <2>2. ASSUME NEW q \in Tracker!Requests,
               \/ Tracker!Handle(q) \/ Tracker!TakeFails(q) \/ Tracker!InsertFails(q)
               \/ Tracker!ExtendFails(q) \/ Tracker!WorkerStops(q)
        PROVE  FALSE
    BY <1>0, <1>4, <2>2
       DEF Tracker!Handle, Tracker!Take, Tracker!Insert, Tracker!Extend, Tracker!Ack,
           Tracker!TakeFails, Tracker!InsertFails, Tracker!ExtendFails,
           Tracker!WorkerStops, Tracker!Redelivered, Places
  <2>3. ASSUME NEW f \in Events,
               Tracker!Track(f) \/ Tracker!ClaimExpires(f) \/ Tracker!MarkExpires(f)
        PROVE  FALSE
    BY <1>4, <2>3 DEF Tracker!Track, Tracker!ClaimExpires, Tracker!MarkExpires
  <2> QED
    BY <1>3, <1>4, <2>1, <2>2, <2>3
       DEF Tracker!Next, Tracker!FlushNow, Tracker!Repeat
<1>5. CASE message[r] # "none"
  <2>1. ingestPc[r] \notin {"none", "posted", "publish"}
    BY <1>0, <1>5 DEF Places
  <2>2. fresh'[r] = fresh[r]
    <3>1. ASSUME NEW q \in Tracker!Requests, Tracker!Claim(q) \/ Tracker!ClaimFails(q)
          PROVE  fresh'[r] = fresh[r]
      BY <1>0, <2>1, <3>1 DEF Tracker!Claim, Tracker!ClaimFails
    <3> QED
      BY <3>1
         DEF Tracker!Next, Tracker!Track, Tracker!ClaimExpires, Tracker!MarkExpires,
             Tracker!FlushNow, Tracker!Repeat, Tracker!Ingest, Tracker!Publish,
             Tracker!Settle, Tracker!Lost, Tracker!PublishFails, Tracker!SettleFails,
             Tracker!Handle, Tracker!Take, Tracker!Insert, Tracker!Extend, Tracker!Ack,
             Tracker!TakeFails, Tracker!InsertFails, Tracker!ExtendFails,
             Tracker!WorkerStops
  <2> QED
    BY <1>2, <1>5, <2>2
<1> QED
  BY <1>4, <1>5

LEMMA TrackerStep == TrackerInv /\ [Tracker!Next]_trackVars => TrackerInv'
<1>1. ASSUME TrackerInv, Tracker!Next PROVE TrackerInv'
  <2>1. Tracker!TypeOK' /\ OnePlace'
    BY <1>1, TrackerTypes, StepKeepsPlaces DEF TrackerInv
  <2> QED
    BY <1>1, <2>1, TrackerPlaces, TrackerMarks, TrackerSeen, TrackerLive DEF TrackerInv
<1>2. ASSUME TrackerInv, UNCHANGED trackVars PROVE TrackerInv'
  BY <1>2
     DEF trackVars, TrackerInv, Tracker!TypeOK, OnePlace, Places, Takes, MarkTells,
         Tracker!SeenIsPublished, Live
<1> QED
  BY <1>1, <1>2

\* One row per event, and none is forgotten.
LEMMA TrackerKeeps ==
    TrackerInv =>
        /\ Tracker!BatchedOnce /\ Tracker!SeenIsPublished /\ Tracker!AckedIsStored
        /\ Tracker!OneRow
<1> SUFFICES ASSUME TrackerInv
             PROVE  /\ Tracker!BatchedOnce /\ Tracker!SeenIsPublished
                    /\ Tracker!AckedIsStored /\ Tracker!OneRow
  OBVIOUS
<1>1. Tracker!BatchedOnce /\ Tracker!SeenIsPublished
  BY BatchedOnceFromPlaces DEF TrackerInv
<1>2. Tracker!OneRow
  BY DEF TrackerInv, MarkTells, Tracker!OneRow
<1>3. Tracker!AckedIsStored
  BY DEF TrackerInv, Live, Places, Tracker!AckedIsStored
<1> QED
  BY <1>1, <1>2, <1>3

-----------------------------------------------------------------------------
(* The subscriptions of a started consumer.                                *)

\* A subscription that is over: no consumer and no loop of it lives.
Quiet(s) == ~Pulsar!Connected(s) /\ loop[s] \in {"off", "over"}

\* Nothing is made beyond the last subscription, and those before it are over.
OnlyLastLives ==
    \A s \in Pulsar!Subs :
        /\ s > made => consumer[s] = "none" /\ loop[s] = "off" /\ closings[s] = "no"
        /\ s # made => Quiet(s)

\* What stopped or was closed is over.
StoppedIsQuiet(s) ==
    /\ closings[s] \in {"loop", "done"} => consumer[s] = "closed"
    /\ closings[s] = "done" => loop[s] = "over"
    /\ stopped[s] => consumer[s] = "closed" /\ loop[s] = "over"

\* Where RunningConsumer is.  It subscribes, waits to do so, or is closed only
\* when the last subscription is over.
RunnerPlaces ==
    /\ connecting # "none" => sub = 0
    /\ connecting \in {"subscribed", "closing"} => made > 0
    /\ retry => connecting = "none" /\ sub = 0 /\ closer = "no"
    /\ closer \in {"sub", "done"} => connecting = "none" /\ sub = 0
    /\ closer = "sub" => made > 0
    /\ sub = 0 /\ connecting \in {"none", "subscribing"} /\ closer # "sub" =>
           \A s \in Pulsar!Subs : Quiet(s)

PulsarInv ==
    /\ Pulsar!TypeOK
    /\ OnlyLastLives
    /\ \A s \in Pulsar!Subs : StoppedIsQuiet(s)
    /\ RunnerPlaces

\* What the broker takes back.
LEMMA GiveBackTypes ==
    ASSUME Pulsar!TypeOK, NEW ms, Pulsar!GiveBack(ms)
    PROVE  /\ at' \in [Messages -> Pulsar!Subs \cup {Pulsar!Queued, Pulsar!Acked, Pulsar!Dead}]
           /\ tries' \in [Messages -> 0..MaxRedeliveries]
BY PartsAssumption
   DEF PartsAssumption, Pulsar!SubscriptionAssumption, Pulsar!TypeOK, Pulsar!GiveBack

LEMMA PulsarTypes ==
    ASSUME PulsarInv, Pulsar!Next PROVE Pulsar!TypeOK'
<1> USE PartsAssumption
    DEF PartsAssumption, Pulsar!SubscriptionAssumption, Pulsar!MessagesAssumption,
        Pulsar!TypeOK, Pulsar!Subs, Pulsar!LoopSteps, Pulsar!CloseSteps,
        Pulsar!None, Pulsar!runner, Pulsar!pulsar, Pulsar!broker, Pulsar!Loop
<1>0. Pulsar!TypeOK
  BY DEF PulsarInv
<1>1. CASE Pulsar!Subscribed
  <2>1. /\ made + 1 \in 1..MaxSubs /\ made' = made + 1 /\ sub = 0
        /\ msg[made + 1] = "none"
    BY <1>0, <1>1 DEF Pulsar!Subscribed, PulsarInv, RunnerPlaces, OnlyLastLives
  <2> QED
    BY <1>0, <1>1, <2>1 DEF Pulsar!Subscribed
<1>2. CASE Pulsar!SubscribeFails
  <2>1. retry' \in BOOLEAN
    BY <1>0, <1>2 DEF Pulsar!SubscribeFails, Pulsar!RetryAfter
  <2> QED
    BY <1>0, <1>2, <2>1 DEF Pulsar!SubscribeFails
<1>3. CASE Pulsar!Connect
  <2>1. /\ running' \in [Pulsar!Subs -> BOOLEAN]
        /\ closings' \in [Pulsar!Subs -> Pulsar!CloseSteps]
    BY <1>0, <1>3 DEF Pulsar!Connect, Pulsar!CloseSub
  <2> QED
    BY <1>0, <1>3, <2>1 DEF Pulsar!Connect
<1>15. CASE Pulsar!LateClosed
  BY <1>0, <1>15 DEF Pulsar!LateClosed
<1>4. CASE Pulsar!TimerFires
  BY <1>0, <1>4 DEF Pulsar!TimerFires
<1>16. CASE Pulsar!Close
  BY <1>0, <1>16 DEF Pulsar!Close, Pulsar!CloseSub
<1>17. CASE Pulsar!CloseHeld
  BY <1>0, <1>17 DEF Pulsar!CloseHeld, Pulsar!CloseSub
<1>18. CASE Pulsar!Closed
  BY <1>0, <1>18 DEF Pulsar!Closed
<1>5. ASSUME NEW s \in Pulsar!Subs, Pulsar!Stopped(s) PROVE Pulsar!TypeOK'
  BY <1>0, <1>5 DEF Pulsar!Stopped, Pulsar!RetryAfter
<1>6. ASSUME NEW s \in Pulsar!Subs, Pulsar!Resolve(s) PROVE Pulsar!TypeOK'
  <2>1. at' \in [Messages -> Pulsar!Subs \cup {Pulsar!Queued, Pulsar!Acked, Pulsar!Dead}]
    BY <1>0, <1>6 DEF Pulsar!Resolve
  <2> QED
    BY <1>0, <1>6, <2>1 DEF Pulsar!Resolve, Pulsar!Handled
<1>7. ASSUME NEW s \in Pulsar!Subs, Pulsar!Throw(s) PROVE Pulsar!TypeOK'
  <2>1. /\ at' \in [Messages -> Pulsar!Subs \cup {Pulsar!Queued, Pulsar!Acked, Pulsar!Dead}]
        /\ tries' \in [Messages -> 0..MaxRedeliveries]
    BY <1>0, <1>7, GiveBackTypes DEF Pulsar!Throw
  <2> QED
    BY <1>0, <1>7, <2>1 DEF Pulsar!Throw, Pulsar!Handled
<1>8. ASSUME NEW s \in Pulsar!Subs, Pulsar!ConsumerGone(s)
      PROVE  /\ at' \in [Messages -> Pulsar!Subs \cup {Pulsar!Queued, Pulsar!Acked, Pulsar!Dead}]
             /\ tries' \in [Messages -> 0..MaxRedeliveries]
             /\ consumer' \in [Pulsar!Subs -> {"none", "open", "closing", "closed"}]
  BY <1>0, <1>8, GiveBackTypes DEF Pulsar!ConsumerGone
<1>9. ASSUME NEW s \in Pulsar!Subs, Pulsar!Closing(s) PROVE Pulsar!TypeOK'
  <2>1. CASE Pulsar!CloseConsumer(s)
    BY <1>0, <2>1 DEF Pulsar!CloseConsumer
  <2>2. CASE Pulsar!ConsumerClosed(s)
    BY <1>0, <1>8, <2>2 DEF Pulsar!ConsumerClosed
  <2>3. CASE Pulsar!SubClosed(s)
    BY <1>0, <2>3 DEF Pulsar!SubClosed
  <2> QED
    BY <1>9, <2>1, <2>2, <2>3 DEF Pulsar!Closing
<1>10. ASSUME NEW s \in Pulsar!Subs, Pulsar!ReceiveFails(s) PROVE Pulsar!TypeOK'
  BY <1>0, <1>10 DEF Pulsar!ReceiveFails
<1>11. ASSUME NEW s \in Pulsar!Subs, Pulsar!LoopStops(s) PROVE Pulsar!TypeOK'
  BY <1>0, <1>8, <1>11 DEF Pulsar!LoopStops
<1>12. ASSUME NEW s \in Pulsar!Subs, NEW m \in Messages, Pulsar!Receive(s, m)
       PROVE  Pulsar!TypeOK'
  BY <1>0, <1>12 DEF Pulsar!Receive
<1>13. ASSUME NEW s \in Pulsar!Subs, NEW m \in Messages, Pulsar!HoldOver(s, m)
       PROVE  Pulsar!TypeOK'
  <2>1. /\ at' \in [Messages -> Pulsar!Subs \cup {Pulsar!Queued, Pulsar!Acked, Pulsar!Dead}]
        /\ tries' \in [Messages -> 0..MaxRedeliveries]
    BY <1>0, <1>13, GiveBackTypes DEF Pulsar!HoldOver
  <2> QED
    BY <1>0, <1>13, <2>1 DEF Pulsar!HoldOver
<1>14. ASSUME NEW s \in Pulsar!Subs, NEW m \in Messages, Pulsar!AckTimeout(s, m)
       PROVE  Pulsar!TypeOK'
  BY <1>0, <1>14, GiveBackTypes DEF Pulsar!AckTimeout
<1> QED
  BY <1>1, <1>2, <1>3, <1>4, <1>5, <1>6, <1>7, <1>9, <1>10, <1>11, <1>12, <1>13, <1>14,
     <1>15, <1>16, <1>17, <1>18
     DEF Pulsar!Next, Pulsar!Connecting, Pulsar!Handler

LEMMA PulsarRunner ==
    ASSUME PulsarInv, Pulsar!Next
    PROVE  OnlyLastLives' /\ RunnerPlaces' /\ \A s \in Pulsar!Subs : StoppedIsQuiet(s)'
<1> USE DEF Pulsar!TypeOK, Pulsar!Subs, Pulsar!runner, Pulsar!pulsar, Pulsar!broker,
            Pulsar!Loop
<1>0. /\ Pulsar!TypeOK /\ OnlyLastLives /\ RunnerPlaces
      /\ \A s \in Pulsar!Subs : StoppedIsQuiet(s)
  BY DEF PulsarInv
\* The runner's own steps.
<1>1. CASE Pulsar!Subscribed
  BY <1>0, <1>1
     DEF Pulsar!Subscribed, OnlyLastLives, RunnerPlaces, StoppedIsQuiet, Quiet,
         Pulsar!Connected
<1>2. ASSUME UNCHANGED <<consumer, loop, stopped, made>>,
             \A s \in Pulsar!Subs :
                 s # made \/ closings'[s] \in {"loop", "done"} => closings'[s] = closings[s]
      PROVE  /\ OnlyLastLives' /\ \A s \in Pulsar!Subs : StoppedIsQuiet(s)'
             /\ \A s \in Pulsar!Subs : Quiet(s) <=> Quiet(s)'
  BY <1>0, <1>2 DEF OnlyLastLives, StoppedIsQuiet, Quiet, Pulsar!Connected
<1>3. CASE \/ Pulsar!SubscribeFails \/ Pulsar!Connect \/ Pulsar!LateClosed
           \/ Pulsar!TimerFires \/ Pulsar!Close \/ Pulsar!CloseHeld \/ Pulsar!Closed
           \/ \E s \in Pulsar!Subs : Pulsar!Stopped(s)
  <2>1. /\ UNCHANGED <<consumer, loop, stopped, made>>
        /\ \A s \in Pulsar!Subs :
               s # made \/ closings'[s] \in {"loop", "done"} => closings'[s] = closings[s]
    BY <1>0, <1>3
       DEF Pulsar!SubscribeFails, Pulsar!Connect, Pulsar!LateClosed, Pulsar!TimerFires,
           Pulsar!Close, Pulsar!CloseHeld, Pulsar!Closed, Pulsar!CloseSub, Pulsar!Stopped
  <2>2. /\ OnlyLastLives' /\ \A s \in Pulsar!Subs : StoppedIsQuiet(s)'
        /\ \A s \in Pulsar!Subs : Quiet(s) <=> Quiet(s)'
    BY <1>2, <2>1
  \* When the last subscription is over, all are.
  <2>3. made \in Pulsar!Subs /\ Quiet(made) => \A s \in Pulsar!Subs : Quiet(s)'
    BY <1>0, <2>2 DEF OnlyLastLives
  <2>4. \A s \in Pulsar!Subs : stopped[s] \/ closings[s] = "done" => Quiet(s)
    BY <1>0 DEF StoppedIsQuiet, Quiet, Pulsar!Connected
  <2>5. CASE Pulsar!SubscribeFails \/ Pulsar!TimerFires \/ Pulsar!Close
    BY <1>0, <2>2, <2>5
       DEF Pulsar!SubscribeFails, Pulsar!RetryAfter, Pulsar!TimerFires, Pulsar!Close,
           RunnerPlaces
  <2>6. CASE Pulsar!Connect
    BY <1>0, <2>2, <2>6 DEF Pulsar!Connect, RunnerPlaces
  <2>7. CASE Pulsar!LateClosed
    BY <1>0, <2>2, <2>3, <2>4, <2>7 DEF Pulsar!LateClosed, RunnerPlaces
  <2>8. CASE Pulsar!CloseHeld
    BY <1>0, <2>2, <2>8 DEF Pulsar!CloseHeld, RunnerPlaces
  <2>9. CASE Pulsar!Closed
    BY <1>0, <2>2, <2>3, <2>4, <2>9 DEF Pulsar!Closed, RunnerPlaces
  <2>10. ASSUME NEW s \in Pulsar!Subs, Pulsar!Stopped(s) PROVE RunnerPlaces'
    BY <1>0, <2>2, <2>3, <2>4, <2>10 DEF Pulsar!Stopped, Pulsar!RetryAfter, RunnerPlaces
  <2> QED
    BY <1>3, <2>2, <2>5, <2>6, <2>7, <2>8, <2>9, <2>10
\* The rest is a subscription's own work, which never brings one back.
<1>4. ASSUME UNCHANGED Pulsar!runner,
             \A s \in Pulsar!Subs : Quiet(s) => Quiet(s)',
             \A s \in Pulsar!Subs :
                 consumer[s] = "none" /\ loop[s] = "off" /\ closings[s] = "no" =>
                     consumer'[s] = "none" /\ loop'[s] = "off" /\ closings'[s] = "no"
      PROVE  OnlyLastLives' /\ RunnerPlaces'
  BY <1>0, <1>4 DEF OnlyLastLives, RunnerPlaces
<1> SUFFICES ASSUME NEW s \in Pulsar!Subs,
                    \/ Pulsar!Handler(s) \/ Pulsar!Closing(s) \/ Pulsar!ReceiveFails(s)
                    \/ Pulsar!LoopStops(s)
                    \/ \E m \in Messages :
                          \/ Pulsar!Receive(s, m) \/ Pulsar!HoldOver(s, m)
                          \/ Pulsar!AckTimeout(s, m)
             PROVE  /\ OnlyLastLives' /\ RunnerPlaces'
                    /\ \A t \in Pulsar!Subs : StoppedIsQuiet(t)'
  BY <1>1, <1>3 DEF Pulsar!Next, Pulsar!Connecting
<1>5. /\ UNCHANGED Pulsar!runner
      /\ \A t \in Pulsar!Subs \ {s} :
             /\ consumer'[t] = consumer[t] /\ loop'[t] = loop[t]
             /\ closings'[t] = closings[t] /\ stopped'[t] = stopped[t]
  BY <1>0
     DEF Pulsar!Handler, Pulsar!Resolve, Pulsar!Throw, Pulsar!Handled, Pulsar!Closing,
         Pulsar!CloseConsumer, Pulsar!ConsumerClosed, Pulsar!SubClosed,
         Pulsar!ConsumerGone, Pulsar!ReceiveFails, Pulsar!LoopStops, Pulsar!Receive,
         Pulsar!HoldOver, Pulsar!AckTimeout
<1>6. /\ StoppedIsQuiet(s)' /\ (Quiet(s) => Quiet(s)')
      /\ consumer[s] = "none" /\ loop[s] = "off" /\ closings[s] = "no" =>
             consumer'[s] = "none" /\ loop'[s] = "off" /\ closings'[s] = "no"
  <2> USE DEF StoppedIsQuiet, Quiet, Pulsar!Connected
  <2>1. CASE Pulsar!Handler(s) \/ Pulsar!ReceiveFails(s)
    BY <1>0, <2>1
       DEF Pulsar!Handler, Pulsar!Resolve, Pulsar!Throw, Pulsar!Handled,
           Pulsar!ReceiveFails
  <2>2. CASE Pulsar!Closing(s)
    BY <1>0, <2>2
       DEF Pulsar!Closing, Pulsar!CloseConsumer, Pulsar!ConsumerClosed, Pulsar!SubClosed,
           Pulsar!ConsumerGone
  <2>3. CASE Pulsar!LoopStops(s)
    BY <1>0, <2>3 DEF Pulsar!LoopStops, Pulsar!ConsumerGone
  <2>4. ASSUME NEW m \in Messages,
               \/ Pulsar!Receive(s, m) \/ Pulsar!HoldOver(s, m) \/ Pulsar!AckTimeout(s, m)
        PROVE  /\ StoppedIsQuiet(s)' /\ (Quiet(s) => Quiet(s)')
               /\ consumer[s] = "none" /\ loop[s] = "off" /\ closings[s] = "no" =>
                      consumer'[s] = "none" /\ loop'[s] = "off" /\ closings'[s] = "no"
    BY <1>0, <2>4 DEF Pulsar!Receive, Pulsar!HoldOver, Pulsar!AckTimeout
  <2> QED
    BY <2>1, <2>2, <2>3, <2>4
<1>7. \A t \in Pulsar!Subs \ {s} :
          StoppedIsQuiet(t)' /\ (Quiet(t) => Quiet(t)')
  BY <1>0, <1>5 DEF StoppedIsQuiet, Quiet, Pulsar!Connected
<1> QED
  BY <1>4, <1>5, <1>6, <1>7

LEMMA PulsarStep == PulsarInv /\ [Pulsar!Next]_pulsarVars => PulsarInv'
<1>1. ASSUME PulsarInv, Pulsar!Next PROVE PulsarInv'
  BY <1>1, PulsarTypes, PulsarRunner DEF PulsarInv
<1>2. ASSUME PulsarInv, UNCHANGED pulsarVars PROVE PulsarInv'
  BY <1>2
     DEF pulsarVars, PulsarInv, Pulsar!TypeOK, OnlyLastLives, StoppedIsQuiet,
         RunnerPlaces, Quiet, Pulsar!Connected
<1> QED
  BY <1>1, <1>2

\* One loop and one consumer at a time, and none once close() resolved.
LEMMA PulsarKeeps == PulsarInv => Pulsar!OneLoop /\ Pulsar!ClosedIsQuiet
<1> SUFFICES ASSUME PulsarInv PROVE Pulsar!OneLoop /\ Pulsar!ClosedIsQuiet
  OBVIOUS
<1>1. Pulsar!OneLoop
  BY DEF PulsarInv, OnlyLastLives, Quiet, Pulsar!OneLoop
<1>2. Pulsar!ClosedIsQuiet
  <2>1. closer = "done" => /\ connecting = "none" /\ sub = 0 /\ ~retry
                           /\ \A s \in Pulsar!Subs : Quiet(s)
    BY DEF PulsarInv, RunnerPlaces
  <2>2. \A s \in Pulsar!Subs : Quiet(s) => loop[s] # "handle"
    BY DEF Quiet
  <2> QED
    BY <2>1, <2>2 DEF PulsarInv, Pulsar!TypeOK, Quiet, Pulsar!ClosedIsQuiet
<1> QED
  BY <1>1, <1>2

-----------------------------------------------------------------------------
(* The Kafka group, from KafkaConsumerProofs.                              *)

KafkaP == INSTANCE KafkaConsumerProofs WITH
    owner <- assigned, pc <- memberPc, ttl <- claimTtl

LEMMA KafkaSame ==
    /\ Kafka!Init => KafkaP!Init
    /\ Kafka!Next => KafkaP!Next
    /\ KafkaP!TypeOK => Kafka!TypeOK
    /\ KafkaP!LostOnlyUnderClaim => Kafka!LostOnlyUnderClaim
    /\ (\A r \in handled' \ handled : \A q \in from..(r - 1) : KafkaP!Settled(q))
        => (\A r \in handled' \ handled : \A q \in from..(r - 1) : Kafka!Settled(q))
    /\ KafkaP!Assumptions
<1> USE DEF Kafka!None, KafkaP!None, Kafka!Records, KafkaP!Records, Kafka!Unpinned,
            KafkaP!Unpinned, Kafka!Handling, KafkaP!Handling, Kafka!Calls, KafkaP!Calls,
            Kafka!topic, KafkaP!topic, Kafka!coordinator, KafkaP!coordinator,
            Kafka!member, KafkaP!member, Kafka!claims, KafkaP!claims, Kafka!results,
            KafkaP!results
<1>1. Kafka!Init => KafkaP!Init
  BY DEF Kafka!Init, KafkaP!Init
<1>2. Kafka!Next => KafkaP!Next
  BY DEF Kafka!Next, KafkaP!Next, Kafka!Publish, KafkaP!Publish, Kafka!Tick,
         KafkaP!Tick, Kafka!Down, KafkaP!Down, Kafka!FetchOffsets, KafkaP!FetchOffsets,
         Kafka!Step, KafkaP!Step, Kafka!Close, KafkaP!Close, Kafka!Crash, KafkaP!Crash,
         Kafka!Assign, KafkaP!Assign, Kafka!Evict, KafkaP!Evict, Kafka!FetchEnds,
         KafkaP!FetchEnds, Kafka!Pin, KafkaP!Pin, Kafka!Join, KafkaP!Join, Kafka!Poll,
         KafkaP!Poll, Kafka!Claim, KafkaP!Claim, Kafka!WorkDone, KafkaP!WorkDone,
         Kafka!WorkFails, KafkaP!WorkFails, Kafka!Extend, KafkaP!Extend, Kafka!Release,
         KafkaP!Release, Kafka!Retry, KafkaP!Retry, Kafka!DeadLetter, KafkaP!DeadLetter,
         Kafka!Disconnect, KafkaP!Disconnect, Kafka!Leave, KafkaP!Leave, Kafka!Stop,
         KafkaP!Stop, Kafka!Fault, KafkaP!Fault, Kafka!Go, KafkaP!Go, Kafka!Resolve,
         KafkaP!Resolve, Kafka!Rethrow, KafkaP!Rethrow, Kafka!Heartbeated,
         KafkaP!Heartbeated, Kafka!Held, KafkaP!Held, Kafka!Mine,
         KafkaP!Mine, Kafka!Pinning, KafkaP!Pinning
<1>3. KafkaP!TypeOK => Kafka!TypeOK
  BY DEF Kafka!TypeOK, KafkaP!TypeOK
<1>4. KafkaP!LostOnlyUnderClaim => Kafka!LostOnlyUnderClaim
  BY DEF Kafka!LostOnlyUnderClaim, KafkaP!LostOnlyUnderClaim, Kafka!PassedAreSettled,
         KafkaP!PassedAreSettled, Kafka!ClaimsEndInTime, KafkaP!ClaimsEndInTime,
         Kafka!Abandoned, KafkaP!Abandoned, Kafka!Overhang, KafkaP!Overhang,
         Kafka!Settled, KafkaP!Settled
<1>6. (\A r \in handled' \ handled : \A q \in from..(r - 1) : KafkaP!Settled(q))
        => (\A r \in handled' \ handled : \A q \in from..(r - 1) : Kafka!Settled(q))
  BY DEF Kafka!Settled, KafkaP!Settled
<1>5. KafkaP!Assumptions
  BY PartsAssumption
     DEF PartsAssumption, KafkaP!Assumptions, Kafka!KafkaAssumption,
         KafkaP!KafkaAssumption, Kafka!MembersAssumption, KafkaP!MembersAssumption
<1> QED
  BY <1>1, <1>2, <1>3, <1>4, <1>5, <1>6

LEMMA KafkaStep == KafkaP!KInv /\ [Kafka!Next]_kafkaVars => KafkaP!KInv'
<1>1. UNCHANGED kafkaVars => UNCHANGED KafkaP!vars
  BY DEF kafkaVars, KafkaP!vars, KafkaP!topic, KafkaP!coordinator, KafkaP!member,
         KafkaP!claims, KafkaP!results
<1> QED
  BY <1>1, KafkaSame, KafkaP!StepKInv

-----------------------------------------------------------------------------
(* All the parts.                                                          *)

PartsInv == LeaseInv /\ KafkaP!KInv /\ PulsarInv /\ TrackerInv /\ LettersInv

LEMMA PartsStart == PartsInit => PartsInv
<1> SUFFICES ASSUME PartsInit PROVE PartsInv
  OBVIOUS
<1>1. LeaseInv
  BY LeaseInit DEF PartsInit
<1>2. KafkaP!KInv
  BY KafkaSame, KafkaP!InitKInv DEF PartsInit
<1>3. PulsarInv
  <2>1. Pulsar!TypeOK
    <3> USE DEF Pulsar!LoopSteps, Pulsar!CloseSteps, Pulsar!Queued
    <3>1. Pulsar!Init /\ MaxSubs \in Nat /\ MaxFailures \in Nat /\ MaxRedeliveries \in Nat
      BY PartsAssumption
         DEF PartsAssumption, Pulsar!SubscriptionAssumption, PartsInit
    <3>2. /\ enabled \in BOOLEAN /\ retry \in BOOLEAN
          /\ running \in [Pulsar!Subs -> BOOLEAN]
          /\ stopped \in [Pulsar!Subs -> BOOLEAN]
      BY <3>1, Zenon DEF Pulsar!Init
    <3>3. /\ at \in [Messages -> Pulsar!Subs \cup {Pulsar!Queued, Pulsar!Acked, Pulsar!Dead}]
          /\ tries \in [Messages -> 0..MaxRedeliveries]
      BY <3>1 DEF Pulsar!Init
    <3>4. \A s \in Pulsar!Subs : loop[s] # "handle" /\ msg[s] = Pulsar!None
      BY <3>1 DEF Pulsar!Init
    <3>5. /\ consumer \in [Pulsar!Subs -> {"none", "open", "closing", "closed"}]
          /\ loop \in [Pulsar!Subs -> Pulsar!LoopSteps]
          /\ msg \in [Pulsar!Subs -> Messages \cup {Pulsar!None}]
          /\ held \in [Pulsar!Subs -> SUBSET Messages]
          /\ closings \in [Pulsar!Subs -> Pulsar!CloseSteps]
      BY <3>1 DEF Pulsar!Init
    <3>6. /\ state = "starting" /\ failures \in 0..MaxFailures
          /\ connecting = "subscribing" /\ made \in 0..MaxSubs /\ sub \in {0, made}
          /\ closer = "no"
      BY <3>1 DEF Pulsar!Init
    <3> QED
      BY <3>2, <3>3, <3>4, <3>5, <3>6 DEF Pulsar!TypeOK
  <2> QED
    BY <2>1
       DEF PartsInit, Pulsar!Init, PulsarInv, OnlyLastLives, StoppedIsQuiet,
           RunnerPlaces, Quiet, Pulsar!Connected, Pulsar!Subs
<1>4. TrackerInv
  BY PartsAssumption
     DEF PartsAssumption, Tracker!TrackingAssumption, PartsInit, Tracker!Init,
         TrackerInv, Tracker!TypeOK, OnePlace, Places, Takes, MarkTells,
         Tracker!SeenIsPublished, Tracker!Requests, Tracker!Seen, Tracker!Nobody
<1>5. LettersInv
  <2>1. Letters!TypeOK
    <3>1. <<>> \in Seq(Messages)
      BY EmptySeq
    <3>2. Letters!Init /\ Count \in Nat /\ MaxFaults \in Nat
      BY PartsAssumption DEF PartsAssumption, Letters!RedriveAssumption, PartsInit
    <3>3. kept \in Seq(Messages) /\ overlapped \in BOOLEAN
      BY <3>1, <3>2, Zenon DEF Letters!Init
    <3>4. /\ arrived \subseteq Messages /\ redriveFaults \in 0..MaxFaults
          /\ published \in [Messages -> Nat] /\ moved \in [Operators -> 0..Count]
      BY <3>2 DEF Letters!Init
    <3>5. /\ redrivePc \in [Operators -> {"idle", "peek", "publish", "skip", "done"}]
          /\ holds \in [Operators -> Messages \cup {Letters!Nothing}]
      BY <3>2 DEF Letters!Init
    <3> QED
      BY <3>3, <3>4, <3>5 DEF Letters!TypeOK
  <2> QED
    BY <2>1
       DEF PartsInit, Letters!Init, LettersInv, OldestIsHeld, Letters!Running,
           Letters!KeptOrPublished
<1> QED
  BY <1>1, <1>2, <1>3, <1>4, <1>5 DEF PartsInv

LEMMA PartsStep == PartsInv /\ [PartsNext]_partVars => PartsInv'
<1> SUFFICES ASSUME PartsInv, [PartsNext]_partVars PROVE PartsInv'
  OBVIOUS
<1>1. /\ [Next]_vars /\ [Kafka!Next]_kafkaVars /\ [Pulsar!Next]_pulsarVars
      /\ [Tracker!Next]_trackVars /\ [Letters!Next]_redriveVars
  BY DEF PartsNext, partVars, sideVars, OnLease, OnKafka, OnPulsar, OnTracker, OnLetters
<1> QED
  BY <1>1, LeaseStep, KafkaStep, PulsarStep, TrackerStep, LettersStep DEF PartsInv

LEMMA PartsInvariance == PartsSpec => []PartsInv
BY PartsStart, PartsStep, PTL DEF PartsSpec

\* Every variable of the parts that carry a message keeps its type.
THEOREM TypesCorrect == PartsSpec => []TypesOK
<1>1. PartsInv => TypesOK
  BY KafkaSame
     DEF PartsInv, LeaseInv, KafkaP!KInv, PulsarInv, TrackerInv, LettersInv, TypesOK
<1> QED
  BY <1>1, PartsInvariance, PTL

\* No record is passed before it is settled, or under a claim that outlived its
\* holder's session, no dead letter dropped before it is published again, and
\* no tracked event forgotten: through failed calls, redeliveries, evictions,
\* stops and repeated requests, and for all times of the Kafka group.
THEOREM NothingIsLost == PartsSpec => []NothingLost
<1>1. PartsInv => NothingLost
  BY KafkaSame, KafkaP!Bounded, TrackerKeeps DEF PartsInv, LettersInv, NothingLost
<1> QED
  BY <1>1, PartsInvariance, PTL

\* One receive loop and one consumer at a time, however often a subscription
\* stops, none of them once close() resolved, and one row per tracked event.
THEOREM NothingIsTwice == PartsSpec => []NothingTwice
<1>1. PartsInv => NothingTwice
  BY PulsarKeeps, TrackerKeeps DEF PartsInv, NothingTwice
<1> QED
  BY <1>1, PartsInvariance, PTL

\* One relay at a time publishes, beside all the other parts.
THEOREM OneRelayPublishes == PartsSpec => []OnePublisher
<1>1. PartsInv => OnePublisher
  BY DEF PartsInv, LeaseInv, PublisherHoldsLease, OnePublisher
<1> QED
  BY <1>1, PartsInvariance, PTL

\* A Kafka partition is worked through in order.
THEOREM PartitionWorkedInOrder == PartsSpec => PartitionInOrder
<1>1. PartsInv /\ [PartsNext]_partVars =>
        [\A r \in handled' \ handled :
           \A q \in from..(r - 1) : Kafka!Settled(q)]_Kafka!vars
  <2> SUFFICES ASSUME PartsInv, [PartsNext]_partVars
               PROVE  [\A r \in handled' \ handled :
                         \A q \in from..(r - 1) : Kafka!Settled(q)]_Kafka!vars
    OBVIOUS
  <2>1. [Kafka!Next]_kafkaVars
    BY DEF PartsNext, partVars, sideVars, OnLease, OnKafka, OnPulsar, OnTracker, OnLetters
  <2>2. /\ UNCHANGED kafkaVars => UNCHANGED KafkaP!vars
        /\ UNCHANGED KafkaP!vars <=> UNCHANGED Kafka!vars
    BY DEF kafkaVars, KafkaP!vars, KafkaP!topic, KafkaP!coordinator, KafkaP!member,
           KafkaP!claims, KafkaP!results, Kafka!vars, Kafka!topic, Kafka!coordinator,
           Kafka!member, Kafka!claims, Kafka!results
  <2> QED
    BY <2>1, <2>2, KafkaSame, KafkaP!StepInOrder DEF PartsInv
<1> QED
  BY <1>1, PartsInvariance, PTL DEF PartsSpec, PartitionInOrder, Kafka!PartitionInOrder

=============================================================================
