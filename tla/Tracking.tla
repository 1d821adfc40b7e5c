------------------------------ MODULE Tracking ------------------------------
(***************************************************************************)
(* User-behaviour tracking end to end: the SDK's tracker (createTracker,   *)
(* tracking/index.ts) buffers events and posts them in batches, the ingest *)
(* endpoint (TrackingService.ingest) drops the events it has seen and      *)
(* publishes the rest as one message, and TrackingProcessor writes each    *)
(* message's events to the OLAP store, once per event (onceEach).          *)
(*                                                                         *)
(* Both sides use claim-then-commit markers: seen for ingest, mark for the *)
(* processor.  A claim of ingest may expire at any time; one of the        *)
(* processor once its handler is gone, and always before the broker hands  *)
(* the message to another: module EventConsumer has their times.  One page *)
(* and one tenant, which is active or whose directory refuses a batch.     *)
(*                                                                         *)
(* Abstracted: what an event says, and the live nudge after a write, which *)
(* never throws.                                                           *)
(***************************************************************************)
EXTENDS FiniteSets, Integers

CONSTANTS
    Events,             \* what the page records
    Posts,              \* the tracker's requests, one per batch
    Repeats,            \* requests of a client that sends a batch again
    MaxBatch,           \* maxBatch of the tracker
    MaxRedeliveries,
    MaxFaults           \* bounds the calls that fail and the processes that stop

Requests == Posts \cup Repeats
Nobody == "nobody"
Seen == "seen"          \* a marker extended to TRACKING_SEEN_TTL_SECONDS

TrackingAssumption ==
    /\ Posts \cap Repeats = {} /\ {Nobody, Seen} \cap Requests = {}
    /\ MaxRedeliveries \in Nat /\ MaxFaults \in Nat

VARIABLES
    tracked,    \* the events the page recorded
    buffer,     \* those not posted yet
    batch,      \* per request: its events
    pc,         \* per request: the call ingest is about to make
    fresh,      \* per request: the events it publishes
    mine,       \* per request: the events it claimed
    seen,       \* per event: whose claim is on it, Seen or Nobody
    message,    \* per request: where its message is
    handler,    \* per message: the call its handler is about to make
    tries,      \* per message: redeliveries so far
    taken,      \* per message: the events its handler claimed
    mark,       \* per event: as seen, the processor's marker
    rows,       \* per event: its rows in the OLAP store
    doubtful,   \* the events of a call of the processor whose outcome it lost
    faults

page == <<tracked, buffer>>
ingest == <<batch, pc, fresh, mine, seen>>
sink == <<handler, tries, taken, mark, rows, doubtful>>
vars == <<page, ingest, message, sink, faults>>

Init ==
    /\ tracked = {} /\ buffer = {}
    /\ batch = [r \in Requests |-> {}] /\ pc = [r \in Requests |-> "none"]
    /\ fresh = [r \in Requests |-> {}] /\ mine = [r \in Requests |-> {}]
    /\ seen = [e \in Events |-> Nobody]
    /\ message = [r \in Requests |-> "none"] /\ handler = [r \in Requests |-> "none"]
    /\ tries = [r \in Requests |-> 0] /\ taken = [r \in Requests |-> {}]
    /\ mark = [e \in Events |-> Nobody] /\ rows = [e \in Events |-> 0]
    /\ doubtful = {} /\ faults = 0

Fault == faults < MaxFaults /\ faults' = faults + 1

-----------------------------------------------------------------------------
(* The tracker on the page.                                                *)

\* flushBuffer: the buffer becomes a request, which nobody awaits.
Flush(events) ==
    /\ buffer' = {}
    /\ IF events = {} THEN UNCHANGED <<pc, batch>> ELSE
       \E r \in Posts :
        /\ pc[r] = "none"
        /\ pc' = [pc EXCEPT ![r] = "posted"]
        /\ batch' = [batch EXCEPT ![r] = events]

\* track, page, exposeExperiment: a full buffer is flushed at once.
Track(e) ==
    /\ e \notin tracked
    /\ tracked' = tracked \cup {e}
    /\ IF Cardinality(buffer) + 1 >= MaxBatch
       THEN Flush(buffer \cup {e})
       ELSE buffer' = buffer \cup {e} /\ UNCHANGED <<pc, batch>>
    /\ UNCHANGED <<fresh, mine, seen, message, sink, faults>>

\* The interval fires, the page is hidden, or the program calls flush(), or
\* destroy(), after which it tracks nothing more.
FlushNow ==
    /\ buffer # {}
    /\ Flush(buffer)
    /\ UNCHANGED <<tracked, fresh, mine, seen, message, sink, faults>>

\* A client that, unlike the tracker, sends its batch again.
Repeat(r, q) ==
    /\ pc[r] = "none" /\ pc[q] \in {"lost", "done"}
    /\ pc' = [pc EXCEPT ![r] = "posted"]
    /\ batch' = [batch EXCEPT ![r] = batch[q]]
    /\ UNCHANGED <<page, fresh, mine, seen, message, sink, faults>>

\* The request is lost or refused (assertAccepting), or the API process stops.
Lost(r) ==
    /\ pc[r] \notin {"none", "lost", "done"}
    /\ Fault
    /\ pc' = [pc EXCEPT ![r] = "lost"] /\ mine' = [mine EXCEPT ![r] = {}]
    /\ UNCHANGED <<page, batch, fresh, seen, message, sink>>

-----------------------------------------------------------------------------
(* TrackingService.ingest.                                                 *)

Free(r) == {e \in batch[r] : seen[e] = Nobody}

\* dropAlreadySeen: nothing fresh ends the call.
Claim(r) ==
    /\ pc[r] = "posted"
    /\ seen' = [e \in Events |-> IF e \in Free(r) THEN r ELSE seen[e]]
    /\ mine' = [mine EXCEPT ![r] = Free(r)] /\ fresh' = [fresh EXCEPT ![r] = Free(r)]
    /\ pc' = [pc EXCEPT ![r] = IF Free(r) = {} THEN "done" ELSE "publish"]
    /\ UNCHANGED <<page, batch, message, sink, faults>>

\* "A dedup store that cannot answer accepts the batch"; the claims it may
\* have made are released, or left to expire.
ClaimFails(r) ==
    /\ pc[r] = "posted" /\ Fault
    /\ \E left \in {{}, Free(r)} :
           seen' = [e \in Events |-> IF e \in left THEN r ELSE seen[e]]
    /\ fresh' = [fresh EXCEPT ![r] = batch[r]]
    /\ pc' = [pc EXCEPT ![r] = "publish"]
    /\ UNCHANGED <<page, batch, mine, message, sink>>

Publish(r) ==
    /\ pc[r] = "publish"
    /\ message' = [message EXCEPT ![r] = "queued"]
    /\ pc' = [pc EXCEPT ![r] = "extend"]
    /\ UNCHANGED <<page, batch, fresh, mine, seen, sink, faults>>

\* The publish fails, though the broker may have the message.
PublishFails(r) ==
    /\ pc[r] = "publish" /\ Fault
    /\ message' = message \/ message' = [message EXCEPT ![r] = "queued"]
    /\ pc' = [pc EXCEPT ![r] = "release"]
    /\ UNCHANGED <<page, batch, fresh, mine, seen, sink>>

\* settleClaims: extend or release the claims that are still this call's.
Settle(r) ==
    /\ pc[r] \in {"extend", "release"}
    /\ seen' = [e \in Events |-> IF e \notin mine[r] \/ seen[e] # r THEN seen[e]
                                 ELSE IF pc[r] = "extend" THEN Seen ELSE Nobody]
    /\ pc' = [pc EXCEPT ![r] = "done"] /\ mine' = [mine EXCEPT ![r] = {}]
    /\ UNCHANGED <<page, batch, fresh, message, sink, faults>>

\* A settle that fails is only logged.
SettleFails(r) ==
    /\ pc[r] \in {"extend", "release"} /\ Fault
    /\ pc' = [pc EXCEPT ![r] = "done"] /\ mine' = [mine EXCEPT ![r] = {}]
    /\ UNCHANGED <<page, batch, fresh, seen, message, sink>>

ClaimExpires(e) ==
    /\ seen[e] \notin {Nobody, Seen}
    /\ seen' = [seen EXCEPT ![e] = Nobody]
    /\ UNCHANGED <<page, batch, pc, fresh, mine, message, sink, faults>>

Ingest(r) == Claim(r) \/ Publish(r) \/ Settle(r)

-----------------------------------------------------------------------------
(* TrackingProcessor and the broker.                                       *)

\* A failed delivery comes again, and after the last one goes to the
\* dead-letter topic.
Redelivered(r) ==
    /\ handler' = [handler EXCEPT ![r] = "none"]
    /\ taken' = [taken EXCEPT ![r] = {}]
    /\ IF tries[r] < MaxRedeliveries
       THEN message' = [message EXCEPT ![r] = "queued"] /\ tries' = [tries EXCEPT ![r] = @ + 1]
       ELSE message' = [message EXCEPT ![r] = "dead"] /\ UNCHANGED tries

Unmarked(r) == {e \in fresh[r] : mark[e] = Nobody}

\* A message is delivered; onceEach takes the events without a marker, and
\* with none the message is done.
Take(r) ==
    /\ message[r] = "queued"
    /\ message' = [message EXCEPT ![r] = "out"]
    /\ mark' = [e \in Events |-> IF e \in Unmarked(r) THEN r ELSE mark[e]]
    /\ taken' = [taken EXCEPT ![r] = Unmarked(r)]
    /\ handler' = [handler EXCEPT ![r] = IF Unmarked(r) = {} THEN "ack" ELSE "insert"]
    /\ UNCHANGED <<page, ingest, tries, rows, doubtful, faults>>

\* Redis does not answer: nothing is claimed and the delivery fails.
TakeFails(r) ==
    /\ message[r] = "queued" /\ Fault
    /\ Redelivered(r)
    /\ UNCHANGED <<page, ingest, mark, rows, doubtful>>

\* Bug: the whole batch is inserted, not the events without a marker.
BugWritten(r) == [e \in Events |-> IF e \in fresh[r] THEN rows[e] + 1 ELSE rows[e]]

Written(r) == [e \in Events |-> IF e \in taken[r] THEN rows[e] + 1 ELSE rows[e]]

Insert(r) ==
    /\ handler[r] = "insert"
    /\ rows' = Written(r)
    /\ handler' = [handler EXCEPT ![r] = "extend"]
    /\ UNCHANGED <<page, ingest, message, tries, taken, mark, doubtful, faults>>

\* The store rejects the batch, or its answer is lost.  The claims are
\* released, or left to expire when that fails too: "the redelivery is dropped
\* as a duplicate until they expire".
InsertFails(r) ==
    /\ handler[r] = "insert" /\ Fault
    /\ \E took, released \in BOOLEAN :
        /\ rows' = IF took THEN Written(r) ELSE rows
        /\ mark' = IF released THEN [e \in Events |-> IF e \in taken[r] THEN Nobody ELSE mark[e]]
                              ELSE mark
        /\ doubtful' = IF took \/ ~released THEN doubtful \cup taken[r] ELSE doubtful
    /\ Redelivered(r)
    /\ UNCHANGED <<page, ingest>>

MarkExpires(e) ==
    /\ \E r \in Requests : mark[e] = r /\ e \notin taken[r]
    /\ mark' = [mark EXCEPT ![e] = Nobody]
    /\ UNCHANGED <<page, ingest, message, handler, tries, taken, rows, doubtful, faults>>

\* The markers are extended and the message acked.
Extend(r) ==
    /\ handler[r] = "extend"
    /\ mark' = [e \in Events |-> IF e \in taken[r] THEN Seen ELSE mark[e]]
    /\ handler' = [handler EXCEPT ![r] = "ack"]
    /\ UNCHANGED <<page, ingest, message, tries, taken, rows, doubtful, faults>>

\* "Seen markers not extended; a redelivery may be handled again".
ExtendFails(r) ==
    /\ handler[r] = "extend" /\ Fault
    /\ mark' = [e \in Events |-> IF e \in taken[r] THEN Nobody ELSE mark[e]]
    /\ doubtful' = doubtful \cup taken[r]
    /\ handler' = [handler EXCEPT ![r] = "ack"]
    /\ UNCHANGED <<page, ingest, message, tries, taken, rows>>

Ack(r) ==
    /\ handler[r] = "ack"
    /\ message' = [message EXCEPT ![r] = "acked"]
    /\ handler' = [handler EXCEPT ![r] = "none"]
    /\ taken' = [taken EXCEPT ![r] = {}]
    /\ UNCHANGED <<page, ingest, tries, mark, rows, doubtful, faults>>

\* The worker stops; its claims expire, then the message comes again.
WorkerStops(r) ==
    /\ handler[r] # "none" /\ Fault
    /\ mark' = [e \in Events |-> IF mark[e] = r THEN Nobody ELSE mark[e]]
    /\ doubtful' = IF handler[r] = "extend" THEN doubtful \cup taken[r] ELSE doubtful
    /\ Redelivered(r)
    /\ UNCHANGED <<page, ingest, rows>>

Handle(r) == Take(r) \/ Insert(r) \/ Extend(r) \/ Ack(r)

Next ==
    \/ \E e \in Events : Track(e) \/ ClaimExpires(e) \/ MarkExpires(e)
    \/ FlushNow
    \/ \E r \in Repeats, q \in Posts : Repeat(r, q)
    \/ \E r \in Requests :
        \/ Ingest(r) \/ Lost(r) \/ ClaimFails(r) \/ PublishFails(r) \/ SettleFails(r)
        \/ Handle(r) \/ TakeFails(r) \/ InsertFails(r) \/ ExtendFails(r) \/ WorkerStops(r)

\* The interval fires, and what runs goes on.
Fairness ==
    /\ WF_vars(FlushNow)
    /\ \A r \in Requests : WF_vars(Ingest(r)) /\ WF_vars(Handle(r))

Spec == Init /\ [][Next]_vars /\ Fairness

-----------------------------------------------------------------------------
(* The properties.                                                         *)

\* Every variable holds a value the code can give it.
TypeOK ==
    /\ tracked \subseteq Events /\ buffer \subseteq tracked
    /\ batch \in [Requests -> SUBSET Events]
    /\ fresh \in [Requests -> SUBSET Events] /\ mine \in [Requests -> SUBSET Events]
    /\ pc \in [Requests -> {"none", "posted", "publish", "extend", "release", "lost", "done"}]
    /\ seen \in [Events -> Requests \cup {Nobody, Seen}]
    /\ mark \in [Events -> Requests \cup {Nobody, Seen}]
    /\ message \in [Requests -> {"none", "queued", "out", "acked", "dead"}]
    /\ handler \in [Requests -> {"none", "insert", "extend", "ack"}]
    /\ tries \in [Requests -> 0..MaxRedeliveries] /\ taken \in [Requests -> SUBSET Events]
    /\ rows \in [Events -> Nat] /\ doubtful \subseteq Events /\ faults \in 0..MaxFaults

\* An event the page recorded is in its buffer or in exactly one of its
\* batches, whichever triggers of a flush coincide.
BatchedOnce ==
    \A e \in tracked :
        Cardinality({r \in Posts : e \in batch[r]}) + (IF e \in buffer THEN 1 ELSE 0) = 1

\* "A crashed or failed publish never marks an event as seen": an event that
\* ingest drops for its 24-hour marker is in a published message.
SeenIsPublished ==
    \A e \in Events : seen[e] = Seen => \E r \in Requests : message[r] # "none" /\ e \in fresh[r]

\* However often a batch is posted, published and delivered, an event has one
\* row, unless the processor could not know that its insert took effect, or
\* could not say so in a marker.
OneRow == \A e \in Events \ doubtful : rows[e] <= 1

\* An event of an acked message is in the store, or in another message that
\* is still to be handled or was dead-lettered, unless its claim outlived the
\* handler that could not release it.
AckedIsStored ==
    \A r \in Requests : message[r] = "acked" =>
        \A e \in fresh[r] \ doubtful : rows[e] > 0 \/
            \E q \in Requests : e \in fresh[q] /\ message[q] \in {"queued", "out", "dead"}

\* The buffer is emptied again and again, and a message settled.
Flushed == buffer = {}
Settled(r) == message[r] \notin {"queued", "out"}
EverythingSettles == []<>Flushed /\ \A r \in Requests : []<>Settled(r)

=============================================================================
