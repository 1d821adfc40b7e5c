--------------------------- MODULE TemporalWorkers ---------------------------
(***************************************************************************)
(* The Temporal workers of the worker role: TemporalWorkerService          *)
(* (temporal-worker.service.ts), one worker per registered queue, started  *)
(* again with exponential backoff for as long as the process lives, over   *)
(* the client they share with the rest of the process, TemporalClientHolder*)
(* (temporal-client.holder.ts), which connects at most once per interval,  *)
(* and over one NativeConnection of their own.                             *)
(*                                                                         *)
(* Time is counted in WORKER_RETRY_BASE_MS, 5 s: the holder's interval is  *)
(* two of them.  A timer fires on its tick; a connect may take any time.   *)
(*                                                                         *)
(* External: Temporal, which the workers poll.  A run may end by itself;   *)
(* on SIGTERM it does, before onModuleDestroy.                             *)
(*                                                                         *)
(* Abstracted: the connections opened after onModuleDestroy took its own   *)
(* count as one.                                                           *)
(***************************************************************************)
EXTENDS Integers

CONSTANTS
    Queues,             \* the registered task queues
    ReconnectInterval,  \* TEMPORAL_RECONNECT_INTERVAL_MS
    RetryMax,           \* WORKER_RETRY_MAX_MS
    MaxFailures,        \* failures told apart: later ones wait RetryMax too
    MaxFaults           \* bound on outages and on runs that end

WorkersAssumption ==
    /\ ReconnectInterval \in Nat /\ RetryMax \in Nat
    /\ MaxFailures \in Nat \ {0} /\ MaxFaults \in Nat

VARIABLES
    up,         \* does Temporal answer?
    client,     \* has the holder a client?
    attempt,    \* is its connect in flight?
    wait,       \* the time until nextAttemptAt
    link,       \* the NativeConnection: "none", "connecting", "open", "closed"
    late,       \* one opened after onModuleDestroy took that: "none",
                \*   "connecting", "open"
    overtook,   \* did a start wait for the client when it began?
    pc,         \* per queue: where its start is
    state,      \* per queue: what status() says
    failures,   \* per queue: failures since the last start
    timer,      \* per queue: the time until its retry
    stop,       \* onModuleDestroy: "no", "runs", "close", "done"
    faults

holder == <<client, attempt, wait>>
queue == <<pc, state, failures, timer>>
links == <<link, late, overtook>>
vars == <<up, holder, links, queue, stop, faults>>

Init ==
    /\ up \in BOOLEAN
    /\ client = FALSE /\ attempt = FALSE /\ wait = 0
    /\ link = "none" /\ late = "none" /\ overtook = FALSE
    /\ pc = [q \in Queues |-> "start"]
    /\ state = [q \in Queues |-> "starting"]
    /\ failures = [q \in Queues |-> 0]
    /\ timer = [q \in Queues |-> 0]
    /\ stop = "no" /\ faults = 0

At(q, step) == pc' = [pc EXCEPT ![q] = step]

Smaller(a, b) == IF a < b THEN a ELSE b

RetryDelay(n) == Smaller(RetryMax, 2 ^ (n - 1))

\* retry: the start or the run of these queues failed.
Retry(failed) ==
    LET n(q) == Smaller(MaxFailures, failures[q] + 1)
    IN  IF stop # "no"
          THEN /\ pc' = [q \in Queues |-> IF q \in failed THEN "over" ELSE pc[q]]
               /\ UNCHANGED <<state, failures, timer>>
          ELSE /\ failures' = [q \in Queues |-> IF q \in failed THEN n(q) ELSE failures[q]]
               /\ timer' = [q \in Queues |-> IF q \in failed THEN RetryDelay(n(q)) ELSE timer[q]]
               /\ state' = [q \in Queues |-> IF q \in failed THEN "retrying" ELSE state[q]]
               /\ pc' = [q \in Queues |-> IF q \in failed THEN "timer" ELSE pc[q]]

-----------------------------------------------------------------------------
(* TemporalClientHolder.                                                   *)

Due == ~client /\ ~attempt /\ wait = 0

Attempt == attempt' = TRUE /\ wait' = ReconnectInterval

\* The client is there, or the attempt in flight or a new one is waited for, or
\* the queue is tried again later.
AwaitClient(q) ==
    \/ (client \/ attempt) /\ At(q, "client")
       /\ UNCHANGED <<attempt, wait, state, failures, timer>>
    \/ Due /\ Attempt /\ At(q, "client") /\ UNCHANGED <<state, failures, timer>>
    \/ ~client /\ ~attempt /\ ~Due /\ Retry({q}) /\ UNCHANGED <<attempt, wait>>

\* Bug: it does not look whether the service stops.
BugStartAlways(q) ==
    /\ pc[q] = "start"
    /\ AwaitClient(q)
    /\ UNCHANGED <<up, client, links, stop, faults>>

\* start: nothing once the service stops.
Start(q) ==
    /\ pc[q] = "start"
    /\ IF stop = "no" THEN AwaitClient(q)
       ELSE At(q, "over") /\ UNCHANGED <<attempt, wait, state, failures, timer>>
    /\ UNCHANGED <<up, client, links, stop, faults>>

\* Somebody else in the process asks for the client.
GetElsewhere ==
    /\ Due /\ stop = "no"
    /\ Attempt
    /\ UNCHANGED <<up, client, links, queue, stop, faults>>

\* connect settles: everybody who waited for it has the client, or none.
AttemptSettles ==
    /\ attempt
    /\ attempt' = FALSE
    /\ client' = up
    /\ IF up THEN UNCHANGED queue ELSE Retry({q \in Queues : pc[q] = "client"})
    /\ UNCHANGED <<up, wait, links, stop, faults>>

-----------------------------------------------------------------------------
(* TemporalWorkerService.                                                  *)

\* connect: the first one opens the connection, the others share it.  Once
\* onModuleDestroy has taken it, there is none, and another one is opened.
Connect(q) ==
    /\ pc[q] = "client" /\ client
    /\ IF stop \in {"no", "runs"}
         THEN /\ At(q, "connect")
              /\ link' = IF link = "none" THEN "connecting" ELSE link
              /\ UNCHANGED late
         ELSE /\ At(q, "late")
              /\ late' = IF late = "none" THEN "connecting" ELSE late
              /\ UNCHANGED link
    /\ UNCHANGED <<up, holder, overtook, state, failures, timer, stop, faults>>

\* The connection is open, or failed and forgotten.
LinkSettles ==
    /\ link = "connecting"
    /\ link' = IF up THEN "open" ELSE "none"
    /\ IF up THEN UNCHANGED queue ELSE Retry({q \in Queues : pc[q] = "connect"})
    /\ UNCHANGED <<up, holder, late, overtook, stop, faults>>

LateSettles ==
    /\ late = "connecting"
    /\ late' = IF up THEN "open" ELSE "none"
    /\ IF up THEN UNCHANGED queue ELSE Retry({q \in Queues : pc[q] = "late"})
    /\ UNCHANGED <<up, holder, link, overtook, stop, faults>>

\* Worker.create answers, and the worker runs unless the service stops.
Create(q) ==
    /\ \/ pc[q] = "connect" /\ link \in {"open", "closed"}
       \/ pc[q] = "late" /\ late = "open"
    /\ IF ~up \/ (pc[q] = "connect" /\ link = "closed") THEN Retry({q})
       ELSE IF stop # "no" THEN At(q, "over") /\ UNCHANGED <<state, failures, timer>>
       ELSE /\ At(q, "running")
            /\ state' = [state EXCEPT ![q] = "running"]
            /\ failures' = [failures EXCEPT ![q] = 0]
            /\ UNCHANGED timer
    /\ UNCHANGED <<up, holder, links, stop, faults>>

Fault == faults < MaxFaults /\ faults' = faults + 1

\* run() resolves or rejects: because it was shut down, or by itself.
RunEnds(q) ==
    /\ pc[q] = "running"
    /\ IF stop = "no" THEN Fault /\ Retry({q})
       ELSE /\ At(q, "over")
            /\ state' = [state EXCEPT ![q] = "stopped"]
            /\ UNCHANGED <<failures, timer, faults>>
    /\ UNCHANGED <<up, holder, links, stop>>

TimerFires(q) ==
    /\ pc[q] = "timer" /\ timer[q] = 0
    /\ At(q, "start")
    /\ UNCHANGED <<up, holder, links, state, failures, timer, stop, faults>>

\* onModuleDestroy: no timer is left, and the runs are shut down and awaited.
Destroy ==
    /\ stop = "no"
    /\ stop' = "runs"
    /\ timer' = [q \in Queues |-> 0]
    /\ pc' = [q \in Queues |-> IF pc[q] = "timer" THEN "over" ELSE pc[q]]
    /\ overtook' = \E q \in Queues : pc[q] = "client"
    /\ UNCHANGED <<up, holder, link, late, state, failures, faults>>

RunsOver ==
    /\ stop = "runs"
    /\ \A q \in Queues : pc[q] # "running"
    /\ stop' = "close"
    /\ UNCHANGED <<up, holder, links, queue, faults>>

\* The connection that was there is closed once it has settled.
CloseLink ==
    /\ stop = "close" /\ link # "connecting"
    /\ link' = IF link = "open" THEN "closed" ELSE link
    /\ stop' = "done"
    /\ UNCHANGED <<up, holder, late, overtook, queue, faults>>

-----------------------------------------------------------------------------

Outage == up /\ Fault /\ up' = FALSE /\ UNCHANGED <<holder, links, queue, stop>>
Restore == ~up /\ up' = TRUE /\ UNCHANGED <<holder, links, queue, stop, faults>>

Tick ==
    LET Down(t) == IF t > 0 THEN t - 1 ELSE 0
    IN  /\ wait > 0 \/ \E q \in Queues : timer[q] > 0
        /\ \A q \in Queues : pc[q] = "timer" => timer[q] > 0
        /\ wait' = Down(wait)
        /\ timer' = [q \in Queues |-> Down(timer[q])]
        /\ UNCHANGED <<up, client, attempt, links, pc, state, failures, stop, faults>>

Stopping == RunsOver \/ CloseLink \/ \E q \in Queues : stop # "no" /\ RunEnds(q)

Go(q) == Start(q) \/ Connect(q) \/ Create(q) \/ TimerFires(q)

Next ==
    \/ \E q \in Queues : Go(q) \/ RunEnds(q)
    \/ GetElsewhere \/ AttemptSettles \/ LinkSettles \/ LateSettles
    \/ Destroy \/ RunsOver \/ CloseLink
    \/ Outage \/ Restore \/ Tick

\* Promises settle, time passes, timers fire, and an outage is over some day.
\* No run has to end by itself and nobody has to destroy the service; what was
\* opened too late need not settle.
Fairness ==
    /\ \A q \in Queues : WF_vars(Go(q))
    /\ WF_vars(AttemptSettles) /\ WF_vars(LinkSettles)
    /\ WF_vars(Stopping) /\ WF_vars(Restore) /\ WF_vars(Tick)

Spec == Init /\ [][Next]_vars /\ Fairness

-----------------------------------------------------------------------------
(* The properties.                                                         *)

\* Every variable holds a value the code can give it, and status() says
\* "running" of the queues whose worker polls, and of no other.
TypeOK ==
    /\ up \in BOOLEAN /\ client \in BOOLEAN /\ attempt \in BOOLEAN
    /\ wait \in 0..ReconnectInterval
    /\ link \in {"none", "connecting", "open", "closed"}
    /\ late \in {"none", "connecting", "open"} /\ overtook \in BOOLEAN
    /\ pc \in [Queues -> {"start", "client", "connect", "late", "running", "timer",
                       "over"}]
    /\ state \in [Queues -> {"starting", "running", "retrying", "stopped"}]
    /\ failures \in [Queues -> 0..MaxFailures]
    /\ timer \in [Queues -> 0..RetryMax]
    /\ stop \in {"no", "runs", "close", "done"} /\ faults \in 0..MaxFaults
    /\ client => ~attempt
    /\ \A q \in Queues : state[q] = "running" <=> pc[q] = "running"

\* In whichever await of a start onModuleDestroy runs, no worker polls and no
\* retry is armed behind it, and the connection it found is closed.  Another one
\* is open only when it overtook a start that waited for the client.
NothingLeftBehind ==
    /\ stop = "done" =>
           /\ link \in {"none", "closed"}
           /\ \A q \in Queues : pc[q] \notin {"running", "timer"} /\ timer[q] = 0
    /\ late # "none" => overtook

Polls(q) == stop # "no" \/ pc[q] = "running"

Settled == stop \in {"no", "done"}

\* "Never gives up": however often Temporal was away and a run ended, every
\* queue's worker polls in the end, although the holder refuses to connect
\* between its attempts; or the service is destroyed, and that ends.
ComesUp == []<>Settled /\ \A q \in Queues : []<>Polls(q)

=============================================================================
