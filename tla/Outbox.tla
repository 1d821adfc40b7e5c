------------------------------- MODULE Outbox -------------------------------
(***************************************************************************)
(* The transactional outbox of one aggregate: the rows written with the    *)
(* business data, the aggregate's head document that puts it in line for   *)
(* the relays, the lease under which one relay works on it, the message    *)
(* broker, the operator's redrive and skip, and the sweep that repairs     *)
(* heads (apps/backend/src/infrastructure/outbox/outbox.service.ts and     *)
(* outbox.relay.ts).                                                       *)
(*                                                                         *)
(* Rows, heads and leases are all keyed by aggregate, so aggregates only   *)
(* share the relays' time; one aggregate is what ordering is about.        *)
(*                                                                         *)
(* Every database call, lease call and broker call is one step: anything   *)
(* else may happen between the reply of one and the start of the next.     *)
(*                                                                         *)
(* Abstracted:                                                             *)
(*  - time: a FAILED row's nextAttemptAt is "now" (over) or "later", a    *)
(*    head is due "now", "later" or "never"; row and head fall due         *)
(*    independently, which allows every order of the clock readings and    *)
(*    more;                                                                *)
(*  - duplicates: `delivered` lists the rows by FIRST arrival at the       *)
(*    broker, since consumers tell copies apart by the event id; for the   *)
(*    same reason `transit` is a set;                                      *)
(*  - retention: terminal rows stay (no read of theirs depends on it).     *)
(*                                                                         *)
(* Bounds: MaxRows writes, MaxOps operator actions and MaxFaults failed    *)
(* database or lease calls, crashes, lease expiries and refusals.          *)
(***************************************************************************)
EXTENDS Integers, Sequences

LOCAL INSTANCE TLC

CONSTANTS
    Relays,             \* the backend instances that run the relay
    Repairers,          \* concurrent runs of the sweep (and of a first poll)
    MaxAttempts,        \* OUTBOX MAX_ATTEMPTS
    RowsPerAggregate,   \* ROWS_PER_AGGREGATE
    Pauses,             \* a holder may outlive its lease (a stalled process)
    MaxRows, MaxOps, MaxFaults

ASSUME MaxAttemptsAssumption == MaxAttempts \in Nat \ {0}
ASSUME RowsPerAggregateAssumption == RowsPerAggregate \in Nat \ {0}
ASSUME BoundsAssumption ==
    MaxRows \in Nat /\ MaxOps \in Nat /\ MaxFaults \in Nat

VARIABLES
    rows,       \* the aggregate's rows in insertion order
    head,       \* its OutboxHead document, or NoHead
    lease,      \* the relay the lease store names, or None
    pc,         \* where each relay is
    cur,        \* the row each relay read as the head: index and attempts
    sent,       \* rows published under the current lease
    seen,       \* settleHead: version of the head read first, NoVersion if none
    found,      \* settleHead: dueAtOf the row read second, or "none"
    transit,    \* rows handed to the broker client, arrival undecided
    delivered,  \* rows by first arrival at the broker
    repair,     \* where each repairHeads run is, and what it read
    op,         \* the operator's redrive or skip in progress
    ops, faults \* counters for MaxOps and MaxFaults

None == "none"
ASSUME NamesAssumption == None \notin Relays

\* The relays are interchangeable.
RelaySymmetry == Permutations(Relays)

relayVars == <<pc, cur, sent, seen, found>>
brokerVars == <<transit, delivered>>
vars == <<rows, head, lease, pc, cur, sent, seen, found, transit, delivered,
          repair, op, ops, faults>>

Retriable == {"pending", "failed"}
OpenStatuses == {"pending", "failed", "dead"}
Terminal == {"dispatched", "skipped"}
Statuses == OpenStatuses \cup Terminal

\* No head document; a version no document has.
NoVersion == -1
NoHead == [v |-> NoVersion, due |-> "never"]

NewRow == [status |-> "pending", attempts |-> 0, next |-> "now"]

\* headOf: the oldest row that is PENDING, FAILED or DEAD.
Open(i) == i \in DOMAIN rows /\ rows[i].status \in OpenStatuses

\* Bug: newest first.
BugIsHeadNewest(i) ==
    Open(i) /\ \A j \in DOMAIN rows : j > i => ~Open(j)

IsHead(i) == Open(i) /\ \A j \in 1..(i - 1) : ~Open(j)
NoneOpen == \A i \in DOMAIN rows : ~Open(i)

\* isDue: PENDING, or FAILED with its backoff over.
IsDue(i) ==
    \/ rows[i].status = "pending"
    \/ rows[i].status = "failed" /\ rows[i].next = "now"

\* dueAtOf: PENDING now, FAILED at its next attempt, DEAD never.
DueAtOf(i) ==
    CASE rows[i].status = "dead" -> "never"
      [] rows[i].status = "failed" -> rows[i].next
      [] OTHER -> "now"

Delivered(i) == \E n \in DOMAIN delivered : delivered[n] = i

Init ==
    /\ rows = <<>>
    /\ head = NoHead
    /\ lease = None
    /\ pc = [r \in Relays |-> "idle"]
    /\ cur = [r \in Relays |-> [row |-> 0, attempts |-> 0]]
    /\ sent = [r \in Relays |-> 0]
    /\ seen = [r \in Relays |-> NoVersion]
    /\ found = [r \in Relays |-> "none"]
    /\ transit = {}
    /\ delivered = <<>>
    /\ repair = [p \in Repairers |-> "idle"]
    /\ op = [at |-> "idle", to |-> "none", rows |-> {}, requeue |-> FALSE]
    /\ ops = 0
    /\ faults = 0

Fault == faults < MaxFaults /\ faults' = faults + 1
Go(r, where) == pc' = [pc EXCEPT ![r] = where]

-----------------------------------------------------------------------------
(* A command: write(), inside the command's transaction.                   *)

\* The head first ($setOnInsert dueAt, $inc v, upsert), then the row; the
\* transaction makes them one step, and two writers of one aggregate conflict
\* on the head document.
Write ==
    /\ Len(rows) < MaxRows
    /\ rows' = Append(rows, NewRow)
    /\ head' = IF head = NoHead THEN [v |-> 1, due |-> "now"]
               ELSE [head EXCEPT !.v = @ + 1]
    /\ UNCHANGED <<lease, relayVars, brokerVars, repair, op, ops, faults>>

-----------------------------------------------------------------------------
(* A relay: one aggregate of a poll.                                       *)

\* dueAggregates: the poll reads the head as due; it may be stale when used.
SeeDue(r) ==
    /\ pc[r] = "idle"
    /\ head.due = "now"
    /\ Go(r, "candidate")
    /\ UNCHANGED <<rows, head, lease, cur, sent, seen, found, brokerVars,
                   repair, op, ops, faults>>

\* Bug: SET without NX.
BugAcquireAlways(r) ==
    /\ pc[r] = "candidate"
    /\ lease' = r
    /\ sent' = [sent EXCEPT ![r] = 0]
    /\ Go(r, "head")
    /\ UNCHANGED <<rows, head, cur, seen, found, brokerVars, repair, op, ops,
                   faults>>

\* lock.acquire: SET NX PX.
Acquire(r) ==
    /\ pc[r] = "candidate"
    /\ lease = None
    /\ lease' = r
    /\ sent' = [sent EXCEPT ![r] = 0]
    /\ Go(r, "head")
    /\ UNCHANGED <<rows, head, cur, seen, found, brokerVars, repair, op, ops,
                   faults>>

\* 'held': somebody has the lease.
Held(r) ==
    /\ pc[r] = "candidate"
    /\ lease # None
    /\ Go(r, "idle")
    /\ UNCHANGED <<rows, head, lease, cur, sent, seen, found, brokerVars,
                   repair, op, ops, faults>>

\* headOf under the lease: nothing due ends the work on the aggregate.
ReadHead(r) ==
    /\ pc[r] = "head"
    /\ \/ \E i \in DOMAIN rows :
            /\ IsHead(i) /\ IsDue(i)
            /\ cur' = [cur EXCEPT ![r] =
                         [row |-> i, attempts |-> rows[i].attempts]]
            /\ Go(r, "renew")
       \/ /\ \A i \in DOMAIN rows : IsHead(i) => ~IsDue(i)
          /\ Go(r, "settle")
          /\ UNCHANGED cur
    /\ UNCHANGED <<rows, head, lease, sent, seen, found, brokerVars, repair,
                   op, ops, faults>>

\* lease.renew (compare-and-extend on the token), then broker.publish: the
\* row is on its way.  A lost lease leaves the row alone.
Renew(r) ==
    /\ pc[r] = "renew"
    /\ \/ /\ lease = r
          /\ transit' = IF Delivered(cur[r].row) THEN transit
                        ELSE transit \cup {cur[r].row}
          /\ Go(r, "publish")
       \/ /\ lease # r
          /\ Go(r, "settle")
          /\ UNCHANGED transit
    /\ UNCHANGED <<rows, head, lease, cur, sent, seen, found, delivered,
                   repair, op, ops, faults>>

\* The broker has the row and says so in time.
Acked(r) ==
    /\ pc[r] = "publish"
    /\ Delivered(cur[r].row)
    /\ Go(r, "mark")
    /\ UNCHANGED <<rows, head, lease, cur, sent, seen, found, brokerVars,
                   repair, op, ops, faults>>

\* The broker refuses, or OUTBOX_PUBLISH_TIMEOUT_MS runs out; the row may
\* have arrived, or may arrive later.
NotAcked(r) ==
    /\ pc[r] = "publish"
    /\ Go(r, "fail")
    /\ UNCHANGED <<rows, head, lease, cur, sent, seen, found, brokerVars,
                   repair, op, ops, faults>>

\* markDispatched: only a PENDING or FAILED row; then the next row, until
\* ROWS_PER_AGGREGATE rows have gone out ('drained').
MarkDispatched(r) ==
    /\ pc[r] = "mark"
    /\ rows' = IF rows[cur[r].row].status \in Retriable
               THEN [rows EXCEPT ![cur[r].row].status = "dispatched",
                                 ![cur[r].row].next = "now"]
               ELSE rows
    /\ sent' = [sent EXCEPT ![r] = @ + 1]
    /\ Go(r, IF sent'[r] < RowsPerAggregate THEN "head" ELSE "settle")
    /\ UNCHANGED <<head, lease, cur, seen, found, brokerVars, repair, op, ops,
                   faults>>

\* Bug: the status filter of the update is missing.
BugMarkFailedAnyStatus(r) ==
    /\ pc[r] = "fail"
    /\ rows' = [rows EXCEPT ![cur[r].row] =
                  [status |-> "failed", attempts |-> cur[r].attempts + 1,
                   next |-> "later"]]
    /\ Go(r, "settle")
    /\ UNCHANGED <<head, lease, cur, sent, seen, found, brokerVars, repair, op,
                   ops, faults>>

\* markFailed: counts from the attempts READ under the lease; FAILED with a
\* backoff, DEAD at the ceiling, nothing when the row left PENDING/FAILED.
MarkFailed(r) ==
    /\ pc[r] = "fail"
    /\ LET n == cur[r].attempts + 1
           dead == n >= MaxAttempts
       IN  rows' = IF rows[cur[r].row].status \in Retriable
                   THEN [rows EXCEPT ![cur[r].row] =
                           [status |-> IF dead THEN "dead" ELSE "failed",
                            attempts |-> n,
                            next |-> IF dead THEN "now" ELSE "later"]]
                   ELSE rows
    /\ Go(r, "settle")
    /\ UNCHANGED <<head, lease, cur, sent, seen, found, brokerVars, repair, op,
                   ops, faults>>

\* settleHead, in its three calls: the head document,
SettleReadHead(r) ==
    /\ pc[r] = "settle"
    /\ seen' = [seen EXCEPT ![r] = head.v]
    /\ Go(r, "settleRow")
    /\ UNCHANGED <<rows, head, lease, cur, sent, found, brokerVars, repair,
                   op, ops, faults>>

\* the head row,
SettleReadRow(r) ==
    /\ pc[r] = "settleRow"
    /\ \/ \E i \in DOMAIN rows :
            IsHead(i) /\ found' = [found EXCEPT ![r] = DueAtOf(i)]
       \/ NoneOpen /\ found' = [found EXCEPT ![r] = "none"]
    /\ Go(r, "settleWrite")
    /\ UNCHANGED <<rows, head, lease, cur, sent, seen, brokerVars, repair,
                   op, ops, faults>>

\* and the write: deleteOne({_id, v}) when no row was open, else an upsert of
\* dueAt (a document it inserts has the default version 0).
\* Bug: the delete does not compare the version.
BugRetireHeadAnyVersion(v) == head' = NoHead

RetireHead(v) ==
    head' = IF v # NoVersion /\ head.v = v THEN NoHead ELSE head
SetDue(due) ==
    head' = IF head = NoHead THEN [v |-> 0, due |-> due]
            ELSE [head EXCEPT !.due = due]

SettleWrite(r) ==
    /\ pc[r] = "settleWrite"
    /\ IF found[r] = "none" THEN RetireHead(seen[r]) ELSE SetDue(found[r])
    /\ seen' = [seen EXCEPT ![r] = NoVersion]
    /\ found' = [found EXCEPT ![r] = "none"]
    /\ Go(r, "release")
    /\ UNCHANGED <<rows, lease, cur, sent, brokerVars, repair, op, ops, faults>>

\* lease.release: compare-and-delete on the token.
Release(r) ==
    /\ pc[r] = "release"
    /\ lease' = IF lease = r THEN None ELSE lease
    /\ cur' = [cur EXCEPT ![r] = [row |-> 0, attempts |-> 0]]
    /\ sent' = [sent EXCEPT ![r] = 0]
    /\ Go(r, "idle")
    /\ UNCHANGED <<rows, head, seen, found, brokerVars, repair, op, ops, faults>>

-----------------------------------------------------------------------------
(* What can go wrong under a relay.                                        *)

\* A call fails.  acquire: 'lock-down' ends the poll.  headOf, renew (or, in
\* its place, the publish after it, refused because messaging is switched
\* off) and either mark: on to settleHead, the row as it is.  settleHead: on
\* to release.  release: the lease stays until it expires.
AfterFailure(where) ==
    CASE where \in {"head", "renew", "mark", "fail"} -> "settle"
      [] where \in {"settle", "settleRow", "settleWrite"} -> "release"
      [] OTHER -> "idle"

CallFails(r) ==
    /\ pc[r] \notin {"idle", "publish"}
    /\ Fault
    /\ Go(r, AfterFailure(pc[r]))
    /\ seen' = [seen EXCEPT ![r] = NoVersion]
    /\ found' = [found EXCEPT ![r] = "none"]
    /\ cur' = IF pc[r] = "release"
              THEN [cur EXCEPT ![r] = [row |-> 0, attempts |-> 0]] ELSE cur
    /\ sent' = IF pc[r] = "release" THEN [sent EXCEPT ![r] = 0] ELSE sent
    /\ UNCHANGED <<rows, head, lease, brokerVars, repair, op, ops>>

\* The process stops anywhere and starts again with nothing in memory; its
\* lease stays until it expires and what it handed to the broker stays there.
Crash(r) ==
    /\ pc[r] # "idle"
    /\ Fault
    /\ Go(r, "idle")
    /\ cur' = [cur EXCEPT ![r] = [row |-> 0, attempts |-> 0]]
    /\ sent' = [sent EXCEPT ![r] = 0]
    /\ seen' = [seen EXCEPT ![r] = NoVersion]
    /\ found' = [found EXCEPT ![r] = "none"]
    /\ UNCHANGED <<rows, head, lease, brokerVars, repair, op, ops>>

Working(r) == pc[r] \notin {"idle", "candidate"}

\* The lease runs out.  Nobody renews it for a relay that is not working; for
\* one that is, it is renewed in time unless the relay Pauses.
LeaseExpires ==
    /\ lease # None
    /\ IF Working(lease) THEN Pauses /\ Fault ELSE UNCHANGED faults
    /\ lease' = None
    /\ UNCHANGED <<rows, head, relayVars, brokerVars, repair, op, ops>>

-----------------------------------------------------------------------------
(* The message broker and the clock.                                       *)

Arrive(i) ==
    /\ i \in transit
    /\ transit' = transit \ {i}
    /\ delivered' = Append(delivered, i)
    /\ UNCHANGED <<rows, head, lease, relayVars, repair, op, ops, faults>>

Lost(i) ==
    /\ i \in transit
    /\ transit' = transit \ {i}
    /\ UNCHANGED <<rows, head, lease, relayVars, delivered, repair, op, ops,
                   faults>>

RowFallsDue(i) ==
    /\ rows[i].next = "later"
    /\ rows' = [rows EXCEPT ![i].next = "now"]
    /\ UNCHANGED <<head, lease, relayVars, brokerVars, repair, op, ops, faults>>

HeadFallsDue ==
    /\ head.due = "later"
    /\ head' = [head EXCEPT !.due = "now"]
    /\ UNCHANGED <<rows, lease, relayVars, brokerVars, repair, op, ops, faults>>

-----------------------------------------------------------------------------
(* The operator: redrive (to = "pending") and skip (to = "skipped").       *)

DeadRows == {i \in DOMAIN rows : rows[i].status = "dead"}
IdleOp == [at |-> "idle", to |-> "none", rows |-> {}, requeue |-> FALSE]

\* aggregatesOf: the filter is one row or the whole aggregate; `requeue`
\* says whether the aggregate was among those with a DEAD row.
OpSelect ==
    /\ op.at = "idle"
    /\ ops < MaxOps
    /\ ops' = ops + 1
    /\ \E to \in {"pending", "skipped"},
          filter \in {{i} : i \in DOMAIN rows} \cup {1..MaxRows} :
         op' = [at |-> "update", to |-> to, rows |-> filter,
                requeue |-> DeadRows \cap filter # {}]
    /\ UNCHANGED <<rows, head, lease, relayVars, brokerVars, repair, faults>>

\* updateMany on the rows that are DEAD now.
OpUpdate ==
    /\ op.at = "update"
    /\ rows' = [i \in DOMAIN rows |->
                  IF i \notin DeadRows \cap op.rows THEN rows[i]
                  ELSE IF op.to = "pending" THEN NewRow
                  ELSE [rows[i] EXCEPT !.status = "skipped"]]
    /\ op' = [op EXCEPT !.at = "requeue"]
    /\ UNCHANGED <<head, lease, relayVars, brokerVars, repair, ops, faults>>

\* requeue: dueAt now, $inc v, upsert.
OpRequeue ==
    /\ op.at = "requeue"
    /\ head' = IF ~op.requeue THEN head
               ELSE IF head = NoHead THEN [v |-> 1, due |-> "now"]
               ELSE [v |-> head.v + 1, due |-> "now"]
    /\ op' = IdleOp
    /\ UNCHANGED <<rows, lease, relayVars, brokerVars, repair, ops, faults>>

\* The operator's call fails or its process stops between two steps.
OpFails ==
    /\ op.at # "idle"
    /\ Fault
    /\ op' = IdleOp
    /\ UNCHANGED <<rows, head, lease, relayVars, brokerVars, repair, ops>>

-----------------------------------------------------------------------------
(* repairHeads: run by the sweep and by each instance's first poll.        *)

RepairGo(p, where) == repair' = [repair EXCEPT ![p] = where]
repairUnchanged == <<lease, relayVars, brokerVars, op, ops, faults>>

\* deadLetterExhausted (the sweep), then the distinct aggregates with a
\* PENDING or FAILED row.
RepairRead(p) ==
    /\ repair[p] = "idle"
    /\ rows' = [i \in DOMAIN rows |->
                  IF rows[i].status = "failed" /\ rows[i].attempts >= MaxAttempts
                  THEN [rows[i] EXCEPT !.status = "dead", !.next = "now"]
                  ELSE rows[i]]
    /\ RepairGo(p, IF \E i \in DOMAIN rows' : rows'[i].status \in Retriable
                   THEN "upsert" ELSE "waiting")
    /\ UNCHANGED <<head, repairUnchanged>>

\* Bug: the sweep does not create heads.
BugRepairUpsertNothing(p) ==
    /\ repair[p] = "upsert"
    /\ RepairGo(p, "waiting")
    /\ UNCHANGED <<rows, head, repairUnchanged>>

\* A head for the aggregate if it has none.
RepairUpsert(p) ==
    /\ repair[p] = "upsert"
    /\ head' = IF head = NoHead THEN [v |-> 0, due |-> "now"] ELSE head
    /\ RepairGo(p, "waiting")
    /\ UNCHANGED <<rows, repairUnchanged>>

\* The heads that are not due.
RepairFind(p) ==
    /\ repair[p] = "waiting"
    /\ RepairGo(p, IF head # NoHead /\ head.due # "now" THEN "derive" ELSE "idle")
    /\ UNCHANGED <<rows, head, repairUnchanged>>

\* The row such a head is re-derived from.  The result counts only when it is
\* not after the `now` taken when the run began: a FAILED row's past
\* nextAttemptAt is, no row at all stands for that `now`, but a PENDING row's
\* dueAtOf is the clock read HERE, so it is only in the same millisecond.
RepairDerive(p) ==
    /\ repair[p] = "derive"
    /\ \E sameInstant \in BOOLEAN :
         RepairGo(p,
           IF \/ NoneOpen
              \/ \E i \in DOMAIN rows :
                   /\ IsHead(i) /\ IsDue(i)
                   /\ rows[i].status = "pending" => sameInstant
           THEN "setDue" ELSE "idle")
    /\ UNCHANGED <<rows, head, repairUnchanged>>

\* updateOne without upsert.
RepairSetDue(p) ==
    /\ repair[p] = "setDue"
    /\ head' = IF head = NoHead THEN head ELSE [head EXCEPT !.due = "now"]
    /\ RepairGo(p, "idle")
    /\ UNCHANGED <<rows, repairUnchanged>>

\* A run that fails or whose process stops; the next one starts over.
RepairFails(p) ==
    /\ repair[p] # "idle"
    /\ Fault
    /\ RepairGo(p, "idle")
    /\ UNCHANGED <<rows, head, lease, relayVars, brokerVars, op, ops>>

-----------------------------------------------------------------------------

Relay(r) ==
    \/ SeeDue(r) \/ Acquire(r) \/ Held(r)
    \/ ReadHead(r) \/ Renew(r)
    \/ Acked(r) \/ NotAcked(r) \/ MarkDispatched(r) \/ MarkFailed(r)
    \/ SettleReadHead(r) \/ SettleReadRow(r) \/ SettleWrite(r) \/ Release(r)

Broken(r) == CallFails(r) \/ Crash(r)

Repair(p) ==
    \/ RepairRead(p) \/ RepairUpsert(p) \/ RepairFind(p)
    \/ RepairDerive(p) \/ RepairSetDue(p)

Operator == OpSelect \/ OpUpdate \/ OpRequeue

Next ==
    \/ Write
    \/ \E r \in Relays : Relay(r) \/ Broken(r)
    \/ LeaseExpires
    \/ \E i \in transit : Arrive(i) \/ Lost(i)
    \/ \E i \in DOMAIN rows : RowFallsDue(i)
    \/ HeadFallsDue
    \/ Operator \/ OpFails
    \/ \E p \in Repairers : Repair(p) \/ RepairFails(p)

\* Relays keep polling and finish what they began (every call has a timeout),
\* the sweep keeps running, leases nobody renews and backoffs run out, and an
\* operator's command that began goes on.  Writes, operators and failures may never come.
Fairness ==
    /\ \A r \in Relays : SF_vars(Acquire(r)) /\ WF_vars(Relay(r))
    /\ \A p \in Repairers : WF_vars(Repair(p))
    /\ WF_vars(LeaseExpires /\ UNCHANGED faults)
    /\ WF_vars(\E i \in DOMAIN rows : RowFallsDue(i))
    /\ WF_vars(HeadFallsDue)
    /\ WF_vars(OpUpdate \/ OpRequeue)

Spec == Init /\ [][Next]_vars /\ Fairness

-----------------------------------------------------------------------------
(* The properties.                                                         *)

Places == {"idle", "candidate", "head", "renew", "publish", "mark", "fail",
           "settle", "settleRow", "settleWrite", "release"}

Row == [status : Statuses, attempts : Nat, next : {"now", "later"}]

\* Every variable holds a value the code can give it.
TypeOK ==
    /\ rows \in Seq(Row)
    /\ head \in [v : Nat \cup {NoVersion}, due : {"now", "later", "never"}]
    /\ lease \in Relays \cup {None}
    /\ pc \in [Relays -> Places]
    /\ cur \in [Relays -> [row : Nat, attempts : Nat]]
    /\ sent \in [Relays -> Nat]
    /\ seen \in [Relays -> Nat \cup {NoVersion}]
    /\ found \in [Relays -> {"none", "now", "later", "never"}]
    /\ transit \in SUBSET (1..Len(rows))
    /\ delivered \in Seq(1..Len(rows))
    /\ repair \in [Repairers -> {"idle", "upsert", "waiting", "derive", "setDue"}]
    /\ op \in [at : {"idle", "update", "requeue"},
               to : {"none", "pending", "skipped"},
               rows : SUBSET Nat, requeue : BOOLEAN]
    /\ ops \in Nat
    /\ faults \in Nat

\* "An aggregate's events leave in order": when an event first reaches the
\* broker after a later one of its aggregate, an operator had skipped it.
\* Holds through crashes, timeouts whose message arrives late, redrives and
\* relays that outlive their lease.
FirstDeliveryInOrder ==
    \A m, n \in DOMAIN delivered :
        m < n => \/ delivered[m] < delivered[n]
                 \/ delivered[n] < delivered[m]
                      /\ rows[delivered[n]].status = "skipped"

ClosedBefore(i) == \A k \in 1..(i - 1) : rows[k].status \in Terminal

\* A row that is DEAD, FAILED or PENDING blocks its aggregate: nothing written
\* after it has reached the broker or may still reach it.
NothingOvertakes ==
    \A i \in DOMAIN rows : Delivered(i) \/ i \in transit => ClosedBefore(i)

\* At-least-once: a row is marked DISPATCHED only after the broker has it.
DispatchedIsDelivered ==
    \A i \in DOMAIN rows : rows[i].status = "dispatched" => Delivered(i)

\* While holders keep their lease, an aggregate with an open row always has a
\* head: settleHead never deletes the head of a row written since it looked.
OpenHasHead == (\E i \in DOMAIN rows : Open(i)) => head # NoHead

\* DISPATCHED and SKIPPED are final, whatever a late mark or operator does.
TerminalIsFinal ==
    [][\A i \in DOMAIN rows :
         rows[i].status \in Terminal => rows'[i].status = rows[i].status]_vars

\* While holders keep their lease, every recorded failure adds one attempt to
\* what the row has AT THAT TIME, though markFailed counts from what was read
\* before the publish: no failure is lost, so a poison row reaches DEAD after
\* MaxAttempts.
EveryFailureCounts ==
    [][\A r \in Relays :
         pc[r] = "fail" /\ pc'[r] = "settle" /\ UNCHANGED faults =>
             LET i == cur[r].row
             IN  rows[i].status \in Retriable =>
                     rows'[i].attempts = rows[i].attempts + 1]_vars

\* A PENDING row at the head of its aggregate is eventually tried: it becomes
\* DISPATCHED, FAILED or (in the end) DEAD.
PendingHeadIsServed ==
    \A i \in 1..MaxRows : []<>~(IsHead(i) /\ rows[i].status = "pending")

\* Every row is eventually DISPATCHED or SKIPPED, or a DEAD row that waits for
\* an operator is the row itself or is ahead of it.
RowIsSettled ==
    \A i \in 1..MaxRows :
        []<>(Open(i) => \E k \in 1..i : rows[k].status = "dead")

\* What the outbox promises: an aggregate's events reach the broker in order,
\* at least once unless an operator gives one up (OrderedDelivery).
Fate == [i \in DOMAIN rows |->
           IF rows[i].status \in Terminal THEN rows[i].status ELSE "open"]
Promise == INSTANCE OrderedDelivery WITH fate <- Fate

\* Every step of the relays, the operator and the sweep, failures and
\* outlived leases included, is a step of that promise or leaves it alone.
ImplementsOrderedDelivery == Promise!Spec

=============================================================================
