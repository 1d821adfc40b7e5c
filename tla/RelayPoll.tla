------------------------------ MODULE RelayPoll ------------------------------
(***************************************************************************)
(* The polls of the outbox relays over many aggregates: outbox.relay.ts    *)
(* poll, which reads a window of the heads that are due, oldest first,     *)
(* shuffles it when it is wider than a batch, and relays a batch of them,  *)
(* and outbox.service.ts settleHead, which puts an aggregate with rows     *)
(* left at the back.  Outbox models the work on one aggregate; here it is  *)
(* one step, which ends in any way that one may.                           *)
(*                                                                         *)
(* Writers never stop.  A relay that finds no row left while a writer adds *)
(* one leaves the head where it is in the line (the delete compares the    *)
(* version): if writers met every settle of a whole window, the aggregates *)
(* behind it would wait for ever.  Like a failed call, that happens at most*)
(* MaxFaults times.                                                        *)
(***************************************************************************)
EXTENDS SequencesExt

CONSTANTS
    Relays,         \* the backend instances that run the relay
    Aggregates,
    Window,         \* CANDIDATES_PER_POLL
    Batch,          \* AGGREGATES_PER_POLL
    MaxFaults       \* bound on crashes, failed calls and raced settles

VARIABLES
    place,      \* per aggregate: its head: "none", due in the "line", or put "off"
    line,       \* the aggregates whose heads are due, by dueAt
    lease,      \* per aggregate: the relay the lease store names, or "none"
    order,      \* per relay: the candidates left of its poll
    relayed,    \* per relay: aggregates relayed in its poll
    pc,         \* per relay: "idle", "poll", "work"
    faults

vars == <<place, line, lease, order, relayed, pc, faults>>
heads == <<place, line>>

Init ==
    /\ place = [a \in Aggregates |-> "none"] /\ line = <<>>
    /\ lease = [a \in Aggregates |-> "none"]
    /\ order = [r \in Relays |-> <<>>]
    /\ relayed = [r \in Relays |-> 0]
    /\ pc = [r \in Relays |-> "idle"]
    /\ faults = 0

Fault == faults < MaxFaults /\ faults' = faults + 1

Without(a) == SelectSeq(line, LAMBDA b : b # a)

\* Bug: a row left keeps the head's dueAt.
BugDueAt(a, when) ==
    /\ place' = [place EXCEPT ![a] = when]
    /\ line' = CASE when # "line" -> Without(a)
                 [] Contains(line, a) -> line
                 [] OTHER -> Append(line, a)

\* The head of `a' is due then: one that is due now goes to the back.
DueAt(a, when) ==
    /\ place' = [place EXCEPT ![a] = when]
    /\ line' = IF when = "line" THEN Append(Without(a), a) ELSE Without(a)

\* A command writes a row: the head is inserted if there is none
\* ($setOnInsert dueAt).
Write(a) ==
    /\ place[a] = "none" /\ DueAt(a, "line")
    /\ UNCHANGED <<lease, order, relayed, pc, faults>>

\* The backoff of a head's failed row is over, or an operator redrives or skips
\* its dead row (requeue).
FallsDue(a) ==
    /\ place[a] = "off" /\ DueAt(a, "line")
    /\ UNCHANGED <<lease, order, relayed, pc, faults>>

\* dueAggregates, and the shuffle of a window wider than a batch.
Candidates == SubSeq(line, 1, IF Len(line) < Window THEN Len(line) ELSE Window)

Orders ==
    IF Len(Candidates) > Batch THEN SetToSeqs(Range(Candidates)) ELSE {Candidates}

Poll(r, first) ==
    /\ pc[r] = "idle"
    /\ pc' = [pc EXCEPT ![r] = "poll"]
    /\ \E s \in Orders :
         /\ s # <<>> /\ s[1] = first
         /\ order' = [order EXCEPT ![r] = s]
    /\ relayed' = [relayed EXCEPT ![r] = 0]
    /\ UNCHANGED <<heads, lease, faults>>

\* On to the rest of the candidates, with n relayed so far, unless none is left or
\* the batch is full.
GoOn(r, rest, n) ==
    LET over == rest = <<>> \/ n >= Batch IN
    /\ pc' = [pc EXCEPT ![r] = IF over THEN "idle" ELSE "poll"]
    /\ order' = [order EXCEPT ![r] = IF over THEN <<>> ELSE rest]
    /\ relayed' = [relayed EXCEPT ![r] = IF over THEN 0 ELSE n]

\* 'held': another instance has the lease; it does not count.
Held(r) ==
    /\ pc[r] = "poll"
    /\ lease[Head(order[r])] # "none"
    /\ GoOn(r, Tail(order[r]), relayed[r])
    /\ UNCHANGED <<heads, lease, faults>>

Acquire(r) ==
    /\ pc[r] = "poll"
    /\ lease[Head(order[r])] = "none"
    /\ lease' = [lease EXCEPT ![Head(order[r])] = r]
    /\ pc' = [pc EXCEPT ![r] = "work"]
    /\ UNCHANGED <<heads, order, relayed, faults>>

Release(r) ==
    LET a == Head(order[r]) IN
    lease' = IF lease[a] = r THEN [lease EXCEPT ![a] = "none"] ELSE lease

\* The rows of the aggregate go out or not, and settleHead writes what is left:
\* none, one that is due, or one that waits or is dead.  A head that another
\* relay retired or put off since the poll read it stays as it is.
Work(r) ==
    /\ pc[r] = "work"
    /\ LET a == Head(order[r]) IN
         IF place[a] = "line"
         THEN \E when \in {"none", "line", "off"} : DueAt(a, when)
         ELSE UNCHANGED heads
    /\ Release(r)
    /\ GoOn(r, Tail(order[r]), relayed[r] + 1)
    /\ UNCHANGED faults

\* settleHead fails, or a writer came in between: the head keeps its place.
WorkUnsettled(r) ==
    /\ pc[r] = "work" /\ Fault
    /\ Release(r)
    /\ GoOn(r, Tail(order[r]), relayed[r] + 1)
    /\ UNCHANGED heads

\* 'lock-down', 'messaging-disabled', a read that fails or a crash: the poll
\* ends where it is, and a lease stays until it expires.
Stops(r) ==
    /\ pc[r] # "idle" /\ Fault
    /\ GoOn(r, <<>>, 0)
    /\ UNCHANGED <<heads, lease>>

\* A lease expires: its holder is gone (Outbox has those that outlive it).
Expires(a) ==
    /\ \E r \in Relays :
         /\ lease[a] = r
         /\ ~(pc[r] = "work" /\ Head(order[r]) = a)
    /\ lease' = [lease EXCEPT ![a] = "none"]
    /\ UNCHANGED <<heads, order, relayed, pc, faults>>

Step(r) ==
    \/ \E a \in Aggregates : Poll(r, a)
    \/ Held(r) \/ Acquire(r) \/ Work(r) \/ WorkUnsettled(r)

Next ==
    \/ \E a \in Aggregates : Write(a) \/ FallsDue(a) \/ Expires(a)
    \/ \E r \in Relays : Step(r) \/ Stops(r)

\* The relays go on, leases expire, and a shuffle picks each of its candidates
\* first from time to time.
Fairness ==
    /\ \A r \in Relays : WF_vars(Step(r))
    /\ \A a \in Aggregates : WF_vars(Expires(a)) /\ SF_vars(\E r \in Relays : Poll(r, a))

Spec == Init /\ [][Next]_vars /\ Fairness

TypeOK ==
    /\ place \in [Aggregates -> {"none", "line", "off"}]
    /\ Range(line) = {a \in Aggregates : place[a] = "line"} /\ IsInjective(line)
    /\ lease \in [Aggregates -> Relays \cup {"none"}]
    /\ relayed \in [Relays -> 0..Batch]
    /\ \A r \in Relays : Range(order[r]) \subseteq Aggregates /\ Len(order[r]) <= Window
    /\ pc \in [Relays -> {"idle", "poll", "work"}]
    /\ faults \in 0..MaxFaults

(***************************************************************************)
(* No aggregate starves: an aggregate in line is relayed or leaves the line*)
(* again and again, however busy the others are (poll, outbox.relay.ts:198,*)
(* and settleHead's dueAt).                                                *)
(***************************************************************************)
Attended(a) == place[a] # "line" \/ lease[a] # "none"
NoneStarves == \A a \in Aggregates : []<>Attended(a)

=============================================================================
