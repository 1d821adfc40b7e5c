-------------------------- MODULE MCEventConsumer --------------------------
(* Three parts in one model: a behaviour is one part's, and the others     *)
(* rest in their initial states.  The consumers: an event published twice  *)
(* and a batch that holds it with another one; a claim that lasts two      *)
(* ticks and may come one tick after its delivery.  The relays' polls:     *)
(* three aggregates, a window of two and batches of one, so that a window  *)
(* is shuffled and somebody is left out of it.  The outbox, for what must  *)
(* happen in the end: two rows, two relays that may outlive their lease,   *)
(* no operator, and one failure at any step.                               *)
EXTENDS EventConsumer, TLC

VARIABLES
    part,
    \* RelayPoll
    place, line, leases, order, relayed, pollPc, pollFaults,
    \* Outbox
    rows, head, rowLease, relayPc, cur, sent, seenHead, found, transit, delivered,
    repair, op, ops, faults

MCBatch == [m1 |-> {"a"}, m2 |-> {"a", "b"}]
MCWorkers == {"v", "w"}
MCMessages == {"m1", "m2"}
MCKeys == {"a", "b"}

Relays == {"r", "s"}
Aggregates == {"x", "y", "z"}

Polls == INSTANCE RelayPoll WITH
    Window <- 2, Batch <- 1, MaxFaults <- 1,
    lease <- leases, pc <- pollPc, faults <- pollFaults

Ordered == INSTANCE Outbox WITH
    Repairers <- {"sweep"}, MaxAttempts <- 1, RowsPerAggregate <- 2, Pauses <- TRUE,
    MaxRows <- 2, MaxOps <- 0, MaxFaults <- 1,
    lease <- rowLease, pc <- relayPc, seen <- seenHead

pollVars == <<place, line, leases, order, relayed, pollPc, pollFaults>>
outboxVars == <<rows, head, rowLease, relayPc, cur, sent, seenHead, found, transit,
                delivered, repair, op, ops, faults>>
partVars == <<part, vars, pollVars, outboxVars>>

MCInit == part \in {"consumer", "polls", "outbox"} /\ Init /\ Polls!Init /\ Ordered!Init

OnConsumer(A) == part = "consumer" /\ A /\ UNCHANGED <<part, pollVars, outboxVars>>
OnPolls(A) == part = "polls" /\ A /\ UNCHANGED <<part, vars, outboxVars>>
OnOutbox(A) == part = "outbox" /\ A /\ UNCHANGED <<part, vars, pollVars>>

\* Workers with nothing to do are alike: of two, v is the one that is handed a
\* message.
FirstToV == pc["v"] = "idle" /\ pc["w"] = "idle" => pc'["w"] = "idle"

MCNext ==
    \/ OnConsumer(Next) /\ FirstToV
    \/ OnPolls(Polls!Next) \/ OnOutbox(Ordered!Next)

\* The steps of the consumers that must go on.  A message is delivered a bounded
\* number of times, so the consumers come to rest in the end, and there weak
\* fairness of one of these steps says what it says of each.
ConsumerStep ==
    \/ Tick
    \/ \E m \in Messages : AckRunsOut(m) \/ \E w \in Workers : Deliver(w, m)
    \/ \E w \in Workers : Attempt(w)

\* The fairness of the parts.  Only one part moves in a behaviour, so a
\* condition on an action of each is a condition on each of them.  There is no
\* operator here, whose commands would have to end.
MCFairness ==
    /\ WF_partVars(OnConsumer(ConsumerStep) \/ OnPolls(Polls!Step("r"))
                   \/ OnOutbox(Ordered!Relay("r")))
    /\ WF_partVars(OnPolls(Polls!Step("s")) \/ OnOutbox(Ordered!Relay("s")))
    /\ WF_partVars(OnPolls(Polls!Expires("x")) \/ OnOutbox(Ordered!Repair("sweep")))
    /\ WF_partVars(OnPolls(Polls!Expires("y")) \/ OnOutbox(Ordered!LeaseExpires /\ UNCHANGED faults))
    /\ WF_partVars(OnPolls(Polls!Expires("z"))
                   \/ OnOutbox(\E i \in DOMAIN rows : Ordered!RowFallsDue(i)))
    /\ WF_partVars(OnOutbox(Ordered!HeadFallsDue))
    /\ SF_partVars(OnPolls(\E r \in Relays : Polls!Poll(r, "x")) \/ OnOutbox(Ordered!Acquire("r")))
    /\ SF_partVars(OnPolls(\E r \in Relays : Polls!Poll(r, "y")) \/ OnOutbox(Ordered!Acquire("s")))
    /\ SF_partVars(OnPolls(\E r \in Relays : Polls!Poll(r, "z")))

MCSpec == MCInit /\ [][MCNext]_partVars /\ MCFairness

-----------------------------------------------------------------------------

\* EveryMessageSettles, of the consumers' behaviours: every message is acked or
\* dead-lettered in the end.
MessagesSettle == \A m \in Messages : []<>(part = "consumer" => Settled(m))

\* NoneStarves, of the polls' behaviours: an aggregate in the outbox's line has
\* its turn, and the line is made of the heads that are due.
NoneStarves ==
    /\ \A x \in Aggregates : []<>(part = "polls" => Polls!Attended(x))
    /\ []Polls!TypeOK

\* RowIsSettled, of the outbox's behaviours: every row is DISPATCHED in the
\* end, or a DEAD row is the row itself or is ahead of it.  So a PENDING row at
\* the head of its aggregate is tried in the end (PendingHeadIsServed).
RowIsSettled ==
    \A i \in 1..2 :
        []<>(part = "outbox" /\ Ordered!Open(i) => \E k \in 1..i : rows[k].status = "dead")

=============================================================================
