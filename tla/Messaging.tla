----------------------------- MODULE Messaging -----------------------------
(* The parts that carry a message, in one model: a behaviour is one part's *)
(* and the others rest in their initial states.                            *)
EXTENDS RelayLease

CONSTANTS
    MaxRedeliveries, MaxFaults,
    Members, MaxRecords, ClaimTTL, SessionTimeout, HeartbeatInterval,   \* KafkaConsumer
    Messages, MaxSubs, MaxFailures,                                     \* Subscription
    Events, Posts, Repeats, MaxBatch,                                   \* Tracking
    Operators, Count                                                    \* Redrive

VARIABLES
    part,
    \* KafkaConsumer
    end, committed, from, group, assigned, session, memberPc, ends, next, attempt, closing,
    claim, claimTtl, handled, dead, presumed, faults,
    \* Subscription
    state, enabled, failures, connecting, sub, made, retry, closer, consumer, running, loop,
    msg, held, closings, stopped, at, tries,
    \* Tracking
    tracked, buffer, batch, ingestPc, fresh, mine, seen, message, handler,
    deliveries, taken, mark, rows, doubtful, trackFaults,
    \* Redrive
    kept, arrived, published, redrivePc, holds, moved, overlapped, redriveFaults

Kafka == INSTANCE KafkaConsumer WITH
    owner <- assigned, pc <- memberPc, ttl <- claimTtl

Pulsar == INSTANCE Subscription WITH
    attempt <- connecting, closing <- closings, timer <- retry

Tracker == INSTANCE Tracking WITH
    pc <- ingestPc, tries <- deliveries, faults <- trackFaults

Letters == INSTANCE Redrive WITH
    pc <- redrivePc, faults <- redriveFaults

ASSUME PartsAssumption ==
    /\ Kafka!KafkaAssumption /\ Kafka!MembersAssumption
    /\ Pulsar!SubscriptionAssumption /\ Pulsar!MessagesAssumption
    /\ Tracker!TrackingAssumption
    /\ Letters!RedriveAssumption

kafkaVars == <<end, committed, from, group, assigned, session, memberPc, ends, next, attempt,
               closing, claim, claimTtl, handled, dead, presumed, faults>>
pulsarVars == <<state, enabled, failures, connecting, sub, made, retry, closer, consumer,
                running, loop, msg, held, closings, stopped, at, tries>>
trackVars == <<tracked, buffer, batch, ingestPc, fresh, mine, seen, message,
               handler, deliveries, taken, mark, rows, doubtful, trackFaults>>
redriveVars == <<kept, arrived, published, redrivePc, holds, moved, overlapped,
                 redriveFaults>>
sideVars == <<trackVars, redriveVars>>
partVars == <<part, vars, kafkaVars, pulsarVars, sideVars>>

PartsInit ==
    /\ part \in {"lease", "kafka", "pulsar", "tracker", "redrive"}
    /\ Init /\ Kafka!Init /\ Pulsar!Init /\ Tracker!Init /\ Letters!Init
    /\ part # "pulsar" => ~enabled

OnLease(A) == part = "lease" /\ A /\ UNCHANGED <<part, kafkaVars, pulsarVars, sideVars>>
OnKafka(A) == part = "kafka" /\ A /\ UNCHANGED <<part, vars, pulsarVars, sideVars>>
OnPulsar(A) == part = "pulsar" /\ A /\ UNCHANGED <<part, vars, kafkaVars, sideVars>>
OnTracker(A) ==
    part = "tracker" /\ A /\ UNCHANGED <<part, vars, kafkaVars, pulsarVars, redriveVars>>
OnLetters(A) ==
    part = "redrive" /\ A /\ UNCHANGED <<part, vars, kafkaVars, pulsarVars, trackVars>>

PartsNext == OnLease(Next) \/ OnKafka(Kafka!Next) \/ OnPulsar(Pulsar!Next)
             \/ OnTracker(Tracker!Next) \/ OnLetters(Letters!Next)

PartsSpec == PartsInit /\ [][PartsNext]_partVars

-----------------------------------------------------------------------------
(* The properties of the instances, by the names they have there.          *)

\* The type invariants of the parts.
TypesOK == TypeOK /\ Kafka!TypeOK /\ Pulsar!TypeOK /\ Tracker!TypeOK /\ Letters!TypeOK
\* A group's offset passes no record that is not settled or under the claim of a
\* member the group dropped, a dead letter stays until it was published again,
\* and a tracked event is not forgotten: it is in one batch, seen only when
\* published, and stored when its message is acked.
NothingLost ==
    /\ Kafka!LostOnlyUnderClaim /\ Letters!KeptOrPublished
    /\ Tracker!BatchedOnce /\ Tracker!SeenIsPublished /\ Tracker!AckedIsStored
\* "If the process dies mid-retry the offset is uncommitted, the message is
\* redelivered to another member" (kafka-messaging.adapter.ts).
NeverSkipped == Kafka!NeverSkipped
\* A partition is worked through in order.
PartitionInOrder == Kafka!PartitionInOrder
\* One receive loop, one consumer, and none behind a closed consumer; one row
\* per tracked event.
NothingTwice == Pulsar!OneLoop /\ Pulsar!ClosedIsQuiet /\ Tracker!OneRow
\* Every message and record is settled, as long as somebody consumes, and
\* every buffer is flushed: RecordsSettle, MessagesSettle and
\* EverythingSettles, each of its part's behaviours.
MessagesSettle ==
    /\ \A r \in Kafka!Records : []<>(part = "kafka" => Kafka!Finished(r))
    /\ \A m \in Messages : []<>(part = "pulsar" => at[m] \notin Pulsar!Subs)
    /\ \A r \in Tracker!Requests : []<>(part = "tracker" => Tracker!Settled(r))
    /\ []<>(part = "tracker" => Tracker!Flushed)
\* What stopped goes on and what closes ends: the lease of a relay that stopped
\* is free again (OrphanExpires), a consumer that was not closed is subscribed
\* again (StaysSubscribed), and close() resolves (CloseEnds, CloseResolves).
GoesOn ==
    /\ \A r \in Relays : []<>(part = "lease" => NotOrphaned(r))
    /\ \A m \in Members : []<>(part = "kafka" => m \notin closing)
    /\ []<>(part = "pulsar" => closer \in {"no", "done"})
    /\ []<>(part = "pulsar" => ~enabled \/ closer # "no" \/ Pulsar!IsSubscribed)

=============================================================================
