---------------------------- MODULE MCMessaging ----------------------------
(* The parts that carry a message at the sizes TLC checks them.  The       *)
(* relays' lease: three relays, and a lease that outlives a late reply and *)
(* a publish by one tick, the tightest its assumption allows.  Kafka: two  *)
(* members and two records.  Pulsar: two messages and up to three          *)
(* subscriptions.  Tracking: two events, as many posts as there can be,    *)
(* and a repeated one.  Two operators redrive two dead letters.            *)
EXTENDS Messaging

MCRelays == {"a", "b", "c"}
MCMembers == {"a", "b"}
MCMessages == {"m", "n"}
MCEvents == {"e", "f"}
MCPosts == {"p", "q"}
MCRepeats == {"r"}
MCOperators == {"o", "p"}

\* The fairness of every part.  Only one part moves in a behaviour, so a
\* condition on one action of each part is a condition on each of them.
\* What subscriptions do is finite, so conditions on several of its actions
\* together ask no less than Subscription's own, on each.
MCFairness ==
    /\ WF_partVars(OnLease(Tick) \/ OnKafka(Kafka!Tick) \/ OnPulsar(Pulsar!Connecting)
                   \/ OnTracker(Tracker!FlushNow))
    /\ WF_partVars(OnLease(Publish("a")) \/ OnKafka(\E m \in Members : Kafka!Assign(m))
                   \/ OnPulsar(Pulsar!TimerFires) \/ OnTracker(Tracker!Ingest("p")))
    /\ WF_partVars(OnLease(Publish("b")) \/ OnKafka(Kafka!Step("a"))
                   \/ OnPulsar(Pulsar!CloseHeld) \/ OnTracker(Tracker!Ingest("q")))
    /\ WF_partVars(OnLease(Publish("c")) \/ OnKafka(Kafka!Step("b"))
                   \/ OnPulsar(Pulsar!Closed) \/ OnTracker(Tracker!Ingest("r")))
    /\ WF_partVars(OnLease(Settle("a")) \/ OnTracker(Tracker!Handle("p")) \/ OnKafka(Kafka!Evict("a"))
                   \/ OnPulsar(\E s \in 1..3 :
                          \/ Pulsar!Handler(s) \/ Pulsar!Closing(s)
                          \/ Pulsar!LoopStops(s) \/ Pulsar!Stopped(s)))
    /\ WF_partVars(OnLease(Settle("b")) \/ OnTracker(Tracker!Handle("q")) \/ OnKafka(Kafka!Evict("b"))
                   \/ OnPulsar(\E s \in 1..3 :
                          \/ Pulsar!ReceiveFails(s) /\ consumer[s] = "closed"
                          \/ \E m \in Messages :
                                 \/ Pulsar!Receive(s, m) \/ Pulsar!HoldOver(s, m)
                                 \/ Pulsar!AckTimeout(s, m)))
    /\ WF_partVars(OnLease(Settle("c")) \/ OnTracker(Tracker!Handle("r")))

MCSpec == PartsSpec /\ MCFairness

=============================================================================
