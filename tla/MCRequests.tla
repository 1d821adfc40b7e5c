----------------------------- MODULE MCRequests -----------------------------
(* The parts at the sizes TLC checks them: four callers of the breaker let *)
(* two calls from before it opened settle around two probes; two logins,   *)
(* two sockets, two tabs, two workers and two connections overlap as far   *)
(* as their code lets them.                                                *)
EXTENDS Requests

MCKeysOf == [a \in Logins |-> Keys]
MCLimit == [k \in Keys |-> 2]

\* What a part starts with is left to it alone to choose.
MCInit ==
    /\ PartsInit
    /\ part # "client" => native = FALSE /\ locks = FALSE
    /\ part # "vault" => appRole = TRUE
    /\ part # "workers" => temporalUp = TRUE
    /\ part # "directory" => tenant = "active"
    /\ part # "probes" => healthy = TRUE

\* The fairness of every part.  Only one part moves in a behaviour, so a
\* condition on one action of each part is a condition on each of them.
MCFairness ==
    /\ WF_partVars(OnBreaker(Elapse) \/ OnLockout(Lockout!Tick) \/ OnSockets(Realtime!Sweep)
                   \/ OnVault(Vault!Adapter) \/ OnWorkers(Workers!Tick)
                   \/ OnRole(Lifecycle!Teardown) \/ OnQueue(Queue!Works("j"))
                   \/ OnProbes(Probes!Tick))
    /\ WF_partVars(OnBreaker(\E c \in Calls : FireClosed(c) \/ FireProbe(c))
                   \/ OnSockets(Realtime!TimerFires("s")) \/ OnVault(Vault!Restore)
                   \/ OnWorkers(Workers!Restore) \/ OnRole(Lifecycle!Answer("c"))
                   \/ OnQueue(Queue!Works("k")) \/ OnProbes(Probes!TimesOut))
    /\ WF_partVars(OnBreaker(Settles(1)) \/ OnLockout(Lockout!Step("a"))
                   \/ OnSockets(Realtime!TimerFires("t")) \/ OnWorkers(Workers!Go("p"))
                   \/ OnRole(Lifecycle!Answer("d")) \/ OnProbes(Probes!Given("a")))
    /\ WF_partVars(OnBreaker(Settles(2)) \/ OnLockout(Lockout!Step("b"))
                   \/ OnSockets(Realtime!Handshake("s")) \/ OnWorkers(Workers!Go("q"))
                   \/ OnRole(Lifecycle!Ended("c")) \/ OnProbes(Probes!Given("b")))
    /\ WF_partVars(OnBreaker(Settles(3)) \/ OnSockets(Realtime!Handshake("t"))
                   \/ OnWorkers(Workers!AttemptSettles) \/ OnRole(Lifecycle!Ended("d")))
    /\ WF_partVars(OnBreaker(Settles(4)) \/ OnClient(Client!Run("t"))
                   \/ OnWorkers(Workers!LinkSettles))
    /\ WF_partVars(OnClient(Client!Run("u")) \/ OnWorkers(Workers!Stopping))

MCSpec == MCInit /\ [][PartsNext]_partVars /\ MCFairness

-----------------------------------------------------------------------------
\* Nothing stays shut: an open breaker lets a call through again, nobody stays
\* locked out, a socket whose token or session ended is closed, every call of
\* the refresher answers unless a body never ends, and so does every readiness
\* call, Vault's token and Temporal's workers come back, a shutdown ends and so
\* does every job:
\* Recovers, LockoutEnds, EndedCloses, RefreshAnswers, EveryCallAnswers,
\* Recovers, ComesUp, ShutdownEnds and JobsEnd, each of its part's behaviours.
Progress ==
    /\ []<>(part = "breaker" => LetsThrough)
    /\ []<>(part = "lockout" => Lockout!Free("email"))
    /\ \A s \in {"s", "t"} : []<>(part = "sockets" => Realtime!Valid(s))
    /\ \A t \in {"t", "u"} : []<>(part = "client" => Client!Idle(t) \/ Client!Stuck(t))
    /\ \A c \in {"a", "b"} : []<>(part = "probes" => Probes!Answered(c))
    /\ []<>(part = "vault" => Vault!Usable)
    /\ \A q \in {"p", "q"} : []<>(part = "workers" => Workers!Polls(q))
    /\ []<>(part = "workers" => Workers!Settled)
    /\ []<>(part = "role" => Lifecycle!Settled)
    /\ \A j \in {"j", "k"} : []<>(part = "queue" => Queue!Ended(j))

=============================================================================
