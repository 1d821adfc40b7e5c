----------------------------- MODULE RelayLease -----------------------------
(***************************************************************************)
(* The clocks behind "no row is published by two instances at once": the   *)
(* lease of one aggregate in Redis (redis-lock.adapter.ts) and the timer   *)
(* on each publish (withTimeout, withRenewal and relayAggregate in         *)
(* outbox.relay.ts).                                                       *)
(*                                                                         *)
(* Time passes in Ticks.  A relay is punctual in two things only: it acts  *)
(* on the reply of lease.renew within ReplyDelay of Redis having run it,   *)
(* and its publish timer fires after PublishTimeout.  Database calls take  *)
(* any time, heartbeats may all fail, a process may stop anywhere.         *)
(*                                                                         *)
(* Abstracted: what is published, and the outcome of a publish (Outbox     *)
(* models both).  A relay works under one lease at a time, so its name     *)
(* stands for the lease's token.                                           *)
(***************************************************************************)
EXTENDS Integers

CONSTANTS
    Relays,
    LeaseTTL,           \* AGGREGATE_LEASE_TTL_MS
    PublishTimeout,     \* OUTBOX_PUBLISH_TIMEOUT_MS
    ReplyDelay          \* from Redis running a renewal to the publish timer

\* "The lease outlives the publish timeout."
ASSUME TimesAssumption ==
    /\ PublishTimeout \in Nat
    /\ ReplyDelay \in Nat
    /\ LeaseTTL \in Nat
    /\ ReplyDelay + PublishTimeout < LeaseTTL

None == "none"
ASSUME NoneAssumption == None \notin Relays

VARIABLES
    owner,  \* the token stored under the lease key, or None
    ttl,    \* time left on the key
    pc,     \* per relay: "idle", "held", "reply", "publish", "mark", "release"
    timer   \* per relay: time left for the reply or the publish

vars == <<owner, ttl, pc, timer>>

Go(r, where) == pc' = [pc EXCEPT ![r] = where]

Init ==
    /\ owner = None
    /\ ttl = 0
    /\ pc = [r \in Relays |-> "idle"]
    /\ timer = [r \in Relays |-> 0]

\* lock.acquire: SET NX PX.
Acquire(r) ==
    /\ pc[r] = "idle"
    /\ owner = None
    /\ owner' = r
    /\ ttl' = LeaseTTL
    /\ Go(r, "held")
    /\ UNCHANGED timer

\* Once headOf has answered, lease.renew runs in Redis: GET = token, PEXPIRE.
\* A lost lease, or a failed call, ends the work.
Renew(r) ==
    /\ pc[r] = "held"
    /\ \/ /\ owner = r
          /\ ttl' = LeaseTTL
          /\ timer' = [timer EXCEPT ![r] = ReplyDelay]
          /\ Go(r, "reply")
       \/ /\ Go(r, "release")
          /\ UNCHANGED <<ttl, timer>>
    /\ UNCHANGED owner

\* The reply is in: the publish and its timer start.
Publish(r) ==
    /\ pc[r] = "reply"
    /\ timer' = [timer EXCEPT ![r] = PublishTimeout]
    /\ Go(r, "publish")
    /\ UNCHANGED <<owner, ttl>>

\* The broker answers, or the timer fires.
Settle(r) ==
    /\ pc[r] = "publish"
    /\ timer' = [timer EXCEPT ![r] = 0]
    /\ Go(r, "mark")
    /\ UNCHANGED <<owner, ttl>>

\* withRenewal's interval, while the publish and its mark run.
Heartbeat(r) ==
    /\ pc[r] \in {"publish", "mark"}
    /\ owner = r
    /\ ttl' = LeaseTTL
    /\ UNCHANGED <<owner, pc, timer>>

\* The row is marked: the next row, or the end ('failed', 'drained').
Marked(r) ==
    /\ pc[r] = "mark"
    /\ \/ Go(r, "held")
       \/ Go(r, "release")
    /\ UNCHANGED <<owner, ttl, timer>>

\* Bug: DEL without comparing the token.
BugReleaseAny(r) ==
    /\ pc[r] = "release"
    /\ owner' = None
    /\ ttl' = 0
    /\ Go(r, "idle")
    /\ UNCHANGED timer

\* settleHead is done: lease.release runs GET = token, DEL, or fails.
Release(r) ==
    /\ pc[r] = "release"
    /\ \/ owner = r /\ owner' = None /\ ttl' = 0
       \/ UNCHANGED <<owner, ttl>>
    /\ Go(r, "idle")
    /\ UNCHANGED timer

\* The process stops; what it handed to the broker is not its publish anymore.
Crash(r) ==
    /\ pc[r] # "idle"
    /\ timer' = [timer EXCEPT ![r] = 0]
    /\ Go(r, "idle")
    /\ UNCHANGED <<owner, ttl>>

\* Time passes, not beyond the moment a punctual relay acts; the key expires.
Tick ==
    /\ \A r \in Relays : pc[r] \in {"reply", "publish"} => timer[r] > 0
    /\ timer' = [r \in Relays |-> IF timer[r] > 0 THEN timer[r] - 1 ELSE 0]
    /\ ttl' = IF ttl > 0 THEN ttl - 1 ELSE 0
    /\ owner' = IF ttl > 1 THEN owner ELSE None
    /\ UNCHANGED pc

Relay(r) ==
    \/ Acquire(r) \/ Renew(r) \/ Publish(r) \/ Settle(r) \/ Heartbeat(r)
    \/ Marked(r) \/ Release(r) \/ Crash(r)

Next == Tick \/ \E r \in Relays : Relay(r)

\* Time passes and punctual relays act.
Spec == /\ Init /\ [][Next]_vars
        /\ WF_vars(Tick)
        /\ \A r \in Relays : WF_vars(Publish(r)) /\ WF_vars(Settle(r))

-----------------------------------------------------------------------------
(* The properties.                                                         *)

\* Every variable holds a value the code can give it; the key has a time to
\* live exactly while it is there.
TypeOK ==
    /\ owner \in Relays \cup {None}
    /\ ttl \in 0..LeaseTTL
    /\ pc \in [Relays -> {"idle", "held", "reply", "publish", "mark", "release"}]
    /\ timer \in [Relays -> Nat]

\* "No row is published by two instances at once", whatever the database and
\* Redis calls between two publishes take and whether or not a heartbeat gets
\* through.
OnePublisher ==
    \A r, s \in Relays : pc[r] = "publish" /\ pc[s] = "publish" => r = s

\* A relay that publishes still has its lease, with time to spare for its
\* publish to end.
PublisherHoldsLease ==
    \A r \in Relays : pc[r] = "publish" => owner = r /\ timer[r] < ttl

NotOrphaned(r) == owner # r \/ pc[r] # "idle"

\* The lease of a relay that stopped is free again after its time.
OrphanExpires == \A r \in Relays : []<>NotOrphaned(r)

=============================================================================
