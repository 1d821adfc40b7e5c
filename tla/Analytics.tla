----------------------------- MODULE Analytics ------------------------------
(***************************************************************************)
(* A tenant's recorded events and their statistics (AnalyticsService): an  *)
(* event is logged with its outbox row in one transaction and the cached   *)
(* statistics are deleted; the relay and the sink (modules Outbox and      *)
(* EventConsumer) bring it to the OLAP store; getStats reads the cache or  *)
(* counts the store's rows and fills the cache, with no single flight.     *)
(*                                                                         *)
(* Time passes in Ticks; a reading is over within MaxLoad of them.  The    *)
(* day the statistics look back on is longer than a behaviour.             *)
(***************************************************************************)
EXTENDS Integers

CONSTANTS
    Events,
    Readers,
    TTL,            \* ANALYTICS_CACHE_TTL_SEC
    MaxLoad

Miss == {"miss"}

AnalyticsAssumption == TTL \in Nat \ {0} /\ MaxLoad \in Nat /\ Miss \notin SUBSET Events

VARIABLES
    event,          \* per event: where it is
    age,            \* per event: ticks since it was stored, up to Bound + 1
    busting,        \* the creations about to delete the cached statistics
    cached,         \* the events the cached statistics count, or Miss
    left,           \* ticks until they expire
    pc,             \* per reader: where its call is
    value,          \* per reader: the events its answer counts
    deadline        \* per reader: ticks left to it

readings == <<pc, value, deadline>>
vars == <<event, age, busting, cached, left, readings>>

Bound == TTL + MaxLoad
Stored == {e \in Events : event[e] = "stored"}

Init ==
    /\ event = [e \in Events |-> "none"] /\ age = [e \in Events |-> 0] /\ busting = {}
    /\ cached = Miss /\ left = 0
    /\ pc = [r \in Readers |-> "idle"]
    /\ value = [r \in Readers |-> {}] /\ deadline = [r \in Readers |-> 0]

\* create: the log entry and the outbox row commit together.
Create(e) ==
    /\ event[e] = "none"
    /\ event' = [event EXCEPT ![e] = "logged"]
    /\ busting' = busting \cup {e}
    /\ UNCHANGED <<age, cached, left, readings>>

\* The statistics are deleted; a cache that fails fails the call, after the
\* commit.
Bust(e) ==
    /\ e \in busting /\ busting' = busting \ {e}
    /\ \/ cached' = Miss /\ left' = 0
       \/ UNCHANGED <<cached, left>>
    /\ UNCHANGED <<event, age, readings>>

\* The sink stores the event.
Store(e) ==
    /\ event[e] = "logged"
    /\ event' = [event EXCEPT ![e] = "stored"]
    /\ UNCHANGED <<age, busting, cached, left, readings>>

Go(r, next) == pc' = [pc EXCEPT ![r] = next]

GetStats(r) ==
    /\ pc[r] = "idle" /\ Go(r, "get")
    /\ deadline' = [deadline EXCEPT ![r] = MaxLoad]
    /\ UNCHANGED <<event, age, busting, cached, left, value>>

Hit(r) ==
    /\ pc[r] = "get" /\ cached # Miss /\ Go(r, "answer")
    /\ value' = [value EXCEPT ![r] = cached]
    /\ UNCHANGED <<event, age, busting, cached, left, deadline>>

\* A miss counts the rows of the store.
Count(r) ==
    /\ pc[r] = "get" /\ cached = Miss /\ Go(r, "set")
    /\ value' = [value EXCEPT ![r] = Stored]
    /\ UNCHANGED <<event, age, busting, cached, left, deadline>>

Set(r) ==
    /\ pc[r] = "set" /\ Go(r, "answer")
    /\ cached' = value[r] /\ left' = TTL
    /\ UNCHANGED <<event, age, busting, value, deadline>>

\* The answer is given; or a call to the cache or the store failed.
Ends(r) ==
    /\ pc[r] # "idle" /\ Go(r, "idle")
    /\ value' = [value EXCEPT ![r] = {}] /\ deadline' = [deadline EXCEPT ![r] = 0]
    /\ UNCHANGED <<event, age, busting, cached, left>>

Tick ==
    /\ \A r \in Readers : pc[r] = "idle" \/ (pc[r] # "answer" /\ deadline[r] > 0)
    /\ age' = [e \in Events |-> IF event[e] = "stored" /\ age[e] <= Bound
                                THEN age[e] + 1 ELSE age[e]]
    /\ left' = IF left > 0 THEN left - 1 ELSE 0
    /\ cached' = IF left > 1 THEN cached ELSE Miss
    /\ deadline' = [r \in Readers |-> IF pc[r] = "idle" THEN 0 ELSE deadline[r] - 1]
    /\ UNCHANGED <<event, busting, pc, value>>

Next ==
    \/ Tick
    \/ \E e \in Events : Create(e) \/ Bust(e) \/ Store(e)
    \/ \E r \in Readers : GetStats(r) \/ Hit(r) \/ Count(r) \/ Set(r) \/ Ends(r)

Spec == Init /\ [][Next]_vars

-----------------------------------------------------------------------------
(* The properties.                                                         *)

\* Every variable holds a value the code can give it.
TypeOK ==
    /\ event \in [Events -> {"none", "logged", "stored"}]
    /\ age \in [Events -> 0..Bound + 1] /\ busting \subseteq Events
    /\ (cached = Miss \/ cached \subseteq Events) /\ left \in 0..TTL
    /\ cached = Miss <=> left = 0
    /\ pc \in [Readers -> {"idle", "get", "set", "answer"}]
    /\ value \in [Readers -> SUBSET Events] /\ deadline \in [Readers -> 0..MaxLoad]

\* "Reads are never stale > 30s", and a reading's time: an answer that leaves
\* out a stored event was counted that recently, whichever deletion came
\* before the event was stored and whichever reader filled the cache late.
StatsAreRecent ==
    \A r \in Readers : pc[r] = "answer" =>
        \A e \in Stored \ value[r] : age[e] <= Bound

=============================================================================
