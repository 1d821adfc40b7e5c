--------------------------- MODULE TenantDirectory ---------------------------
(***************************************************************************)
(* One tenant's record in TenantDirectoryService                           *)
(* (tenant-directory.service.ts), read through CacheClient.getOrLoad       *)
(* (cache.client.ts): one flight per process, which all its callers share, *)
(* asks the cache, then the collection, then fills the cache.              *)
(*                                                                         *)
(* An operator registers, suspends and activates the tenant, which deletes *)
(* the cached record if the cache answers.  Time passes in Ticks; a flight *)
(* is over within MaxLoad of them.                                         *)
(***************************************************************************)
EXTENDS Integers

CONSTANTS
    Processes,
    TTL,        \* TENANT_RECORD_CACHE_TTL_SECONDS
    MaxLoad

DirectoryAssumption == TTL \in Nat \ {0} /\ MaxLoad \in Nat

Statuses == {"unregistered", "active", "suspended"}
Miss == "miss"

VARIABLES
    record,     \* the tenant's status in the collection; null is cached too
    since,      \* ticks since it changed, up to Bound + 1
    deleting,   \* is a register() about to delete the cached record?
    cached,     \* the record in the cache, or Miss
    left,       \* ticks until it expires
    pc,         \* per process: where its flight is
    value,      \* per process: what the flight found
    deadline    \* per process: ticks left to it

flights == <<pc, value, deadline>>
vars == <<record, since, deleting, cached, left, flights>>

\* A flight may fill the cache with what it read just before the change.
Bound == TTL + MaxLoad

Init ==
    /\ record \in Statuses /\ since = Bound + 1 /\ deleting = FALSE
    /\ cached = Miss /\ left = 0
    /\ pc = [p \in Processes |-> "idle"]
    /\ value = [p \in Processes |-> Miss] /\ deadline = [p \in Processes |-> 0]

\* register: the record is upserted, then the cached one deleted; a cache that
\* fails is ignored.
Register(status) ==
    /\ ~deleting /\ status # record
    /\ record' = status /\ since' = 0 /\ deleting' = TRUE
    /\ UNCHANGED <<cached, left, flights>>

Delete ==
    /\ deleting /\ deleting' = FALSE
    /\ \/ cached' = Miss /\ left' = 0
       \/ UNCHANGED <<cached, left>>
    /\ UNCHANGED <<record, since, flights>>

\* find: a caller starts a flight, or waits for the one under way.
Find(p) ==
    /\ pc[p] = "idle"
    /\ pc' = [pc EXCEPT ![p] = "get"]
    /\ deadline' = [deadline EXCEPT ![p] = MaxLoad]
    /\ UNCHANGED <<record, since, deleting, cached, left, value>>

\* A hit answers; a miss or a cache that fails loads.
Get(p) ==
    /\ pc[p] = "get"
    /\ \/ /\ cached # Miss
          /\ value' = [value EXCEPT ![p] = cached]
          /\ pc' = [pc EXCEPT ![p] = "answer"]
       \/ pc' = [pc EXCEPT ![p] = "load"] /\ UNCHANGED value
    /\ UNCHANGED <<record, since, deleting, cached, left, deadline>>

Load(p) ==
    /\ pc[p] = "load"
    /\ value' = [value EXCEPT ![p] = record]
    /\ pc' = [pc EXCEPT ![p] = "set"]
    /\ UNCHANGED <<record, since, deleting, cached, left, deadline>>

\* The cache is filled, or its failure ignored.
Set(p) ==
    /\ pc[p] = "set"
    /\ \/ cached' = value[p] /\ left' = TTL
       \/ UNCHANGED <<cached, left>>
    /\ pc' = [pc EXCEPT ![p] = "answer"]
    /\ UNCHANGED <<record, since, deleting, value, deadline>>

\* The callers have their answer, or the loader's error.
Land(p) ==
    /\ pc[p] \in {"load", "answer"}
    /\ pc' = [pc EXCEPT ![p] = "idle"]
    /\ value' = [value EXCEPT ![p] = Miss] /\ deadline' = [deadline EXCEPT ![p] = 0]
    /\ UNCHANGED <<record, since, deleting, cached, left>>

Tick ==
    /\ \A p \in Processes : pc[p] = "idle" \/ (pc[p] # "answer" /\ deadline[p] > 0)
    /\ since' = IF since > Bound THEN since ELSE since + 1
    /\ left' = IF left > 0 THEN left - 1 ELSE 0
    /\ cached' = IF left > 1 THEN cached ELSE Miss
    /\ deadline' = [p \in Processes |-> IF pc[p] = "idle" THEN 0 ELSE deadline[p] - 1]
    /\ UNCHANGED <<record, deleting, pc, value>>

Next ==
    \/ Tick \/ Delete
    \/ \E s \in Statuses \ {"unregistered"} : Register(s)
    \/ \E p \in Processes : Find(p) \/ Get(p) \/ Load(p) \/ Set(p) \/ Land(p)

Spec == Init /\ [][Next]_vars

-----------------------------------------------------------------------------
(* The properties.                                                         *)

\* Every variable holds a value the code can give it; a cached record expires.
TypeOK ==
    /\ record \in Statuses /\ since \in 0..Bound + 1 /\ deleting \in BOOLEAN
    /\ cached \in Statuses \cup {Miss} /\ left \in 0..TTL
    /\ cached = Miss <=> left = 0
    /\ pc \in [Processes -> {"idle", "get", "load", "set", "answer"}]
    /\ value \in [Processes -> Statuses \cup {Miss}]
    /\ deadline \in [Processes -> 0..MaxLoad]

\* "Suspending a tenant takes effect within that window on every process": no
\* answer is older than the cache's window and a flight's time, whether or not
\* the delete came through and whatever loads it raced.
StaleIsBounded ==
    \A p \in Processes : pc[p] = "answer" /\ value[p] # record => since <= Bound

=============================================================================
