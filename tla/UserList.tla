------------------------------ MODULE UserList ------------------------------
(***************************************************************************)
(* The dashboard's cached list of users (useUsersQuery.ts): it is fetched  *)
(* when it is shown or a window is focused, a creation adds a draft row to *)
(* it at once and restores the list it found if it fails, a deletion takes *)
(* its row away, and a creation or an edit that succeeds fetches it again. *)
(*                                                                         *)
(* TanStack Query is external: it runs one fetch of the list at a time,    *)
(* drops the answer of one that was cancelled, replaces one under way when *)
(* the list is invalidated, and ignores data that is undefined.            *)
(* Abstracted: what a user's row says, other administrators' changes, and  *)
(* the edit, whose only effect on this list is a Fetch.                    *)
(***************************************************************************)
EXTENDS Integers

CONSTANTS
    Old,            \* the users there are
    New,            \* those the page creates
    MaxFaults       \* bounds the requests that fail

Users == Old \cup New

ListAssumption == MaxFaults \in Nat /\ Old \cap New = {}

VARIABLES
    server,         \* the users of the service
    list,           \* the cached list: is there one, its users and its drafts
    fetch,          \* "none", "asked" or "answered"
    answer,         \* the users the service answered the fetch with
    creating,       \* per new user: where its creation is
    prev,           \* per new user: the list to restore
    muddled,        \* the creations that found, or left, the list unsettled
    deleting,       \* the deletions under way
    stale,          \* may the list be wrong until it is fetched again?
    late,           \* will the answer under way make it so?
    faults

lists == <<list, fetch, answer>>
vars == <<server, lists, creating, prev, muddled, deleting, stale, late, faults>>

Unloaded == [loaded |-> FALSE, users |-> {}, drafts |-> {}]

Init ==
    /\ server = Old /\ list = Unloaded /\ fetch = "none" /\ answer = {}
    /\ creating = [u \in New |-> "idle"] /\ prev = [u \in New |-> Unloaded]
    /\ muddled = {} /\ deleting = {}
    /\ stale = FALSE /\ late = FALSE /\ faults = 0

Fault == faults < MaxFaults /\ faults' = faults + 1

Open == {u \in New : creating[u] \in {"sent", "made", "failed"}}

-----------------------------------------------------------------------------
(* The query.                                                              *)

\* A fetch replaces the one under way, and a cancelled one leaves no answer.
SetFetch(next) == fetch' = next /\ answer' = {} /\ late' = FALSE

\* useUsers: the list is shown, the window focused, or an edit succeeded.
Fetch ==
    /\ SetFetch("asked")
    /\ UNCHANGED <<server, list, creating, prev, muddled, deleting, stale, faults>>

Read ==
    /\ fetch = "asked"
    /\ fetch' = "answered" /\ answer' = server
    /\ UNCHANGED <<server, list, creating, prev, muddled, deleting, stale, late, faults>>

\* The answer replaces the rows, drafts and all.
Land ==
    /\ fetch = "answered"
    /\ list' = [loaded |-> TRUE, users |-> answer, drafts |-> {}]
    /\ stale' = late
    /\ SetFetch("none")
    /\ UNCHANGED <<server, creating, prev, muddled, deleting, faults>>

FetchFails ==
    /\ fetch # "none" /\ Fault
    /\ stale' = TRUE
    /\ SetFetch("none")
    /\ UNCHANGED <<server, list, creating, prev, muddled, deleting>>

-----------------------------------------------------------------------------
(* useCreateUser.                                                          *)

\* Does a creation that begins now find the list loaded, and nothing under way?
Clean == list.loaded /\ ~stale /\ fetch = "none" /\ Open = {} /\ deleting = {}

\* Bug: the list is not kept.
BugCreate(u) ==
    /\ creating[u] = "idle"
    /\ creating' = [creating EXCEPT ![u] = "sent"]
    /\ list' = [list EXCEPT !.loaded = TRUE, !.drafts = @ \cup {u}]
    /\ muddled' = IF Clean THEN muddled ELSE muddled \cup Open \cup {u}
    /\ SetFetch("none")
    /\ UNCHANGED <<server, prev, deleting, stale, faults>>

\* onMutate: the fetch under way is cancelled, the list kept to restore it.
Create(u) ==
    /\ creating[u] = "idle"
    /\ creating' = [creating EXCEPT ![u] = "sent"]
    /\ prev' = [prev EXCEPT ![u] = list]
    /\ list' = [list EXCEPT !.loaded = TRUE, !.drafts = @ \cup {u}]
    /\ muddled' = IF Clean THEN muddled ELSE muddled \cup Open \cup {u}
    /\ SetFetch("none")
    /\ UNCHANGED <<server, deleting, stale, faults>>

Made(u) ==
    /\ creating[u] = "sent"
    /\ server' = server \cup {u}
    /\ creating' = [creating EXCEPT ![u] = "made"]
    /\ UNCHANGED <<lists, prev, muddled, deleting, stale, late, faults>>

\* The request is refused, or its answer lost.
CreateFails(u) ==
    /\ creating[u] \in {"sent", "made"} /\ Fault
    /\ creating' = [creating EXCEPT ![u] = "failed"]
    /\ muddled' = IF u \in server THEN muddled \cup {u} ELSE muddled
    /\ UNCHANGED <<server, lists, prev, deleting, stale, late>>

\* onSuccess: the list is fetched again.
Created(u) ==
    /\ creating[u] = "made"
    /\ creating' = [creating EXCEPT ![u] = "done"]
    /\ SetFetch("asked")
    /\ UNCHANGED <<server, list, prev, muddled, deleting, stale, faults>>

\* onError: the list as it was; undefined data is ignored.
RollBack(u) ==
    /\ creating[u] = "failed"
    /\ creating' = [creating EXCEPT ![u] = "done"]
    /\ list' = IF prev[u].loaded THEN prev[u] ELSE list
    /\ stale' = (stale \/ u \in muddled)
    /\ late' = (late \/ u \in muddled)
    /\ UNCHANGED <<server, fetch, answer, prev, muddled, deleting, faults>>

-----------------------------------------------------------------------------
(* useDeleteUser.                                                          *)

\* A row that is shown is deleted.
Delete(u) ==
    /\ u \in list.users /\ u \notin deleting
    /\ deleting' = deleting \cup {u} /\ muddled' = muddled \cup Open
    /\ UNCHANGED <<server, lists, creating, prev, stale, late, faults>>

Gone(u) ==
    /\ u \in deleting \cap server
    /\ server' = server \ {u}
    /\ UNCHANGED <<lists, creating, prev, muddled, deleting, stale, late, faults>>

\* onSuccess takes the row away, but an answer read before brings it back.
Deleted(u) ==
    /\ u \in deleting \ server
    /\ deleting' = deleting \ {u}
    /\ list' = [list EXCEPT !.users = @ \ {u}]
    /\ late' = (late \/ u \in answer)
    /\ UNCHANGED <<server, fetch, answer, creating, prev, muddled, stale, faults>>

\* The request fails, though the user may be gone; nothing is done.
DeleteFails(u) ==
    /\ u \in deleting /\ Fault
    /\ deleting' = deleting \ {u}
    /\ stale' = (stale \/ u \notin server)
    /\ late' = (late \/ u \in answer \ server)
    /\ UNCHANGED <<server, list, fetch, answer, creating, prev, muddled>>

Next ==
    \/ Fetch \/ Read \/ Land \/ FetchFails
    \/ \E u \in New : Create(u) \/ Made(u) \/ CreateFails(u) \/ Created(u) \/ RollBack(u)
    \/ \E u \in Users : Delete(u) \/ Gone(u) \/ Deleted(u) \/ DeleteFails(u)

Spec == Init /\ [][Next]_vars

-----------------------------------------------------------------------------
(* The properties.                                                         *)

\* Every variable holds a value the code can give it.
TypeOK ==
    /\ server \subseteq Users /\ answer \subseteq Users
    /\ fetch \in {"none", "asked", "answered"}
    /\ LET Lists == [loaded : BOOLEAN, users : SUBSET Users, drafts : SUBSET New]
       IN  list \in Lists /\ prev \in [New -> Lists]
    /\ creating \in [New -> {"idle", "sent", "made", "failed", "done"}]
    /\ muddled \subseteq New /\ deleting \subseteq Users
    /\ stale \in BOOLEAN /\ late \in BOOLEAN /\ faults \in 0..MaxFaults

\* Once nothing is under way, the list shows the users there are and no draft,
\* unless a request failed that took effect, a creation failed that overlapped
\* another change or found the list not loaded, or a deletion overtook the
\* answer of a fetch.
ListInStep ==
    fetch = "none" /\ Open = {} /\ deleting = {} /\ ~stale /\ list.loaded =>
        list.drafts = {} /\ list.users = server

=============================================================================
