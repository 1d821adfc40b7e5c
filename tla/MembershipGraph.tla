-------------------------- MODULE MembershipGraph --------------------------
(***************************************************************************)
(* The membership of a user in the graph store: MembershipGraphProcessor   *)
(* (membership-graph.processor.ts) applies the user's events with          *)
(* MembershipGraphService (membership-graph.service.ts), each write a      *)
(* MERGE of its own.                                                       *)
(*                                                                         *)
(* One user of one tenant.  The subscription is key_shared: one delivery   *)
(* is out at a time, of any event that is not acked, and a failed one      *)
(* comes back after later ones.  The broker may take a delivery from its   *)
(* handler, which goes on all the same.                                    *)
(*                                                                         *)
(* Abstracted: once's claims (module EventConsumer), the dead-letter topic,*)
(* which only ends deliveries, and the tenant's node, which is merged      *)
(* before the user's and never removed.                                    *)
(***************************************************************************)
CONSTANT Handlers   \* calls of handle() that may run at once

Events == {"created", "updated", "deleted"}

NoHandler == "nobody"

GraphAssumption == NoHandler \notin Handlers

VARIABLES
    sent,       \* the events the commands committed
    acked,      \* those that were handled
    holder,     \* the handler of the delivery that is out
    event,      \* per handler: its event
    pc,         \* per handler: the call it is about to make
    node,       \* the user's node: "absent", "live", "removed"
    member,     \* is there a MEMBER_OF edge?
    invited,    \* is there an INVITED edge?
    taken       \* was a delivery taken from its handler?

graph == <<node, member, invited>>
delivery == <<sent, acked, holder, event, taken>>
vars == <<delivery, pc, graph>>

Init ==
    /\ sent = {} /\ acked = {} /\ holder = NoHandler
    /\ event = [h \in Handlers |-> "created"]
    /\ pc = [h \in Handlers |-> "idle"]
    /\ node = "absent" /\ member = FALSE /\ invited = FALSE
    /\ taken = FALSE

At(h, step) == pc' = [pc EXCEPT ![h] = step]

\* A command commits: the creation first, nothing after the deletion.
Commit(e) ==
    /\ e \notin sent /\ "deleted" \notin sent
    /\ sent = {} <=> e = "created"
    /\ sent' = sent \cup {e}
    /\ UNCHANGED <<acked, holder, event, taken, pc, graph>>

Take(h, e) ==
    /\ holder = NoHandler /\ pc[h] = "idle" /\ e \in sent \ acked
    /\ holder' = h
    /\ event' = [event EXCEPT ![h] = e]
    /\ At(h, IF e = "deleted" THEN "remove" ELSE "read")
    /\ UNCHANGED <<sent, acked, taken, graph>>

\* Bug: an event after the removal is recorded.
BugReadUnchecked(h) ==
    /\ pc[h] = "read"
    /\ At(h, "node")
    /\ UNCHANGED <<delivery, graph>>

\* recordMember reads the node: a removed user is left alone.
Read(h) ==
    /\ pc[h] = "read"
    /\ At(h, IF node = "removed" THEN "done" ELSE "node")
    /\ UNCHANGED <<delivery, graph>>

\* mergeNode sets removed to false.
MergeNode(h) ==
    /\ pc[h] = "node"
    /\ node' = "live"
    /\ At(h, "edge")
    /\ UNCHANGED <<delivery, member, invited>>

\* mergeEdge MEMBER_OF; the event may name an inviter.
MergeEdge(h) ==
    /\ pc[h] = "edge"
    /\ member' = TRUE
    /\ At(h, "invited") \/ At(h, "done")
    /\ UNCHANGED <<delivery, node, invited>>

\* The inviter's node is merged and the edge between the two.
MergeInvited(h) ==
    /\ pc[h] = "invited"
    /\ invited' = TRUE
    /\ At(h, "done")
    /\ UNCHANGED <<delivery, node, member>>

\* removeMember is one query: a tombstone, also for a user never recorded.
Remove(h) ==
    /\ pc[h] = "remove"
    /\ node' = "removed" /\ member' = FALSE
    /\ At(h, "done")
    /\ UNCHANGED <<delivery, invited>>

\* handle() resolves, and its message is acked if it is still its own.
Ack(h) ==
    /\ pc[h] = "done"
    /\ IF holder = h THEN acked' = acked \cup {event[h]} /\ holder' = NoHandler
                     ELSE UNCHANGED <<acked, holder>>
    /\ At(h, "idle")
    /\ UNCHANGED <<sent, event, taken, graph>>

\* A call fails, before its effect or after the one of the call before, or
\* the process stops: the event comes again.
Fails(h) ==
    /\ pc[h] # "idle"
    /\ holder' = IF holder = h THEN NoHandler ELSE holder
    /\ At(h, "idle")
    /\ UNCHANGED <<sent, acked, event, taken, graph>>

\* The broker takes the delivery from its handler (ack timeout, rebalance).
TakeAway ==
    /\ holder # NoHandler
    /\ holder' = NoHandler /\ taken' = TRUE
    /\ UNCHANGED <<sent, acked, event, pc, graph>>

Handle(h) ==
    Read(h) \/ MergeNode(h) \/ MergeEdge(h) \/ MergeInvited(h) \/ Remove(h) \/ Ack(h)

Next ==
    \/ \E e \in Events : Commit(e) \/ \E h \in Handlers : Take(h, e)
    \/ \E h \in Handlers : Handle(h) \/ Fails(h)
    \/ TakeAway

Spec == Init /\ [][Next]_vars

-----------------------------------------------------------------------------
(* The properties.                                                         *)

\* Every variable holds a value the code can give it, and an invitation is
\* recorded of users that have a node.
TypeOK ==
    /\ acked \subseteq sent /\ sent \subseteq Events
    /\ holder \in Handlers \cup {NoHandler} /\ event \in [Handlers -> Events]
    /\ pc \in [Handlers -> {"idle", "read", "node", "edge", "invited", "remove", "done"}]
    /\ node \in {"absent", "live", "removed"}
    /\ member \in BOOLEAN /\ invited \in BOOLEAN /\ taken \in BOOLEAN
    /\ holder # NoHandler => pc[holder] # "idle"
    /\ invited => node # "absent"

\* "Removal is terminal, so an event that arrives after it changes nothing",
\* in whatever order failed events come back: until a delivery was taken from
\* its handler, no step of any handler brings a removed user back.
RemovalIsTerminal ==
    [][node = "removed" => taken \/ (node' = "removed" /\ ~member')]_vars

\* An acked event is in the graph, however its writes failed between: the
\* user is a member or was removed, and removed once the deletion is acked,
\* as long as no delivery was taken from its handler.
AckedIsApplied ==
    taken \/
    /\ acked # {} => member \/ node = "removed"
    /\ "deleted" \in acked => node = "removed" /\ ~member

=============================================================================
