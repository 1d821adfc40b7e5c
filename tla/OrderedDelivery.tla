-------------------------- MODULE OrderedDelivery ---------------------------
(***************************************************************************)
(* What the outbox promises to the consumers of one aggregate's events,    *)
(* without relays, leases, heads or a sweep: an event is handed to the     *)
(* broker only when every event written before it was delivered or given   *)
(* up, and it is closed as dispatched only once the broker has it.         *)
(***************************************************************************)
EXTENDS Integers, Sequences

VARIABLES
    fate,       \* per event, in the order written: "open", "dispatched", "skipped"
    transit,    \* events handed to the broker, arrival undecided
    delivered   \* events by first arrival

vars == <<fate, transit, delivered>>

Delivered(i) == \E n \in DOMAIN delivered : delivered[n] = i
AllClosedBefore(i) == \A k \in 1..(i - 1) : fate[k] # "open"

Init ==
    /\ fate = <<>>
    /\ transit = {}
    /\ delivered = <<>>

Write ==
    /\ fate' = Append(fate, "open")
    /\ UNCHANGED <<transit, delivered>>

Hand(i) ==
    /\ AllClosedBefore(i)
    /\ ~Delivered(i)
    /\ transit' = transit \cup {i}
    /\ UNCHANGED <<fate, delivered>>

Arrive(i) ==
    /\ i \in transit
    /\ transit' = transit \ {i}
    /\ delivered' = Append(delivered, i)
    /\ UNCHANGED fate

Lose(i) ==
    /\ i \in transit
    /\ transit' = transit \ {i}
    /\ UNCHANGED <<fate, delivered>>

Dispatch(i) ==
    /\ fate[i] = "open"
    /\ Delivered(i)
    /\ fate' = [fate EXCEPT ![i] = "dispatched"]
    /\ UNCHANGED <<transit, delivered>>

\* An operator gives events up, one or several.
Skip(S) ==
    /\ \A i \in S : fate[i] = "open"
    /\ fate' = [i \in DOMAIN fate |-> IF i \in S THEN "skipped" ELSE fate[i]]
    /\ UNCHANGED <<transit, delivered>>

Next ==
    \/ Write
    \/ \E i \in DOMAIN fate : Hand(i) \/ Dispatch(i)
    \/ \E i \in transit : Arrive(i) \/ Lose(i)
    \/ \E S \in SUBSET DOMAIN fate : Skip(S)

Spec == Init /\ [][Next]_vars

=============================================================================
