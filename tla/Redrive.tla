------------------------------ MODULE Redrive -------------------------------
(***************************************************************************)
(* The operators' redrive of a dead-letter topic (messaging-dlq.ts): the   *)
(* oldest kept message is published to its topic again and then dropped    *)
(* from the dead-letter subscription.  Peek and skip name a position, not  *)
(* a message, and nothing keeps two operators from redriving at once.      *)
(*                                                                         *)
(* Pulsar is external: it appends dead letters at the end.  Abstracted:    *)
(* the payload and the list command, which only reads.                     *)
(***************************************************************************)
EXTENDS Integers, SequencesExt

CONSTANTS
    Messages,       \* what goes to the dead-letter topic
    Operators,      \* runs of the command
    Count,          \* COUNT, the messages a run moves at most
    MaxFaults       \* bounds the calls that fail and the runs that stop

RedriveAssumption == Count \in Nat /\ MaxFaults \in Nat

Nothing == "nothing"

VARIABLES
    kept,           \* the messages of the dead-letter subscription, oldest first
    arrived,        \* those that were dead-lettered
    published,      \* per message: times it was published again
    pc,             \* per operator: the call it is about to make
    holds,          \* per operator: the message it peeked
    moved,          \* per operator
    overlapped,     \* did two operators redrive at once?
    faults

vars == <<kept, arrived, published, pc, holds, moved, overlapped, faults>>

Init ==
    /\ kept = <<>> /\ arrived = {} /\ published = [m \in Messages |-> 0]
    /\ pc = [o \in Operators |-> "idle"]
    /\ holds = [o \in Operators |-> Nothing]
    /\ moved = [o \in Operators |-> 0]
    /\ overlapped = FALSE /\ faults = 0

Running(o) == pc[o] \notin {"idle", "done"}

\* A message fails its last redelivery, at most once.
DeadLetter(m) ==
    /\ m \notin arrived
    /\ arrived' = arrived \cup {m} /\ kept' = Append(kept, m)
    /\ UNCHANGED <<published, pc, holds, moved, overlapped, faults>>

Start(o) ==
    /\ pc[o] = "idle"
    /\ pc' = [pc EXCEPT ![o] = "peek"]
    /\ overlapped' = (overlapped \/ \E p \in Operators : Running(p))
    /\ UNCHANGED <<kept, arrived, published, holds, moved, faults>>

\* Position 1; past the end, or after COUNT messages, the run is over.
Peek(o) ==
    /\ pc[o] = "peek"
    /\ IF kept = <<>> \/ moved[o] = Count
       THEN pc' = [pc EXCEPT ![o] = "done"] /\ UNCHANGED holds
       ELSE pc' = [pc EXCEPT ![o] = "publish"] /\ holds' = [holds EXCEPT ![o] = Head(kept)]
    /\ UNCHANGED <<kept, arrived, published, moved, overlapped, faults>>

Publish(o) ==
    /\ pc[o] = "publish"
    /\ published' = [published EXCEPT ![holds[o]] = @ + 1]
    /\ pc' = [pc EXCEPT ![o] = "skip"]
    /\ UNCHANGED <<kept, arrived, holds, moved, overlapped, faults>>

\* The broker refuses the message, or its answer is lost: the run ends.
PublishFails(o) ==
    /\ pc[o] = "publish" /\ faults < MaxFaults
    /\ faults' = faults + 1
    /\ published' = published \/ published' = [published EXCEPT ![holds[o]] = @ + 1]
    /\ pc' = [pc EXCEPT ![o] = "done"]
    /\ UNCHANGED <<kept, arrived, holds, moved, overlapped>>

\* Whatever is the oldest by now is dropped.
Dropped == IF kept = <<>> THEN kept ELSE Tail(kept)

Skip(o) ==
    /\ pc[o] = "skip"
    /\ kept' = Dropped
    /\ moved' = [moved EXCEPT ![o] = @ + 1]
    /\ pc' = [pc EXCEPT ![o] = "peek"]
    /\ UNCHANGED <<arrived, published, holds, overlapped, faults>>

\* "published to ... but not dropped from ...": the run ends; so it does when
\* it is stopped.  The message may have been dropped all the same.
SkipFails(o) ==
    /\ pc[o] = "skip" /\ faults < MaxFaults
    /\ faults' = faults + 1
    /\ kept' \in {kept, Dropped}
    /\ pc' = [pc EXCEPT ![o] = "done"]
    /\ UNCHANGED <<arrived, published, holds, moved, overlapped>>

Next ==
    \/ \E m \in Messages : DeadLetter(m)
    \/ \E o \in Operators :
        Start(o) \/ Peek(o) \/ Publish(o) \/ PublishFails(o) \/ Skip(o) \/ SkipFails(o)

Spec == Init /\ [][Next]_vars

-----------------------------------------------------------------------------
(* The properties.                                                         *)

\* Every variable holds a value the code can give it.
TypeOK ==
    /\ kept \in Seq(Messages) /\ arrived \subseteq Messages
    /\ published \in [Messages -> Nat]
    /\ pc \in [Operators -> {"idle", "peek", "publish", "skip", "done"}]
    /\ holds \in [Operators -> Messages \cup {Nothing}]
    /\ moved \in [Operators -> 0..Count]
    /\ overlapped \in BOOLEAN /\ faults \in 0..MaxFaults

\* A dead-lettered message stays in the dead-letter topic until it was
\* published again, whichever call failed, unless two runs overlapped: then
\* both publish the oldest one and the second skip drops its successor.
KeptOrPublished ==
    overlapped \/ \A m \in arrived : published[m] > 0 \/ m \in ToSet(kept)

=============================================================================
