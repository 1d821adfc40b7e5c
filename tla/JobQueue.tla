------------------------------ MODULE JobQueue ------------------------------
(***************************************************************************)
(* A job of a dead-lettering queue, the notification queue: its attempts   *)
(* in BullmqWorkersService (bullmq-workers.service.ts), the copy the       *)
(* worker makes to the dead-letter queue when the job fails for good, and  *)
(* the operators who replay copies (jobs-dlq.ts).                          *)
(*                                                                         *)
(* One piece of work, say a welcome email.  Its first job has a fixed id,  *)
(* so a repeated enqueue changes nothing as long as BullMQ holds the job   *)
(* (one that comes after it was trimmed is new work, and left out); a      *)
(* replay may add further jobs for it, with ids of their own.  One worker  *)
(* process, which may stop and start again at any time, and operators who  *)
(* replay at the same time or stop halfway.                                *)
(*                                                                         *)
(* BullMQ is external: it retries a failed attempt after a backoff until   *)
(* attempts are used up or the error is an UnrecoverableError, hands an    *)
(* active job of a worker that died to another once and fails it the next  *)
(* time, and keeps a limited number of finished jobs.                      *)
(***************************************************************************)
EXTENDS Integers, FiniteSets

CONSTANTS
    Jobs,           \* the jobs there may be: First and those a replay adds
    First,          \* the job enqueued with the fixed id
    Entries,        \* places in the dead-letter queue
    Operators,
    Attempts,       \* attempts of the queue's defaults
    MaxReplays,
    MaxFaults       \* bounds the stops and the copies that fail

Nothing == "nothing"    \* no job, no entry

QueueAssumption ==
    /\ First \in Jobs /\ Nothing \notin Jobs \cup Entries
    /\ Attempts \in Nat \ {0} /\ MaxReplays \in Nat /\ MaxFaults \in Nat

VARIABLES
    state,      \* per job: where BullMQ has it
    made,       \* per job: attemptsMade
    stalled,    \* the jobs whose worker died once
    sent,       \* times the work was done
    copying,    \* the jobs whose copy the worker is adding
    entry,      \* the dead-letter queue: the source job of each entry
    lost,       \* the jobs whose copy was lost
    replaying,  \* per operator: the entry it replays
    source,     \* per operator: the source job that entry names
    pc,         \* per operator: the call it is about to make
    picks,      \* replays so far
    acted,      \* the entries a replay has retried or enqueued
    excused,    \* did an attempt fail late, or an entry's second replay begin?
    faults

queue == <<state, made, stalled, sent>>
letters == <<copying, entry, lost>>
replays == <<replaying, source, pc, picks, acted>>
vars == <<queue, letters, replays, excused, faults>>

Init ==
    /\ state = [j \in Jobs |-> "absent"] /\ made = [j \in Jobs |-> 0]
    /\ stalled = {} /\ sent = 0
    /\ copying = {} /\ entry = [d \in Entries |-> Nothing] /\ lost = {}
    /\ replaying = [o \in Operators |-> Nothing] /\ source = [o \in Operators |-> Nothing]
    /\ pc = [o \in Operators |-> "idle"]
    /\ picks = 0 /\ acted = {} /\ excused = FALSE /\ faults = 0

Fault == faults < MaxFaults /\ faults' = faults + 1
Put(j, place) == state' = [state EXCEPT ![j] = place]

-----------------------------------------------------------------------------
(* The queue.                                                              *)

\* NotificationService.enqueue with the fixed job id.
Enqueue ==
    /\ state[First] = "absent"
    /\ Put(First, "waiting")
    /\ UNCHANGED <<made, stalled, sent, letters, replays, excused, faults>>

\* removeOnComplete, removeOnFail: the oldest finished jobs go.
Trim(j) ==
    /\ state[j] \in {"completed", "failed"}
    /\ Put(j, "trimmed")
    /\ UNCHANGED <<made, stalled, sent, letters, replays, excused, faults>>

\* The worker takes one job at a time; a backoff is over at some time.
Take(j) ==
    /\ state[j] = "waiting" /\ \A i \in Jobs : state[i] # "active"
    /\ Put(j, "active")
    /\ UNCHANGED <<made, stalled, sent, letters, replays, excused, faults>>

Complete(j) ==
    /\ state[j] = "active"
    /\ sent' = sent + 1
    /\ Put(j, "completed")
    /\ UNCHANGED <<made, stalled, letters, replays, excused, faults>>

\* deadLetter's condition: no attempts left, or an UnrecoverableError.
ForGood(attempts, permanent) == attempts >= Attempts \/ permanent

\* BullMQ moves the failed job, and its `failed` event starts the copy.
Failed(j, attempts, permanent) ==
    /\ made' = [made EXCEPT ![j] = attempts]
    /\ Put(j, IF attempts >= Attempts \/ permanent THEN "failed" ELSE "waiting")
    /\ copying' = IF ForGood(attempts, permanent) THEN copying \cup {j} ELSE copying

\* The attempt throws: for bad input (isPermanentFailure), or else before its
\* effect or after it.
AttemptFails(j) ==
    /\ state[j] = "active"
    /\ \/ \E permanent \in BOOLEAN :
              Failed(j, made[j] + 1, permanent) /\ UNCHANGED <<sent, excused>>
       \/ Failed(j, made[j] + 1, FALSE) /\ sent' = sent + 1 /\ excused' = TRUE
    /\ UNCHANGED <<stalled, entry, lost, replays, faults>>

\* The process stops, and its copies with it; its active job, which may have
\* had its effect, is taken again the first time and failed the next.
WorkerStops ==
    /\ Fault
    /\ \E j \in {i \in Jobs : state[i] = "active"} :
        /\ stalled' = stalled \cup {j}
        /\ \/ UNCHANGED <<sent, excused>>
           \/ sent' = sent + 1 /\ excused' = TRUE
        /\ IF j \in stalled
           THEN Put(j, "failed") /\ copying' = {j} /\ lost' = lost \cup (copying \ {j})
           ELSE Put(j, "waiting") /\ copying' = {} /\ lost' = lost \cup copying
    /\ UNCHANGED <<made, entry, replays>>

Places == {d \in Entries : entry[d] = Nothing /\ \A o \in Operators : replaying[o] # d}

\* deadLetter adds the copy.
Copy(j) ==
    /\ j \in copying
    /\ copying' = copying \ {j}
    /\ Places # {}
    /\ LET d == CHOOSE d \in Places : TRUE IN
           entry' = [entry EXCEPT ![d] = j] /\ acted' = acted \ {d}
    /\ lost' = lost \ {j}
    /\ UNCHANGED <<queue, replaying, source, pc, picks, excused, faults>>

\* The add throws, or the process stops before it: logged at most.
CopyFails(j) ==
    /\ j \in copying /\ Fault
    /\ copying' = copying \ {j} /\ lost' = lost \cup {j}
    /\ UNCHANGED <<queue, entry, replays, excused>>

-----------------------------------------------------------------------------
(* jobs-dlq replay.                                                        *)

At(o, call) == pc' = [pc EXCEPT ![o] = call]

\* The entry is read, and is replayed a second time if a replay of it stopped
\* before removing it or is still running.
Pick(o, d) ==
    /\ pc[o] = "idle" /\ entry[d] # Nothing
    /\ picks < MaxReplays /\ picks' = picks + 1
    /\ replaying' = [replaying EXCEPT ![o] = d] /\ source' = [source EXCEPT ![o] = entry[d]]
    /\ excused' = (excused \/ d \in acted \/ \E p \in Operators : replaying[p] = d)
    /\ At(o, "look")
    /\ UNCHANGED <<queue, letters, acted, faults>>

Done(o) ==
    /\ At(o, "idle")
    /\ replaying' = [replaying EXCEPT ![o] = Nothing]
    /\ source' = [source EXCEPT ![o] = Nothing]

\* getJob and isFailed.
Look(o) ==
    /\ pc[o] = "look"
    /\ At(o, IF state[source[o]] = "failed" THEN "retry" ELSE "add")
    /\ UNCHANGED <<queue, letters, replaying, source, picks, acted, excused, faults>>

\* Bug: the retried job keeps the attempts it has used.
BugRetry(o) ==
    /\ pc[o] = "retry"
    /\ Put(source[o], "waiting")
    /\ acted' = acted \cup {replaying[o]}
    /\ At(o, "remove")
    /\ UNCHANGED <<made, stalled, sent, letters, replaying, source, picks, excused, faults>>

\* retry('failed') with a fresh attempt budget; BullMQ refuses it when the job
\* is no longer in the failed set, and the command ends.
Retry(o) ==
    /\ pc[o] = "retry"
    /\ IF state[source[o]] = "failed"
       THEN /\ Put(source[o], "waiting")
            /\ made' = [made EXCEPT ![source[o]] = 0]
            /\ lost' = lost \ {source[o]} /\ acted' = acted \cup {replaying[o]}
            /\ At(o, "remove") /\ UNCHANGED <<replaying, source>>
       ELSE Done(o) /\ UNCHANGED <<state, made, lost, acted>>
    /\ UNCHANGED <<stalled, sent, copying, entry, picks, excused, faults>>

\* A job that is not failed is enqueued again, under a new id.
Add(o) ==
    /\ pc[o] = "add"
    /\ \E j \in Jobs \ {First} :
        /\ state[j] = "absent"
        /\ Put(j, "waiting")
    /\ acted' = acted \cup {replaying[o]}
    /\ At(o, "remove")
    /\ UNCHANGED <<made, stalled, sent, letters, replaying, source, picks, excused, faults>>

Remove(o) ==
    /\ pc[o] = "remove"
    /\ entry' = [entry EXCEPT ![replaying[o]] = Nothing]
    /\ acted' = acted \ {replaying[o]}
    /\ Done(o)
    /\ UNCHANGED <<queue, copying, lost, picks, excused, faults>>

\* The command fails or is stopped.
OperatorStops(o) ==
    /\ pc[o] # "idle"
    /\ Done(o)
    /\ UNCHANGED <<queue, letters, picks, acted, excused, faults>>

Next ==
    \/ Enqueue \/ WorkerStops
    \/ \E j \in Jobs :
        Trim(j) \/ Take(j) \/ Complete(j) \/ AttemptFails(j) \/ Copy(j) \/ CopyFails(j)
    \/ \E o \in Operators :
        \/ \E d \in Entries : Pick(o, d)
        \/ Look(o) \/ Retry(o) \/ Add(o) \/ Remove(o) \/ OperatorStops(o)

\* The worker works on: attempts end, the next job is taken.
Works(j) == Take(j) \/ Complete(j) \/ AttemptFails(j)

Spec == Init /\ [][Next]_vars /\ \A j \in Jobs : WF_vars(Works(j))

-----------------------------------------------------------------------------
(* The properties.                                                         *)

\* Every variable holds a value the code can give it; a job the worker may
\* still take has attempts left.
TypeOK ==
    /\ state \in [Jobs -> {"absent", "waiting", "active", "completed", "failed", "trimmed"}]
    /\ made \in [Jobs -> 0..Attempts]
    /\ stalled \subseteq Jobs /\ copying \subseteq Jobs /\ lost \subseteq Jobs
    /\ sent \in Nat /\ picks \in 0..MaxReplays /\ faults \in 0..MaxFaults
    /\ entry \in [Entries -> Jobs \cup {Nothing}] /\ acted \subseteq Entries
    /\ replaying \in [Operators -> Entries \cup {Nothing}]
    /\ source \in [Operators -> Jobs \cup {Nothing}]
    /\ pc \in [Operators -> {"idle", "look", "retry", "add", "remove"}]
    /\ excused \in BOOLEAN
    /\ \A j \in Jobs : state[j] \in {"waiting", "active"} => made[j] < Attempts

\* "A job that exhausts its attempts is copied": a failed job is on its way
\* to the dead-letter queue or in it, whatever replays of earlier entries do,
\* unless its worker stopped or failed while making the copy.
FailedIsKept ==
    \A j \in Jobs : state[j] = "failed" =>
        j \in copying \cup lost \/ \E d \in Entries : entry[d] = j

\* The work is done once, through all attempts, copies and replays, unless an
\* attempt failed after it, or an entry was replayed again.
SentOnce == sent <= 1 \/ excused

\* Every job ends: it completes or fails for good.
Ended(j) == state[j] \notin {"waiting", "active"}
JobsEnd == \A j \in Jobs : []<>Ended(j)

=============================================================================
