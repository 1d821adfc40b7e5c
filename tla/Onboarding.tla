------------------------------ MODULE Onboarding -----------------------------
(***************************************************************************)
(* The onboarding follow-up of one new user: the event handler starts a    *)
(* workflow with the user's id (user-projection.service.ts onCreated,      *)
(* onboarding.service.ts, temporal-workflow.adapter.ts); the workflow waits*)
(* and has one activity send a mail (onboarding.workflow.ts,               *)
(* onboarding.activities.ts), attempted up to MaxAttempts times.           *)
(*                                                                         *)
(* Time is counted in minutes, the activity's startToCloseTimeout; the     *)
(* seconds between two attempts count as one.                              *)
(*                                                                         *)
(* External: Temporal, which refuses a second open run of an id, keeps the *)
(* timers through restarts, hands work to a worker that is up at once, and *)
(* gives up an attempt, which it cannot stop, and a run at their timeouts. *)
(***************************************************************************)
EXTENDS Naturals

CONSTANTS
    Delay,          \* ONBOARDING_FOLLOWUP_DELAY_MS
    Margin,         \* ONBOARDING_TIMEOUT_MARGIN_MS
    MaxAttempts,    \* retry.maximumAttempts
    MaxDeliveries,  \* bound on passes of the handler that reach the start
    MaxFaults       \* bound on a worker's deaths, hung attempts and lost answers

OnboardingAssumption ==
    /\ Delay \in Nat /\ Margin \in Nat /\ MaxAttempts \in Nat \ {0}
    /\ MaxDeliveries \in Nat /\ MaxFaults \in Nat

VARIABLES
    passes,     \* passes of the handler so far
    calls,      \* calls to Temporal in flight
    run,        \* the id's last run: "none", "open", "completed", "failed", "timedOut"
    left,       \* the time until its execution timeout
    at,         \* where the open run is: "none", "sleep", "due", "queued", "mail", "push",
                \* "dead", "backoff"
    timer,      \* the time until the sleep, the attempt or the backoff ends
    attempt,    \* attempts of the activity begun
    worker,     \* is a worker up?
    adrift,     \* attempts given up whose mail may yet go out
    sent,       \* follow-up mails sent
    repeats,    \* events that justify one more: see FollowedUpOnce
    idle,       \* the time the open run waited for a worker
    faults

vars == <<passes, calls, run, left, at, timer, attempt, worker, adrift, sent, repeats, idle,
          faults>>
activity == <<at, timer, attempt>>
counts == <<passes, adrift, sent, repeats, faults>>

Init ==
    /\ passes = 0 /\ calls = 0
    /\ run = "none" /\ left = 0 /\ at = "none" /\ timer = 0 /\ attempt = 0
    /\ worker = TRUE
    /\ adrift = 0 /\ sent = 0 /\ repeats = 0 /\ idle = 0 /\ faults = 0

Fault == faults < MaxFaults /\ faults' = faults + 1

\* The handler reaches start(): nothing while the engine is unavailable, else a
\* call nobody waits for.
Deliver ==
    /\ passes < MaxDeliveries /\ passes' = passes + 1
    /\ calls' \in {calls, calls + 1}
    /\ UNCHANGED <<run, left, activity, worker, adrift, sent, repeats, idle, faults>>

\* The call fails on its way, or Temporal refuses it because a run with the id
\* is open: logged, not retried.
StartFails ==
    /\ calls > 0 /\ calls' = calls - 1
    /\ UNCHANGED <<run, left, activity, worker, counts, idle>>

Lifetime == Delay + Margin

\* The call arrives and no run with the id is open.
Starts ==
    /\ calls > 0 /\ calls' = calls - 1
    /\ run # "open" /\ run' = "open"
    /\ left' = Lifetime
    /\ at' = "sleep" /\ timer' = Delay /\ attempt' = 0 /\ idle' = 0
    /\ repeats' = IF run = "none" THEN repeats ELSE repeats + 1
    /\ UNCHANGED <<passes, worker, adrift, sent, faults>>

\* A worker goes on with the workflow after its sleep, and schedules the
\* activity.
Schedule ==
    /\ at = "due" /\ worker
    /\ at' = "queued"
    /\ UNCHANGED <<passes, calls, run, left, timer, attempt, worker, adrift, sent, repeats,
                   idle, faults>>

\* A worker begins an attempt: sendFollowUpEmail.
Begin ==
    /\ at = "queued" /\ worker
    /\ at' = "mail" /\ timer' = 1 /\ attempt' = attempt + 1
    /\ UNCHANGED <<calls, run, left, worker, counts, idle>>

Close(outcome) == run' = outcome /\ at' = "none" /\ timer' = 0 /\ left' = 0

\* An attempt failed or was given up: another one, or the run fails.
Retry ==
    /\ IF attempt < MaxAttempts
       THEN at' = "backoff" /\ timer' = 1 /\ UNCHANGED <<run, left>>
       ELSE Close("failed")
    /\ UNCHANGED attempt

\* The mail server takes the mail.
Mail ==
    /\ at = "mail" /\ at' = "push"
    /\ sent' = sent + 1
    /\ UNCHANGED <<passes, calls, run, left, timer, attempt, worker, adrift, repeats, idle,
                   faults>>

\* The mail server refuses it.
MailFails ==
    /\ at = "mail"
    /\ Retry
    /\ UNCHANGED <<calls, worker, counts, idle>>

\* It takes it and its answer is lost.
AnswerLost ==
    /\ at = "mail" /\ Fault
    /\ Retry
    /\ sent' = sent + 1 /\ repeats' = repeats + 1
    /\ UNCHANGED <<passes, calls, worker, adrift, idle>>

\* The push ended, however: a failed one is logged.
Push ==
    /\ at = "push"
    /\ Close("completed")
    /\ UNCHANGED <<calls, attempt, worker, counts, idle>>

\* The worker's process dies, with the attempt it runs and those adrift.  The
\* run learns it by the attempt's timeout.
WorkerDies ==
    /\ worker /\ worker' = FALSE /\ Fault
    /\ at' = IF at \in {"mail", "push"} THEN "dead" ELSE at
    /\ repeats' = IF at = "push" THEN repeats + 1 ELSE repeats
    /\ adrift' = 0
    /\ UNCHANGED <<passes, calls, run, left, timer, attempt, sent, idle>>

WorkerStarts ==
    /\ ~worker /\ worker' = TRUE
    /\ UNCHANGED <<calls, run, left, activity, counts, idle>>

\* An attempt that was given up sends its mail.
Adrift ==
    /\ adrift > 0 /\ adrift' = adrift - 1
    /\ sent' \in {sent, sent + 1}
    /\ UNCHANGED <<passes, calls, run, left, activity, worker, repeats, idle, faults>>

\* The attempt's time is over.  One that hangs goes on by itself.
TimesOut ==
    /\ timer = 0 /\ at \in {"dead", "mail", "push"}
    /\ Retry
    /\ IF at = "dead"
       THEN UNCHANGED <<adrift, repeats, faults>>
       ELSE /\ Fault /\ repeats' = repeats + 1
            /\ adrift' = IF at = "mail" THEN adrift + 1 ELSE adrift
    /\ UNCHANGED <<passes, calls, worker, sent, idle>>

\* The sleep or the backoff is over.
TimerFires ==
    /\ timer = 0 /\ at \in {"sleep", "backoff"}
    /\ at' = IF at = "sleep" THEN "due" ELSE "queued"
    /\ UNCHANGED <<calls, run, left, timer, attempt, worker, counts, idle>>

\* The execution timeout: the workflow ends, an attempt that runs does not.
Expire ==
    /\ run = "open" /\ left = 0
    /\ Close("timedOut")
    /\ adrift' = IF at = "mail" THEN adrift + 1 ELSE adrift
    /\ UNCHANGED <<passes, calls, attempt, worker, sent, repeats, idle, faults>>

\* What happens before time passes.
Prompt ==
    \/ at \in {"due", "queued"} /\ worker
    \/ timer = 0 /\ at \in {"sleep", "backoff", "dead", "mail", "push"}
    \/ left = 0

\* A minute passes.
Tick ==
    /\ run = "open" /\ ~Prompt
    /\ left' = left - 1
    /\ timer' = IF timer = 0 THEN 0 ELSE timer - 1
    /\ idle' = IF at \in {"due", "queued"} THEN idle + 1 ELSE idle
    /\ UNCHANGED <<calls, run, at, attempt, worker, counts>>

Next ==
    \/ Deliver \/ StartFails \/ Starts \/ Schedule \/ Begin
    \/ Mail \/ MailFails \/ AnswerLost \/ Push
    \/ WorkerDies \/ WorkerStarts \/ Adrift \/ TimesOut \/ TimerFires \/ Expire \/ Tick

Spec == Init /\ [][Next]_vars

TypeOK ==
    /\ passes \in 0..MaxDeliveries /\ calls \in 0..MaxDeliveries
    /\ run \in {"none", "open", "completed", "failed", "timedOut"}
    /\ left \in 0..Lifetime
    /\ at \in {"none", "sleep", "due", "queued", "mail", "push", "dead", "backoff"}
    /\ timer \in 0..(Delay + 1) /\ attempt \in 0..MaxAttempts
    /\ worker \in BOOLEAN
    /\ adrift \in 0..(MaxFaults + MaxDeliveries) /\ sent \in Nat /\ repeats \in Nat
    /\ idle \in 0..Lifetime /\ faults \in 0..MaxFaults

(***************************************************************************)
(* A user gets one follow-up for the start, and one more for each event    *)
(* that may have kept Temporal or the handler from knowing of one: a start *)
(* after the last run closed (the event is redelivered late), an attempt   *)
(* that hung past its timeout, a worker that died or an answer that was    *)
(* lost after the mail went out.  Handlers that overlap, a failed push     *)
(* (onboarding.activities.ts:49) and a failed mail add none.               *)
(***************************************************************************)
FollowedUpOnce == sent + adrift <= 1 + repeats

(***************************************************************************)
(* "covers the email activity's attempts" (onboarding.constants.ts:10): a  *)
(* run whose time is over spent more than the margin has beyond all its    *)
(* attempts and the waits between them waiting for a worker, however long  *)
(* the follow-up's delay.                                                  *)
(***************************************************************************)
MarginCovers ==
    run = "timedOut" => idle >= Margin - (MaxAttempts + MaxAttempts - 1)

=============================================================================
