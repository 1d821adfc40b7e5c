---------------------------- MODULE HealthProbes ----------------------------
(***************************************************************************)
(* One dependency's probe as HealthProbesService shares it among the calls *)
(* of /readyz and /api/health: a result is kept for PROBE_CACHE_MS, a      *)
(* probe under way is joined (single flight), and one that takes too long  *)
(* is down after PROBE_TIMEOUT_MS.                                         *)
(*                                                                         *)
(* Time is counted in ticks.  Abstracted: which probes a report takes and  *)
(* what it makes of their results, which are reads; the indicator's call,  *)
(* which goes on after the timeout with nobody to hear it.                 *)
(***************************************************************************)
EXTENDS Integers

CONSTANTS
    Callers,
    CacheTicks,     \* PROBE_CACHE_MS
    ProbeTimeout    \* PROBE_TIMEOUT_MS

ProbesAssumption == CacheTicks \in Nat /\ ProbeTimeout \in Nat

None == "none"

VARIABLES
    up,             \* is the dependency up?
    changed,        \* ticks since it last changed, up to Bound + 1
    cached,         \* the last result: None, "up" or "down"
    age,            \* ticks since it was stored, up to CacheTicks
    probe,          \* None, "asking", or what the indicator found
    left,           \* ticks until it times out
    waiting,        \* the callers that wait for it
    answer,         \* per caller: the answer it is given
    begun,          \* ticks since the last probe began, up to CacheTicks
    gap             \* that, when the probe under way began

vars == <<up, changed, cached, age, probe, left, waiting, answer, begun, gap>>

\* A result is kept for the window, and was found within a probe's time.
Bound == CacheTicks + ProbeTimeout
UpTo(n, top) == IF n < top THEN n + 1 ELSE top

Init ==
    /\ up \in BOOLEAN /\ changed = Bound + 1
    /\ cached = None /\ age = CacheTicks
    /\ probe = None /\ left = 0 /\ waiting = {}
    /\ answer = [c \in Callers |-> None]
    /\ begun = CacheTicks /\ gap = CacheTicks

Change ==
    /\ up' = ~up /\ changed' = 0
    /\ UNCHANGED <<cached, age, probe, left, waiting, answer, begun, gap>>

Idle(c) == c \notin waiting /\ answer[c] = None

\* A result of the window answers at once.
FromCache(c) ==
    /\ Idle(c) /\ cached # None /\ age < CacheTicks
    /\ answer' = [answer EXCEPT ![c] = cached]
    /\ UNCHANGED <<up, changed, cached, age, probe, left, waiting, begun, gap>>

\* Otherwise the caller joins the probe under way, or begins one.
Ask(c) ==
    /\ Idle(c) /\ (cached = None \/ age >= CacheTicks)
    /\ waiting' = waiting \cup {c}
    /\ IF probe # None THEN UNCHANGED <<probe, left, begun, gap>> ELSE
        probe' = "asking" /\ left' = ProbeTimeout /\ gap' = begun /\ begun' = 0
    /\ UNCHANGED <<up, changed, cached, age, answer>>

\* The indicator's call finds the dependency as it is, or fails.
Finds ==
    /\ probe = "asking"
    /\ probe' \in {IF up THEN "up" ELSE "down", "down"}
    /\ UNCHANGED <<up, changed, cached, age, left, waiting, answer, begun, gap>>

\* The result is stored and every caller that waits has it.
Settle(result) ==
    /\ cached' = result /\ age' = 0
    /\ probe' = None /\ left' = 0
    /\ answer' = [c \in Callers |-> IF c \in waiting THEN result ELSE answer[c]]
    /\ waiting' = {}
    /\ UNCHANGED <<up, changed, begun, gap>>

Answers == probe \in {"up", "down"} /\ Settle(probe)
TimesOut == probe # None /\ left = 0 /\ Settle("down")

Given(c) ==
    /\ answer[c] # None
    /\ answer' = [answer EXCEPT ![c] = None]
    /\ UNCHANGED <<up, changed, cached, age, probe, left, waiting, begun, gap>>

\* An answer is sent at once, and a timer that is due fires first.
Tick ==
    /\ \A c \in Callers : answer[c] = None
    /\ probe # None => left > 0
    /\ changed' = UpTo(changed, Bound + 1)
    /\ age' = UpTo(age, CacheTicks)
    /\ begun' = UpTo(begun, CacheTicks)
    /\ left' = IF probe = None THEN 0 ELSE left - 1
    /\ UNCHANGED <<up, cached, probe, waiting, answer, gap>>

Next ==
    \/ Change \/ Finds \/ Answers \/ TimesOut \/ Tick
    \/ \E c \in Callers : FromCache(c) \/ Ask(c) \/ Given(c)

\* Time passes and the timer fires.
Fairness == WF_vars(Tick) /\ WF_vars(TimesOut) /\ \A c \in Callers : WF_vars(Given(c))

Spec == Init /\ [][Next]_vars /\ Fairness

-----------------------------------------------------------------------------
(* The properties.                                                         *)

\* Every variable holds a value the code can give it.
TypeOK ==
    /\ up \in BOOLEAN /\ changed \in 0..Bound + 1
    /\ cached \in {None, "up", "down"} /\ age \in 0..CacheTicks
    /\ probe \in {None, "asking", "up", "down"} /\ left \in 0..ProbeTimeout
    /\ waiting \subseteq Callers /\ answer \in [Callers -> {None, "up", "down"}]
    /\ begun \in 0..CacheTicks /\ gap \in 0..CacheTicks

\* "At most one probe per dependency per window", however callers, timeouts
\* and results interleave.
ProbesApart == gap >= CacheTicks

\* A dependency that went down is not reported up for longer than the window
\* and a probe's time.
UpIsRecent == \A c \in Callers : answer[c] = "up" /\ ~up => changed <= Bound

\* A caller is answered, also when the indicator never is.
Answered(c) == c \notin waiting
EveryCallAnswers == \A c \in Callers : []<>Answered(c)

=============================================================================
