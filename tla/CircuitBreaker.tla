--------------------------- MODULE CircuitBreaker ---------------------------
(***************************************************************************)
(* The circuit breaker in front of the policy engine                       *)
(* (apps/backend/src/common/circuit-breaker/circuit-breaker.ts).           *)
(*                                                                         *)
(* fire() runs to its `await fn()` without yielding, and from the          *)
(* settlement of fn() to its end without yielding: those are the two       *)
(* atomic steps of a call.  Any number of calls overlap at the await.      *)
(*                                                                         *)
(* Abstracted: the clock is the one bit the code computes from it (has     *)
(* the reset timeout elapsed since openedAt); `failures` is counted up to  *)
(* FailureThreshold, above which the code does not tell counts apart.      *)
(***************************************************************************)
EXTENDS Integers, FiniteSets

CONSTANTS
    Calls,              \* the callers that may be inside fire() at once
    FailureThreshold    \* options.failureThreshold

ASSUME FailureThresholdAssumption == FailureThreshold \in Nat \ {0}

VARIABLES
    state,      \* "CLOSED", "OPEN" or "HALF_OPEN"
    failures,   \* consecutive failures, saturating at FailureThreshold
    elapsed,    \* now() - openedAt >= resetTimeoutMs
    probing,    \* a probe is in flight
    call        \* per caller: "idle", "running", or "probe" (isProbe is set)

vars == <<state, failures, elapsed, probing, call>>

Init ==
    /\ state = "CLOSED"
    /\ failures = 0
    /\ elapsed = TRUE
    /\ probing = FALSE
    /\ call = [c \in Calls |-> "idle"]

-----------------------------------------------------------------------------
(* The actions.                                                            *)

\* The reset timeout of an open breaker runs out.
Elapse ==
    /\ ~elapsed
    /\ elapsed' = TRUE
    /\ UNCHANGED <<state, failures, probing, call>>

\* fire() up to the call of fn(), not as a probe.
FireClosed(c) ==
    /\ call[c] = "idle"
    /\ state = "CLOSED"
    /\ call' = [call EXCEPT ![c] = "running"]
    /\ UNCHANGED <<state, failures, elapsed, probing>>

\* An open breaker whose timeout has elapsed turns HALF_OPEN before the call
\* is judged, even when the call is then rejected.
AllowsProbe == state = "HALF_OPEN" \/ (state = "OPEN" /\ elapsed)

FireProbe(c) ==
    /\ call[c] = "idle"
    /\ AllowsProbe
    /\ ~probing
    /\ state' = "HALF_OPEN"
    /\ probing' = TRUE
    /\ call' = [call EXCEPT ![c] = "probe"]
    /\ UNCHANGED <<failures, elapsed>>

\* A rejected call: nothing changes but the turn to HALF_OPEN.
FireRejected(c) ==
    /\ call[c] = "idle"
    /\ AllowsProbe
    /\ probing
    /\ state' = "HALF_OPEN"
    /\ UNCHANGED <<failures, elapsed, probing, call>>

\* Bug: every call clears the probe's flag.
BugSettledByAnyCall(c) ==
    /\ call' = [call EXCEPT ![c] = "idle"]
    /\ probing' = FALSE

\* The `finally` of fire(): only the probe clears the flag.
Settled(c) ==
    /\ call' = [call EXCEPT ![c] = "idle"]
    /\ probing' = (probing /\ call[c] # "probe")

\* Bug: the failures survive a success.
BugSucceedKeepsCount(c) ==
    /\ call[c] # "idle"
    /\ state' = "CLOSED"
    /\ Settled(c)
    /\ UNCHANGED <<elapsed, failures>>

\* fn() resolved: onSuccess.
Succeed(c) ==
    /\ call[c] # "idle"
    /\ failures' = 0
    /\ state' = "CLOSED"
    /\ Settled(c)
    /\ UNCHANGED elapsed

\* fn() rejected: onFailure.
Trips(n) == state = "HALF_OPEN" \/ n >= FailureThreshold

Fail(c) ==
    /\ call[c] # "idle"
    /\ LET n == IF failures < FailureThreshold THEN failures + 1 ELSE failures
       IN  /\ failures' = n
           /\ state' = IF Trips(n) THEN "OPEN" ELSE state
           /\ elapsed' = (elapsed /\ ~Trips(n))
    /\ Settled(c)

Fire(c) == FireClosed(c) \/ FireProbe(c) \/ FireRejected(c)

Settles(c) == Succeed(c) \/ Fail(c)

Next ==
    \/ Elapse
    \/ \E c \in Calls : Fire(c) \/ Settles(c)

\* Timers run out and every call of fn() settles; a client that wants the
\* answer keeps calling.
Fairness ==
    /\ WF_vars(Elapse)
    /\ \A c \in Calls : WF_vars(Settles(c))
    /\ WF_vars(\E c \in Calls : FireClosed(c) \/ FireProbe(c))

Spec == Init /\ [][Next]_vars /\ Fairness

-----------------------------------------------------------------------------
(* The properties.                                                         *)

\* Every variable holds a value the class can give it.
TypeOK ==
    /\ state \in {"CLOSED", "OPEN", "HALF_OPEN"}
    /\ failures \in 0..FailureThreshold
    /\ elapsed \in BOOLEAN
    /\ probing \in BOOLEAN
    /\ call \in [Calls -> {"idle", "running", "probe"}]

\* `probing` is exactly "some caller is inside fire() as the probe", and that
\* caller is the only one, however the calls that started before the breaker
\* opened settle meanwhile.
OneProbe ==
    /\ probing <=> \E c \in Calls : call[c] = "probe"
    /\ \A c, d \in Calls : call[c] = "probe" /\ call[d] = "probe" => c = d

\* HALF_OPEN is never left behind without its probe: a state that would let
\* nobody decide whether the circuit closes.
HalfOpenHasProbe == state = "HALF_OPEN" => probing

\* A closed breaker has fewer failures on record than the threshold: it never
\* stays closed past it, whatever order overlapping calls settle in.
ClosedBelowThreshold == state = "CLOSED" => failures < FailureThreshold

LetsThrough == state = "CLOSED" \/ \E c \in Calls : call[c] = "probe"

\* A breaker that opened lets a call through again at some later time.
Recovers == []<>LetsThrough

=============================================================================
