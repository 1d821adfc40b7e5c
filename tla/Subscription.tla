---------------------------- MODULE Subscription ----------------------------
(***************************************************************************)
(* A started consumer: RunningConsumer (event-consumer.ts), which          *)
(* subscribes in the background, subscribes again when a subscription      *)
(* stops, and closes; over the subscriptions of the Pulsar adapter         *)
(* (pulsar-messaging.adapter.ts), each a receive loop with one handler in  *)
(* flight and nacks held back.                                             *)
(*                                                                         *)
(* Subscriptions are numbered in the order subscribe() returns them.  Each *)
(* step is the code between two awaits.  Closing a Pulsar consumer gives   *)
(* its unacked messages back to the broker; it takes time, and a message   *)
(* may still be received meanwhile.                                        *)
(*                                                                         *)
(* Abstracted: delays (a timer fires at any time), what handlers do, the   *)
(* envelope and tenant checks, metrics, other consumers of the             *)
(* subscription, and the broker's own dead-lettering, which counts         *)
(* redeliveries as here.                                                   *)
(***************************************************************************)
EXTENDS Integers

CONSTANTS
    Messages,
    MaxSubs,            \* bound on subscriptions: all but the last may fail
    MaxFailures,        \* bound on failed subscribes
    MaxRedeliveries     \* then a message is dead-lettered

SubscriptionAssumption ==
    /\ MaxSubs \in Nat \ {0} /\ MaxFailures \in Nat
    /\ MaxRedeliveries \in Nat

None == "none"
MessagesAssumption == None \notin Messages

Subs == 1..MaxSubs

\* Where a message is, when no subscription has it.
Queued == 0
Acked == -1
Dead == -2

VARIABLES
    state,      \* RunningConsumer.state, which health() reads
    enabled,    \* is messaging configured?
    failures,   \* failed subscribes so far
    attempt,    \* "none", "subscribing", "subscribed", "closing"
    sub,        \* the subscription it holds, or 0
    made,       \* subscriptions made so far
    timer,      \* is a retry armed?
    closer,     \* close(): "no", "attempt", "sub", "done"
    consumer,   \* per subscription: "none", "open", "closing", "closed"
    running,    \* per subscription: the loop's flag
    loop,       \* per subscription: where its loop is
    msg,        \* per subscription: the message handled, or None
    held,       \* per subscription: messages whose nack is held back
    closing,    \* per subscription: where its close() is
    stopped,    \* per subscription: has `stopped` settled?
    at,         \* per message: who has it
    tries       \* per message: redeliveries so far

runner == <<state, enabled, failures, attempt, sub, made, timer, closer>>
pulsar == <<consumer, running, loop, msg, held, closing, stopped>>
broker == <<at, tries>>
vars == <<runner, pulsar, broker>>

LoopSteps == {"off", "receive", "handle", "failing", "over"}
CloseSteps == {"no", "flight", "clear", "consumer", "loop", "done"}

Init ==
    /\ state = "starting" /\ enabled \in BOOLEAN /\ failures = 0
    /\ attempt = "subscribing" /\ sub = 0 /\ made = 0
    /\ timer = FALSE /\ closer = "no"
    /\ consumer = [s \in Subs |-> "none"]
    /\ running = [s \in Subs |-> FALSE]
    /\ loop = [s \in Subs |-> "off"]
    /\ msg = [s \in Subs |-> None]
    /\ held = [s \in Subs |-> {}]
    /\ closing = [s \in Subs |-> "no"]
    /\ stopped = [s \in Subs |-> FALSE]
    /\ at = [m \in Messages |-> Queued]
    /\ tries = [m \in Messages |-> 0]

-----------------------------------------------------------------------------
(* The broker.                                                             *)

Has(s, m) == at[m] = s

\* Messages given back by subscription s: queued again, or dead-lettered
\* after the last redelivery.
GiveBack(ms) ==
    /\ at' = [m \in Messages |->
                 IF m \notin ms THEN at[m]
                 ELSE IF tries[m] < MaxRedeliveries THEN Queued ELSE Dead]
    /\ tries' = [m \in Messages |->
                    IF m \in ms /\ tries[m] < MaxRedeliveries
                    THEN tries[m] + 1 ELSE tries[m]]

\* A consumer that is gone leaves its unacked messages to the broker.
ConsumerGone(s) ==
    /\ consumer' = [consumer EXCEPT ![s] = "closed"]
    /\ GiveBack({m \in Messages : at[m] = s})

Connected(s) == consumer[s] \in {"open", "closing"}

\* Bug: no ack timeout.
BugAckTimeoutNever(s, m) ==
    /\ FALSE
    /\ UNCHANGED vars

\* A received message nobody handles or holds is redelivered in the end: its
\* ack failed.
AckTimeout(s, m) ==
    /\ at[m] = s /\ Connected(s)
    /\ msg[s] # m /\ m \notin held[s]
    /\ GiveBack({m})
    /\ UNCHANGED <<runner, pulsar>>

-----------------------------------------------------------------------------
(* A subscription of the adapter.                                          *)

Loop(s, step) == loop' = [loop EXCEPT ![s] = step]

\* consumer.receive() resolves; the handler starts.  Nothing looks at
\* `running` in between.
Receive(s, m) ==
    /\ loop[s] = "receive" /\ Connected(s)
    /\ at[m] = Queued
    /\ at' = [at EXCEPT ![m] = s]
    /\ msg' = [msg EXCEPT ![s] = m]
    /\ Loop(s, "handle")
    /\ UNCHANGED <<runner, tries, consumer, running, held, closing, stopped>>

\* receive() rejects: the consumer was closed, or the subscription fails.
ReceiveFails(s) ==
    /\ loop[s] = "receive"
    /\ consumer[s] = "closed" \/ (consumer[s] = "open" /\ s < MaxSubs)
    /\ running' = [running EXCEPT ![s] = FALSE]
    /\ Loop(s, IF running[s] THEN "failing" ELSE "over")
    /\ UNCHANGED <<runner, consumer, msg, held, closing, stopped, broker>>

\* The failed loop closes its consumer and reports that it stopped.
LoopStops(s) ==
    /\ loop[s] = "failing"
    /\ ConsumerGone(s)
    /\ stopped' = [stopped EXCEPT ![s] = TRUE]
    /\ Loop(s, "over")
    /\ UNCHANGED <<runner, running, msg, held, closing>>

\* The handler's promise is over: the loop looks at `running`.
Handled(s) ==
    /\ msg' = [msg EXCEPT ![s] = None]
    /\ Loop(s, IF running[s] THEN "receive" ELSE "over")

\* The handler resolved and its message is acked, which fails on a closed
\* consumer and may fail on an open one.
Resolve(s) ==
    /\ loop[s] = "handle"
    /\ at' \in {at} \cup
           (IF Connected(s) /\ Has(s, msg[s])
            THEN {[at EXCEPT ![msg[s]] = Acked]} ELSE {})
    /\ Handled(s)
    /\ UNCHANGED <<runner, consumer, running, held, closing, stopped, tries>>

\* The handler threw: its message is nacked now (a first redelivery) or after
\* a hold.  A closed consumer ignores a nack.
Throw(s) ==
    /\ loop[s] = "handle"
    /\ \/ /\ tries[msg[s]] = 0
          /\ GiveBack({msg[s]} \cap {m \in Messages : at[m] = s /\ Connected(s)})
          /\ UNCHANGED held
       \/ /\ tries[msg[s]] > 0
          /\ held' = [held EXCEPT ![s] = @ \cup {msg[s]}]
          /\ UNCHANGED broker
    /\ Handled(s)
    /\ UNCHANGED <<runner, consumer, running, closing, stopped>>

\* A hold is over: the message is nacked, unless the subscription is closing.
HoldOver(s, m) ==
    /\ m \in held[s]
    /\ held' = [held EXCEPT ![s] = @ \ {m}]
    /\ IF running[s] /\ at[m] = s THEN GiveBack({m}) ELSE UNCHANGED broker
    /\ UNCHANGED <<runner, consumer, running, loop, msg, closing, stopped>>

\* MessageSubscription.close() begins: it will await the handler in flight.
CloseSub(s) ==
    /\ running' = [running EXCEPT ![s] = FALSE]
    /\ closing' = [closing EXCEPT ![s] = IF msg[s] = None THEN "clear" ELSE "flight"]

\* The awaited handler is over; held nacks are dropped, and the consumer
\* begins to close.
CloseConsumer(s) ==
    /\ closing[s] = "clear" \/ (closing[s] = "flight" /\ msg[s] = None)
    /\ held' = [held EXCEPT ![s] = {}]
    /\ consumer' = [consumer EXCEPT ![s] = IF @ = "open" THEN "closing" ELSE @]
    /\ closing' = [closing EXCEPT ![s] = "consumer"]
    /\ UNCHANGED <<runner, running, loop, msg, stopped, broker>>

\* consumer.close() is over.
ConsumerClosed(s) ==
    /\ closing[s] = "consumer"
    /\ ConsumerGone(s)
    /\ closing' = [closing EXCEPT ![s] = "loop"]
    /\ UNCHANGED <<runner, running, loop, msg, held, stopped>>

\* await loop: close() resolves.
SubClosed(s) ==
    /\ closing[s] = "loop" /\ loop[s] = "over"
    /\ closing' = [closing EXCEPT ![s] = "done"]
    /\ UNCHANGED <<runner, consumer, running, loop, msg, held, stopped, broker>>

-----------------------------------------------------------------------------
(* RunningConsumer.                                                        *)

\* subscribe() resolves; the new subscription's loop receives already.
Subscribed ==
    /\ attempt = "subscribing" /\ enabled /\ made < MaxSubs
    /\ made' = made + 1
    /\ attempt' = "subscribed"
    /\ consumer' = [consumer EXCEPT ![made'] = "open"]
    /\ running' = [running EXCEPT ![made'] = TRUE]
    /\ Loop(made', "receive")
    /\ UNCHANGED <<state, enabled, failures, sub, timer, closer, msg, held, closing, stopped, broker>>

\* retryAfter: nothing is armed once closed.
RetryAfter == timer' = (closer = "no")

\* subscribe() rejects: with messaging disabled for good, else to be retried.
SubscribeFails ==
    /\ attempt = "subscribing"
    /\ attempt' = "none"
    /\ \/ ~enabled /\ state' = "disabled" /\ UNCHANGED <<failures, timer>>
       \/ /\ enabled /\ failures < MaxFailures
          /\ failures' = failures + 1
          /\ state' = "retrying"
          /\ RetryAfter
    /\ UNCHANGED <<enabled, sub, made, closer, pulsar, broker>>

\* connect() goes on: the subscription is kept, or closed if close() came
\* meanwhile.
Connect ==
    /\ attempt = "subscribed"
    /\ IF closer = "no"
         THEN /\ attempt' = "none" /\ sub' = made /\ state' = "running"
              /\ UNCHANGED pulsar
         ELSE /\ attempt' = "closing"
              /\ CloseSub(made)
              /\ UNCHANGED <<state, sub, consumer, loop, msg, held, stopped>>
    /\ UNCHANGED <<enabled, failures, made, timer, closer, broker>>

\* connect() awaited the close of the late subscription.
LateClosed ==
    /\ attempt = "closing" /\ closing[made] = "done"
    /\ attempt' = "none"
    /\ UNCHANGED <<state, enabled, failures, sub, made, timer, closer, pulsar, broker>>

\* Bug: a stopped subscription is only logged.
BugStoppedNoRetry(s) ==
    /\ stopped[s] /\ sub = s /\ closer = "no"
    /\ sub' = 0
    /\ state' = "retrying"
    /\ UNCHANGED <<enabled, failures, attempt, made, timer, closer, pulsar, broker>>

\* `stopped` settled: the subscription is let go and subscribed again.
Stopped(s) ==
    /\ stopped[s] /\ sub = s /\ closer = "no"
    /\ sub' = 0
    /\ state' = "retrying"
    /\ RetryAfter
    /\ UNCHANGED <<enabled, failures, attempt, made, closer, pulsar, broker>>

\* The retry timer fires: begin().
TimerFires ==
    /\ timer
    /\ timer' = FALSE
    /\ attempt' = "subscribing"
    /\ UNCHANGED <<state, enabled, failures, sub, made, closer, pulsar, broker>>

\* close(): no more retries, then await the attempt.
Close ==
    /\ closer = "no"
    /\ closer' = "attempt"
    /\ timer' = FALSE
    /\ UNCHANGED <<state, enabled, failures, attempt, sub, made, pulsar, broker>>

\* The attempt is over: the subscription there is, is closed.
CloseHeld ==
    /\ closer = "attempt" /\ attempt = "none"
    /\ sub' = 0
    /\ IF sub = 0
         THEN closer' = "done" /\ UNCHANGED <<running, closing>>
         ELSE closer' = "sub" /\ CloseSub(sub)
    /\ UNCHANGED <<state, enabled, failures, attempt, made, timer, consumer, loop, msg, held, stopped, broker>>

\* close() resolves.
Closed ==
    /\ closer = "sub" /\ closing[made] = "done"
    /\ closer' = "done"
    /\ UNCHANGED <<state, enabled, failures, attempt, sub, made, timer, pulsar, broker>>

-----------------------------------------------------------------------------

Handler(s) == Resolve(s) \/ Throw(s)

Closing(s) == CloseConsumer(s) \/ ConsumerClosed(s) \/ SubClosed(s)

Connecting == Subscribed \/ SubscribeFails \/ Connect \/ LateClosed

Next ==
    \/ Connecting \/ TimerFires \/ Close \/ CloseHeld \/ Closed
    \/ \E s \in Subs : Handler(s) \/ Closing(s) \/ ReceiveFails(s) \/ LoopStops(s) \/ Stopped(s)
    \/ \E s \in Subs, m \in Messages : Receive(s, m) \/ HoldOver(s, m) \/ AckTimeout(s, m)

\* Promises settle, timers fire, and the broker delivers.  Nothing has to
\* fail, and nobody has to close the consumer.
Spec ==
    /\ Init /\ [][Next]_vars
    /\ WF_vars(Connecting) /\ WF_vars(TimerFires)
    /\ WF_vars(CloseHeld) /\ WF_vars(Closed)
    /\ \A s \in Subs :
           /\ WF_vars(Handler(s)) /\ WF_vars(Closing(s))
           /\ WF_vars(LoopStops(s)) /\ WF_vars(Stopped(s))
           /\ WF_vars(ReceiveFails(s) /\ consumer[s] = "closed")
           /\ WF_vars(\E m \in Messages : Receive(s, m))
           /\ \A m \in Messages : WF_vars(HoldOver(s, m)) /\ WF_vars(AckTimeout(s, m))

-----------------------------------------------------------------------------
(* The properties.                                                         *)

\* Every variable holds a value the code can give it, and a message handled
\* or held by a subscription that is connected is out to it.
TypeOK ==
    /\ state \in {"starting", "running", "retrying", "disabled"}
    /\ enabled \in BOOLEAN /\ failures \in 0..MaxFailures
    /\ attempt \in {"none", "subscribing", "subscribed", "closing"}
    /\ made \in 0..MaxSubs /\ sub \in {0, made}
    /\ timer \in BOOLEAN /\ closer \in {"no", "attempt", "sub", "done"}
    /\ consumer \in [Subs -> {"none", "open", "closing", "closed"}]
    /\ running \in [Subs -> BOOLEAN]
    /\ loop \in [Subs -> LoopSteps]
    /\ msg \in [Subs -> Messages \cup {None}]
    /\ held \in [Subs -> SUBSET Messages]
    /\ closing \in [Subs -> CloseSteps]
    /\ stopped \in [Subs -> BOOLEAN]
    /\ at \in [Messages -> Subs \cup {Queued, Acked, Dead}]
    /\ tries \in [Messages -> 0..MaxRedeliveries]
    /\ \A s \in Subs : (loop[s] = "handle") <=> (msg[s] # None)

\* "Process messages one at a time": however often it was subscribed again,
\* at most one receive loop is alive and at most one Pulsar consumer open.
OneLoop ==
    \A s, t \in Subs :
        /\ loop[s] \notin {"off", "over"} /\ loop[t] \notin {"off", "over"} => s = t
        /\ Connected(s) /\ Connected(t) => s = t

\* "Stops consuming and stops resubscribing": when close() has resolved, no
\* attempt is under way, no retry is armed, no consumer is open and no
\* handler runs, whenever close() came.
ClosedIsQuiet ==
    closer = "done" =>
        /\ attempt = "none" /\ ~timer /\ sub = 0
        /\ \A s \in Subs :
               ~Connected(s) /\ loop[s] \in {"off", "over"} /\ msg[s] = None

\* Whoever throws, stops or fails, a message is redelivered or settled: it is
\* never left with a subscription that will neither ack nor give it back.
MessagesSettle == \A m \in Messages : []<>(at[m] \notin Subs)

IsSubscribed == state = "running" /\ sub # 0 /\ consumer[sub] = "open"

\* "A subscription that stops on its own is resubscribed the same way": while
\* nobody closes it, the consumer is subscribed in the end, and health()
\* reads "running" then.
StaysSubscribed == []<>(~enabled \/ closer # "no" \/ IsSubscribed)

\* close() resolves, whatever it waits for.
CloseResolves == []<>(closer \in {"no", "done"})

=============================================================================
