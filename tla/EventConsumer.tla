--------------------------- MODULE EventConsumer ---------------------------
(***************************************************************************)
(* Handling events once: EventConsumer.once / onceEach (event-consumer.ts) *)
(* over the dedup markers in Redis (redis-dedup.adapter.ts), fed by a      *)
(* broker that keeps the delivery contract of messaging.port.ts.           *)
(*                                                                         *)
(* A message carries a set of keys: one for an event of the outbox, one    *)
(* per item of a tracking batch.  Messages share keys when an event was    *)
(* published twice.  Workers are consumer processes; each handles one      *)
(* message at a time, in the calls the code awaits: claim, the work,       *)
(* extend or release, ack or nack.  A worker may stop between any two.     *)
(*                                                                         *)
(* Time passes in Ticks: markers expire, and a delivery that is neither    *)
(* acked nor nacked within AckTimeout goes back to the queue.  A delivery  *)
(* waiting out its backoff is a queued one, since Deliver may come at any  *)
(* time.                                                                   *)
(*                                                                         *)
(* Abstracted: what the work does, and the attempts' random tokens.  A     *)
(* worker has one attempt at a time, so a marker holds the worker's name,  *)
(* or Past once that attempt is over.                                      *)
(***************************************************************************)
EXTENDS Integers

CONSTANTS
    Workers, Messages, Keys,
    KeysOf,             \* the dedup keys of each message
    ClaimTTL,           \* CONSUMER_CLAIM_TTL_SECONDS
    SeenTTL,            \* CONSUMER_SEEN_TTL_SECONDS
    AckTimeout,         \* MESSAGING_ACK_TIMEOUT_MS
    ClaimDelay,         \* from a delivery to Redis running its claim
    MaxRedeliveries,    \* then the message is dead-lettered
    SlowWork,           \* may a live attempt outlast the ack timeout?
    ReleaseFails,       \* may a release leave its claims behind?
    LateDrop            \* may DEL reach Redis after the claim it drops expired?

\* "CONSUMER_CLAIM_TTL_SECONDS must stay below the ack timeout": by as much
\* as the claim may come after the delivery.
ASSUME TimesAssumption ==
    /\ ClaimTTL \in Nat \ {0} /\ SeenTTL \in Nat \ {0}
    /\ AckTimeout \in Nat /\ ClaimDelay \in Nat
    /\ ClaimDelay + ClaimTTL <= AckTimeout
    /\ MaxRedeliveries \in Nat
    /\ SlowWork \in BOOLEAN /\ ReleaseFails \in BOOLEAN /\ LateDrop \in BOOLEAN

ASSUME KeysAssumption == KeysOf \in [Messages -> (SUBSET Keys) \ {{}}]

None == "none"
Past == "past"
ASSUME NamesAssumption == {None, Past} \cap (Workers \cup Messages) = {}

VARIABLES
    state,      \* per message: "unsent", "queued", "out", "acked", "dead"
    to,         \* per message: the worker handling its last delivery, or None
    ackLeft,    \* per message: time left to ack its last delivery
    tries,      \* per message: redeliveries so far
    owner,      \* per key: the token in its marker, or None without a marker
    ttl,        \* per key: time left on its marker
    pc,         \* per worker: the call it is about to make
    msg,        \* per worker: the message of its attempt, or None
    mine,       \* per worker: the keys its attempt claimed
    left,       \* per worker: time left to claim, then of its claims
    handled,    \* the keys whose work was done
    lapsed      \* the keys a marker of which ever expired

broker == <<state, to, ackLeft, tries>>
markers == <<owner, ttl>>
workers == <<pc, msg, mine, left>>
ghosts == <<handled, lapsed>>
vars == <<broker, markers, workers, ghosts>>

Calls == {"idle", "claim", "work", "extend", "release", "drop", "ack", "nack"}

Init ==
    /\ state = [m \in Messages |-> "unsent"]
    /\ to = [m \in Messages |-> None]
    /\ ackLeft = [m \in Messages |-> 0]
    /\ tries = [m \in Messages |-> 0]
    /\ owner = [k \in Keys |-> None]
    /\ ttl = [k \in Keys |-> 0]
    /\ pc = [w \in Workers |-> "idle"]
    /\ msg = [w \in Workers |-> None]
    /\ mine = [w \in Workers |-> {}]
    /\ left = [w \in Workers |-> 0]
    /\ handled = {}
    /\ lapsed = {}

-----------------------------------------------------------------------------
(* The broker.                                                             *)

\* Someone publishes the message.
Publish(m) ==
    /\ state[m] = "unsent"
    /\ state' = [state EXCEPT ![m] = "queued"]
    /\ UNCHANGED <<to, ackLeft, tries, markers, workers, ghosts>>

\* The subscription hands a queued message to a free worker, whose handler
\* starts.
Deliver(w, m) ==
    /\ pc[w] = "idle"
    /\ state[m] = "queued"
    /\ state' = [state EXCEPT ![m] = "out"]
    /\ to' = [to EXCEPT ![m] = w]
    /\ ackLeft' = [ackLeft EXCEPT ![m] = AckTimeout]
    /\ pc' = [pc EXCEPT ![w] = "claim"]
    /\ msg' = [msg EXCEPT ![w] = m]
    /\ left' = [left EXCEPT ![w] = ClaimDelay]
    /\ UNCHANGED <<tries, markers, mine, ghosts>>

\* Bug: no dead-letter policy.
BugRedeliverForever(m) ==
    /\ state' = [state EXCEPT ![m] = "queued"]
    /\ to' = [to EXCEPT ![m] = None]
    /\ ackLeft' = [ackLeft EXCEPT ![m] = 0]
    /\ UNCHANGED tries

\* A failed delivery is queued again, or dead-lettered after the last one.
Redeliver(m) ==
    /\ state' = [state EXCEPT ![m] = IF tries[m] < MaxRedeliveries
                                     THEN "queued" ELSE "dead"]
    /\ tries' = [tries EXCEPT ![m] = IF @ < MaxRedeliveries THEN @ + 1 ELSE @]
    /\ to' = [to EXCEPT ![m] = None]
    /\ ackLeft' = [ackLeft EXCEPT ![m] = 0]

\* "A received message that is not acked within this window is redelivered."
AckRunsOut(m) ==
    /\ state[m] = "out"
    /\ ackLeft[m] = 0
    /\ Redeliver(m)
    /\ UNCHANGED <<markers, workers, ghosts>>

-----------------------------------------------------------------------------
(* An attempt of a worker.                                                 *)

Go(w, call) == pc' = [pc EXCEPT ![w] = call]

Free(w) == {k \in KeysOf[msg[w]] : owner[k] = None}

\* SET NX EX of some keys with the attempt's token.
SetMarkers(w, won) ==
    /\ owner' = [k \in Keys |-> IF k \in won THEN w ELSE owner[k]]
    /\ ttl' = [k \in Keys |-> IF k \in won THEN ClaimTTL ELSE ttl[k]]
    /\ mine' = [mine EXCEPT ![w] = won]
    /\ left' = [left EXCEPT ![w] = ClaimTTL]

\* claimMany: the keys without a marker are this attempt's; the work runs
\* with those, and an attempt that got none is done.
Claim(w) ==
    /\ pc[w] = "claim"
    /\ SetMarkers(w, Free(w))
    /\ Go(w, IF Free(w) = {} THEN "ack" ELSE "work")
    /\ UNCHANGED <<broker, msg, ghosts>>

\* Bug: the error path drops every key of the call, not only those it won.
BugClaimFailsDropsAll(w) ==
    /\ pc[w] = "claim"
    /\ mine' = [mine EXCEPT ![w] = KeysOf[msg[w]]]
    /\ left' = [left EXCEPT ![w] = ClaimTTL]
    /\ Go(w, "drop")
    /\ UNCHANGED <<broker, markers, msg, ghosts>>

\* claimMany fails with some of the keys set: exec threw, and the call
\* releases them as their owner, or a command's reply was an error, and the
\* keys it won are deleted.
ClaimFails(w) ==
    /\ pc[w] = "claim"
    /\ \E won \in SUBSET Free(w) : SetMarkers(w, won)
    /\ \/ Go(w, "release")
       \/ Go(w, "drop")
    /\ UNCHANGED <<broker, msg, ghosts>>

\* The work resolves.
WorkDone(w) ==
    /\ pc[w] = "work"
    /\ handled' = handled \cup mine[w]
    /\ Go(w, "extend")
    /\ UNCHANGED <<broker, markers, msg, mine, left, lapsed>>

\* The work throws.
WorkFails(w) ==
    /\ pc[w] = "work"
    /\ Go(w, "release")
    /\ UNCHANGED <<broker, markers, msg, mine, left, ghosts>>

Owned(w) == {k \in mine[w] : owner[k] = w}

\* extendMany: EXPIRE where the marker is still this attempt's.  Its errors
\* are logged only, and any of its commands may have failed.
Extend(w) ==
    /\ pc[w] = "extend"
    /\ \E kept \in SUBSET Owned(w) :
           ttl' = [k \in Keys |-> IF k \in kept THEN SeenTTL ELSE ttl[k]]
    /\ Go(w, "ack")
    /\ UNCHANGED <<broker, owner, msg, mine, left, ghosts>>

DeleteMarkers(gone) ==
    /\ owner' = [k \in Keys |-> IF k \in gone THEN None ELSE owner[k]]
    /\ ttl' = [k \in Keys |-> IF k \in gone THEN 0 ELSE ttl[k]]

\* Bug: DEL without comparing the token.
BugReleaseNotOwner(w) ==
    /\ pc[w] = "release"
    /\ DeleteMarkers(mine[w])
    /\ Go(w, "nack")
    /\ UNCHANGED <<broker, msg, mine, left, ghosts>>

\* releaseMany: DEL where the marker is still this attempt's; its errors are
\* swallowed by every caller.
Release(w) ==
    /\ pc[w] = "release"
    /\ \E gone \in SUBSET Owned(w) :
           /\ ReleaseFails \/ gone = Owned(w)
           /\ DeleteMarkers(gone)
    /\ Go(w, "nack")
    /\ UNCHANGED <<broker, msg, mine, left, ghosts>>

\* redis.del(...won): DEL whoever the marker belongs to.
Drop(w) ==
    /\ pc[w] = "drop"
    /\ \E gone \in SUBSET mine[w] :
           /\ ReleaseFails \/ gone = mine[w]
           /\ DeleteMarkers(gone)
    /\ Go(w, "nack")
    /\ UNCHANGED <<broker, msg, mine, left, ghosts>>

\* The attempt is over: nobody has its token anymore.
AttemptEnds(w) ==
    /\ pc' = [pc EXCEPT ![w] = "idle"]
    /\ msg' = [msg EXCEPT ![w] = None]
    /\ mine' = [mine EXCEPT ![w] = {}]
    /\ left' = [left EXCEPT ![w] = 0]
    /\ owner' = [k \in Keys |-> IF owner[k] = w THEN Past ELSE owner[k]]

LetGo(w) == to' = [m \in Messages |-> IF to[m] = w THEN None ELSE to[m]]

\* The handler resolved: the message is acked, whoever has it now, or the ack
\* fails and the broker redelivers it.
Ack(w) ==
    /\ pc[w] = "ack"
    /\ LetGo(w)
    /\ state' \in {state, [state EXCEPT ![msg[w]] =
                              IF @ = "dead" THEN "dead" ELSE "acked"]}
    /\ AttemptEnds(w)
    /\ UNCHANGED <<ackLeft, tries, ttl, ghosts>>

\* The handler threw: the delivery fails, if it still is this worker's.
Nack(w) ==
    /\ pc[w] = "nack"
    /\ IF state[msg[w]] = "out" /\ to[msg[w]] = w
         THEN Redeliver(msg[w]) ELSE UNCHANGED broker
    /\ AttemptEnds(w)
    /\ UNCHANGED <<ttl, ghosts>>

\* The process is killed: its delivery and its markers run out.
Crash(w) ==
    /\ pc[w] # "idle"
    /\ LetGo(w)
    /\ AttemptEnds(w)
    /\ UNCHANGED <<state, ackLeft, tries, ttl, ghosts>>

-----------------------------------------------------------------------------
(* Time.                                                                   *)

Down(n) == IF n > 0 THEN n - 1 ELSE 0

\* What is punctual: claims always, and the rest as the constants say.
Punctual ==
    /\ \A w \in Workers : pc[w] = "claim" => left[w] > 0
    /\ LateDrop \/ \A w \in Workers : pc[w] = "drop" => left[w] > 1
    /\ SlowWork \/ \A m \in Messages : to[m] # None => ackLeft[m] > 1

\* Bug: markers are set without EX.
BugTickNoExpiry ==
    /\ Punctual
    /\ ackLeft' = [m \in Messages |-> Down(ackLeft[m])]
    /\ left' = [w \in Workers |-> Down(left[w])]
    /\ UNCHANGED <<state, to, tries, markers, pc, msg, mine, ghosts>>

Tick ==
    /\ Punctual
    /\ ackLeft' = [m \in Messages |-> Down(ackLeft[m])]
    /\ left' = [w \in Workers |-> Down(left[w])]
    /\ ttl' = [k \in Keys |-> Down(ttl[k])]
    /\ owner' = [k \in Keys |-> IF ttl[k] > 1 THEN owner[k] ELSE None]
    /\ lapsed' = lapsed \cup {k \in Keys : ttl[k] = 1}
    /\ UNCHANGED <<state, to, tries, pc, msg, mine, handled>>

-----------------------------------------------------------------------------

\* What a worker does once it has a message.
Attempt(w) ==
    \/ Claim(w) \/ ClaimFails(w)
    \/ WorkDone(w) \/ WorkFails(w)
    \/ Extend(w) \/ Release(w) \/ Drop(w)
    \/ Ack(w) \/ Nack(w)

Next ==
    \/ Tick
    \/ \E m \in Messages : Publish(m) \/ AckRunsOut(m)
    \/ \E w \in Workers, m \in Messages : Deliver(w, m)
    \/ \E w \in Workers : Attempt(w) \/ Crash(w)

\* Time passes, live workers finish their calls, queued messages are handed
\* out.  Nothing has to be published, and no worker has to stop.
Spec ==
    /\ Init /\ [][Next]_vars
    /\ WF_vars(Tick)
    /\ \A m \in Messages :
           /\ WF_vars(AckRunsOut(m))
           /\ WF_vars(\E w \in Workers : Deliver(w, m))
    /\ \A w \in Workers : WF_vars(Attempt(w))

-----------------------------------------------------------------------------
(* The properties.                                                         *)

\* Every variable holds a value the code can give it; a marker has time left
\* exactly while it is there.
TypeOK ==
    /\ state \in [Messages -> {"unsent", "queued", "out", "acked", "dead"}]
    /\ to \in [Messages -> Workers \cup {None}]
    /\ ackLeft \in [Messages -> 0..AckTimeout]
    /\ tries \in [Messages -> 0..MaxRedeliveries]
    /\ owner \in [Keys -> Workers \cup {None, Past}]
    /\ ttl \in [Keys -> Nat]
    /\ \A k \in Keys : owner[k] = None <=> ttl[k] = 0
    /\ pc \in [Workers -> Calls]
    /\ msg \in [Workers -> Messages \cup {None}]
    /\ mine \in [Workers -> SUBSET Keys]
    /\ left \in [Workers -> Nat]
    /\ handled \subseteq Keys
    /\ lapsed \subseteq Keys

\* "On failure released and the error rethrown, so the redelivery retries
\* instead of being skipped", and a killed worker's claim is gone before the
\* redelivery: an event that was not handled is still in the queue, with a
\* worker or dead-lettered in at least one of its messages.
NoEventLost ==
    \A k \in Keys :
        (\E m \in Messages : k \in KeysOf[m] /\ state[m] # "unsent") =>
            \/ k \in handled
            \/ \E m \in Messages :
                   k \in KeysOf[m] /\ state[m] \in {"queued", "out", "dead"}

\* "Extend and release are owner-checked": two attempts work on one key only
\* when one of them has outlived its claim.
NoConcurrentWork ==
    \A v, w \in Workers :
        (pc[v] = "work" /\ pc[w] = "work" /\ mine[v] \cap mine[w] # {}) =>
            v = w \/ left[v] = 0 \/ left[w] = 0

\* "A redrive of an event that was handled changes nothing": the marker of a
\* handled key goes only when its time is up, so its work runs again only
\* then.
HandledStaysMarked == \A k \in handled : owner[k] = None => k \in lapsed

\* "A message [is] parked instead of redelivered forever": every message is
\* acked or dead-lettered in the end, whoever fails or stops on the way.
Settled(m) == state[m] \in {"unsent", "acked", "dead"}
EveryMessageSettles == \A m \in Messages : []<>Settled(m)

=============================================================================
