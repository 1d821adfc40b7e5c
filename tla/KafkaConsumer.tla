--------------------------- MODULE KafkaConsumer ---------------------------
(***************************************************************************)
(* A subscription of the Kafka adapter (kafka-messaging.adapter.ts): a     *)
(* consumer group on one partition, whose members pin a new group to the   *)
(* end of the topic, join, and handle one record at a time, retrying it in *)
(* process and dead-lettering it in the end; with the claims EventConsumer *)
(* takes around each handler (event-consumer.ts).                          *)
(*                                                                         *)
(* Records are their offsets.  A member reads on from the committed offset *)
(* when the partition becomes its own, and again after eachMessage threw.  *)
(* The group drops a member that did not heartbeat for SessionTimeout: one *)
(* that was killed, or whose handler takes that long, since nothing        *)
(* heartbeats while a handler runs.                                        *)
(*                                                                         *)
(* External, from how the adapter uses it: kafkajs and the brokers.        *)
(* Abstracted: delays between retries, the DLQ's own group, and a release  *)
(* that fails (module EventConsumer).                                      *)
(***************************************************************************)
EXTENDS Integers

CONSTANTS
    Members,            \* consumer processes
    MaxRecords,         \* bound on records published
    MaxRedeliveries,    \* MESSAGING_MAX_REDELIVERIES
    ClaimTTL,           \* CONSUMER_CLAIM_TTL_SECONDS
    SessionTimeout,     \* of kafkajs, which the adapter leaves at its default
    HeartbeatInterval,  \* of kafkajs, as well
    MaxFaults           \* bound on stops, slow handlers and failed sends

KafkaAssumption ==
    /\ MaxRecords \in Nat /\ MaxRedeliveries \in Nat /\ MaxFaults \in Nat
    /\ ClaimTTL \in Nat \ {0} /\ SessionTimeout \in Nat \ {0}
    /\ HeartbeatInterval \in 0..(SessionTimeout - 1)

\* How long a claim can outlive its holder's place in the group.  A claim "must
\* expire before" the redelivery (messaging.port.ts): for times with no overhang.
\* The code's are 30 s, 30 s and 3 s.
Overhang == ClaimTTL + HeartbeatInterval - SessionTimeout

None == "none"
MembersAssumption == {None, "seen", "past"} \cap Members = {}

Records == 0..(MaxRecords - 1)
Unpinned == -1

VARIABLES
    end,        \* records published
    committed,  \* the group's offset, or Unpinned
    from,       \* records published when the first subscribe() resolved
    group,      \* the members of the group
    owner,      \* the one the partition is assigned to, or None
    session,    \* per member: time left until it must have heartbeaten
    pc,         \* per member: the call it is about to make
    ends,       \* per member: the end of the topic it fetched
    next,       \* per member: the record it handles, then the one after
    attempt,    \* per member: failed attempts at that record
    closing,    \* the members whose close() was called
    claim,      \* per record: the member whose claim is held, "seen", or None
    ttl,        \* per record: time left on a claim
    handled,    \* records whose work was done
    dead,       \* records on the dead-letter topic
    presumed,   \* records passed by as handled while another's claim was held
    faults

topic == <<end, committed, from>>
coordinator == <<group, owner, session>>
member == <<pc, ends, next, attempt, closing>>
claims == <<claim, ttl>>
results == <<handled, dead, presumed>>
vars == <<topic, coordinator, member, claims, results, faults>>

Handling == {"claim", "work", "extend", "release", "dlq"}
Calls == {"off", "ends", "pin", "join", "poll", "wait"} \cup Handling

Init ==
    /\ end = 0 /\ committed = Unpinned /\ from = MaxRecords
    /\ group = {} /\ owner = None
    /\ session = [m \in Members |-> 0]
    /\ pc = [m \in Members |-> "off"]
    /\ ends = [m \in Members |-> 0]
    /\ next = [m \in Members |-> 0]
    /\ attempt = [m \in Members |-> 0]
    /\ closing = {}
    /\ claim = [r \in Records |-> None]
    /\ ttl = [r \in Records |-> 0]
    /\ handled = {} /\ dead = {} /\ presumed = {}
    /\ faults = 0

Go(m, call) == pc' = [pc EXCEPT ![m] = call]

Fault == faults < MaxFaults /\ faults' = faults + 1

-----------------------------------------------------------------------------
(* subscribe(): pin a new group to the end of the topic, then join.        *)

Publish ==
    /\ end < MaxRecords
    /\ end' = end + 1
    /\ UNCHANGED <<committed, from, coordinator, member, claims, results, faults>>

\* admin.fetchOffsets: a group that has an offset resumes there.
FetchOffsets(m) ==
    /\ pc[m] = "off" /\ m \notin group
    /\ Go(m, IF committed = Unpinned THEN "ends" ELSE "join")
    /\ UNCHANGED <<ends, next, attempt, closing, topic, coordinator, claims, results, faults>>

FetchEnds(m) ==
    /\ pc[m] = "ends"
    /\ ends' = [ends EXCEPT ![m] = end]
    /\ Go(m, "pin")
    /\ UNCHANGED <<next, attempt, closing, topic, coordinator, claims, results, faults>>

\* admin.setOffsets, which is refused while the group has members; a failure
\* is logged only.
Pin(m) ==
    /\ pc[m] = "pin"
    /\ committed' = IF group = {} THEN ends[m] ELSE committed
    /\ ends' = [ends EXCEPT ![m] = 0]
    /\ Go(m, "join")
    /\ UNCHANGED <<end, from, next, attempt, closing, coordinator, claims, results, faults>>

\* consumer.run: the member joins the group, and subscribe() resolves; or
\* kafkajs joins again, for a member that finds itself evicted.
Join(m) ==
    /\ pc[m] \in {"join", "poll"} /\ m \notin group
    /\ group' = group \cup {m}
    /\ session' = [session EXCEPT ![m] = SessionTimeout]
    /\ Go(m, "poll")
    /\ from' = IF from = MaxRecords THEN end ELSE from
    /\ UNCHANGED <<end, committed, owner, ends, next, attempt, closing, claims, results, faults>>

-----------------------------------------------------------------------------
(* The group.                                                              *)

Leave(m) ==
    /\ group' = group \ {m}
    /\ owner' = IF owner = m THEN None ELSE owner
    /\ session' = [session EXCEPT ![m] = 0]

\* The partition is assigned to a member of the group, and read from the
\* committed offset on.
Assign(m) ==
    /\ owner = None
    /\ m \in group /\ pc[m] = "poll"
    /\ owner' = m
    /\ next' = [next EXCEPT ![m] = IF committed = Unpinned THEN end ELSE committed]
    /\ attempt' = [attempt EXCEPT ![m] = 0]
    /\ UNCHANGED <<group, session, pc, ends, closing, topic, claims, results, faults>>

\* A member whose session is over is out; one that is alive finds out with
\* its next commit or heartbeat.
Evict(m) ==
    /\ m \in group /\ session[m] = 0
    /\ Leave(m)
    /\ UNCHANGED <<topic, member, claims, results, faults>>

-----------------------------------------------------------------------------
(* eachMessage.                                                            *)

\* An attempt starts: the last heartbeat is at most an interval old.
Heartbeated(m) ==
    \E age \in 0..HeartbeatInterval :
        session' = [session EXCEPT ![m] = SessionTimeout - age]

\* A record is fetched.
Poll(m) ==
    /\ pc[m] = "poll" /\ owner = m /\ m \notin closing
    /\ next[m] < end
    /\ Heartbeated(m)
    /\ Go(m, "claim")
    /\ UNCHANGED <<group, owner, ends, next, attempt, closing, topic, claims, results, faults>>

\* The handler's promise resolved: the member goes on with the next record,
\* and its progress is committed now or with a later record's.
Resolve(m) ==
    /\ attempt' = [attempt EXCEPT ![m] = 0]
    /\ IF owner = m
         THEN /\ next' = [next EXCEPT ![m] = @ + 1]
              /\ committed' \in {committed, next[m] + 1}
              /\ session' = [session EXCEPT ![m] = SessionTimeout]
              /\ Go(m, "poll")
         ELSE /\ Go(m, "join")
              /\ UNCHANGED <<next, committed, session>>
    /\ UNCHANGED <<end, from, group, owner, ends, closing>>

\* Bug: the record that threw is left behind.
BugRethrowSkips(m) ==
    /\ attempt' = [attempt EXCEPT ![m] = 0]
    /\ next' = [next EXCEPT ![m] = IF owner = m THEN @ + 1 ELSE committed]
    /\ Go(m, IF owner = m THEN "poll" ELSE "join")

\* eachMessage throws: the record is fetched again from the committed offset,
\* by a member that is not evicted.
Rethrow(m) ==
    /\ attempt' = [attempt EXCEPT ![m] = 0]
    /\ next' = [next EXCEPT ![m] = committed]
    /\ Go(m, IF owner = m THEN "poll" ELSE "join")

Held(r) == claim[r] \in Members \cup {"past"}

\* onceEach's claim: taken, or a duplicate, whether the record was handled or
\* another attempt at it holds its claim.
Claim(m) ==
    /\ pc[m] = "claim"
    /\ IF claim[next[m]] = None
         THEN /\ claim' = [claim EXCEPT ![next[m]] = m]
              /\ ttl' = [ttl EXCEPT ![next[m]] = ClaimTTL]
              /\ Go(m, "work")
              /\ UNCHANGED <<topic, coordinator, ends, next, attempt, closing, presumed>>
         ELSE /\ Resolve(m)
              /\ presumed' = presumed \cup (IF Held(next[m]) THEN {next[m]} ELSE {})
              /\ UNCHANGED claims
    /\ UNCHANGED <<handled, dead, faults>>

Mine(m) == claim[next[m]] = m

WorkDone(m) ==
    /\ pc[m] = "work"
    /\ handled' = handled \cup {next[m]}
    /\ Go(m, "extend")
    /\ UNCHANGED <<ends, next, attempt, closing, topic, coordinator, claims, dead, presumed,
                   faults>>

\* extendMany of a claim that is still its own, then the handler resolves.
Extend(m) ==
    /\ pc[m] = "extend"
    /\ claim' = IF Mine(m) THEN [claim EXCEPT ![next[m]] = "seen"] ELSE claim
    /\ ttl' = IF Mine(m) THEN [ttl EXCEPT ![next[m]] = 0] ELSE ttl
    /\ Resolve(m)
    /\ UNCHANGED <<results, faults>>

WorkFails(m) ==
    /\ pc[m] = "work"
    /\ Go(m, "release")
    /\ UNCHANGED <<ends, next, attempt, closing, topic, coordinator, claims, results, faults>>

\* Bug: one attempt too many.
BugReleaseOnceMore(m) ==
    /\ pc[m] = "release"
    /\ claim' = IF Mine(m) THEN [claim EXCEPT ![next[m]] = None] ELSE claim
    /\ ttl' = IF Mine(m) THEN [ttl EXCEPT ![next[m]] = 0] ELSE ttl
    /\ Go(m, IF attempt[m] > MaxRedeliveries THEN "dlq" ELSE "wait")
    /\ UNCHANGED <<ends, next, attempt, closing, topic, coordinator, results, faults>>

\* releaseMany of a claim that is still its own; then the record waits for
\* its next attempt, or goes to the dead-letter topic after the last one.
Release(m) ==
    /\ pc[m] = "release"
    /\ claim' = IF Mine(m) THEN [claim EXCEPT ![next[m]] = None] ELSE claim
    /\ ttl' = IF Mine(m) THEN [ttl EXCEPT ![next[m]] = 0] ELSE ttl
    /\ Go(m, IF attempt[m] >= MaxRedeliveries THEN "dlq" ELSE "wait")
    /\ UNCHANGED <<ends, next, attempt, closing, topic, coordinator, results, faults>>

\* Bug: a subscription that closes returns from eachMessage.
BugRetryClosingReturns(m) ==
    /\ pc[m] = "wait"
    /\ IF m \in closing THEN Resolve(m)
       ELSE /\ Go(m, "claim") /\ Heartbeated(m)
            /\ attempt' = [attempt EXCEPT ![m] = @ + 1]
            /\ UNCHANGED <<topic, group, owner, ends, next, closing>>
    /\ UNCHANGED <<claims, results, faults>>

\* waitBeforeRetry is over, at once when closing: the loop throws if it
\* closes, a heartbeat of an evicted member throws, or the handler runs again.
Retry(m) ==
    /\ pc[m] = "wait"
    /\ IF m \in closing \/ owner # m
         THEN Rethrow(m) /\ UNCHANGED session
         ELSE /\ Go(m, "claim") /\ Heartbeated(m)
              /\ attempt' = [attempt EXCEPT ![m] = @ + 1]
              /\ UNCHANGED next
    /\ UNCHANGED <<topic, group, owner, ends, closing, claims, results, faults>>

\* The record is sent to the dead-letter topic and resolved; if the send
\* fails, eachMessage throws.
DeadLetter(m) ==
    /\ pc[m] = "dlq"
    /\ \/ Resolve(m) /\ dead' = dead \cup {next[m]} /\ UNCHANGED faults
       \/ /\ Fault /\ Rethrow(m)
          /\ UNCHANGED <<topic, coordinator, ends, closing, dead>>
    /\ UNCHANGED <<claims, handled, presumed>>

Pinning(m) == pc[m] \in {"ends", "pin"}

\* MessageSubscription.close().  No member comes and goes while another
\* pins the group: the pin is two calls to the broker.
Close(m) ==
    /\ pc[m] \in {"poll", "wait"} \cup Handling /\ m \notin closing
    /\ ~\E other \in Members : Pinning(other)
    /\ Fault
    /\ closing' = closing \cup {m}
    /\ UNCHANGED <<pc, ends, next, attempt, topic, coordinator, claims, results>>

Stop(m) ==
    /\ Go(m, "off")
    /\ ends' = [ends EXCEPT ![m] = 0]
    /\ next' = [next EXCEPT ![m] = 0]
    /\ attempt' = [attempt EXCEPT ![m] = 0]
    /\ closing' = closing \ {m}

\* consumer.disconnect: waits for eachMessage, then leaves the group.
Disconnect(m) ==
    /\ m \in closing /\ pc[m] \in {"poll", "join"}
    /\ Leave(m)
    /\ Stop(m)
    /\ UNCHANGED <<topic, claims, results, faults>>

\* The process is killed; the group learns of it when its session is over.
Crash(m) ==
    /\ Fault
    /\ pc[m] # "off"
    /\ Stop(m)
    /\ claim' = [r \in Records |-> IF claim[r] = m THEN "past" ELSE claim[r]]
    /\ UNCHANGED <<topic, coordinator, ttl, results>>

-----------------------------------------------------------------------------
(* Time.                                                                   *)

Down(n) == IF n > 0 THEN n - 1 ELSE 0

\* Members that poll or wait heartbeat; the claim call and the pinning are
\* prompt.  A handler is slow only within the bound on faults.
Tick ==
    /\ \A m \in Members : pc[m] # "claim" /\ ~Pinning(m)
    /\ IF \E m \in group : pc[m] \in Handling /\ session[m] = 1
         THEN Fault ELSE UNCHANGED faults
    /\ session' = [m \in Members |->
                      IF pc[m] \in {"poll", "wait"} THEN session[m] ELSE Down(session[m])]
    /\ ttl' = [r \in Records |-> Down(ttl[r])]
    /\ claim' = [r \in Records |-> IF ttl[r] = 1 THEN None ELSE claim[r]]
    /\ UNCHANGED <<topic, group, owner, member, results>>

-----------------------------------------------------------------------------

Step(m) ==
    \/ FetchEnds(m) \/ Pin(m) \/ Join(m)
    \/ Poll(m) \/ Claim(m) \/ WorkDone(m) \/ WorkFails(m) \/ Extend(m)
    \/ Release(m) \/ Retry(m) \/ DeadLetter(m) \/ Disconnect(m)

Next ==
    \/ Publish \/ Tick
    \/ \E m \in Members :
           FetchOffsets(m) \/ Step(m) \/ Close(m) \/ Crash(m) \/ Assign(m) \/ Evict(m)

\* Live members go on, the group assigns its partition and drops members
\* whose session is over.  Nothing has to be published, closed or killed.
Fairness ==
    /\ WF_vars(Tick)
    /\ \A m \in Members : WF_vars(Step(m)) /\ WF_vars(Evict(m))
    /\ WF_vars(\E m \in Members : Assign(m))

Spec == Init /\ [][Next]_vars /\ Fairness

-----------------------------------------------------------------------------
(* The properties.                                                         *)

\* Every variable holds a value the code can give it; the partition belongs
\* to a member, and time runs on claims only.
TypeOK ==
    /\ end \in 0..MaxRecords /\ committed \in Unpinned..end /\ from \in 0..MaxRecords
    /\ group \subseteq Members /\ owner \in group \cup {None}
    /\ session \in [Members -> 0..SessionTimeout]
    /\ pc \in [Members -> Calls]
    /\ ends \in [Members -> 0..end] /\ next \in [Members -> 0..end]
    /\ attempt \in [Members -> 0..MaxRedeliveries]
    /\ closing \subseteq Members
    /\ claim \in [Records -> Members \cup {None, "seen", "past"}]
    /\ ttl \in [Records -> 0..ClaimTTL]
    /\ \A r \in Records : ttl[r] > 0 <=> claim[r] \in Members \cup {"past"}
    /\ handled \cup dead \cup presumed \subseteq 0..(end - 1)
    /\ faults \in 0..MaxFaults

Settled(r) == r \in handled \cup dead \cup presumed

\* Whose holder the group dropped: evicted at work, or killed.
Abandoned(r) ==
    \/ claim[r] \in Members /\ owner # claim[r]
    \/ claim[r] = "past" /\ (owner = None \/ pc[owner] # "off")

\* The group's offset passes a record only when it was handled or
\* dead-lettered, or while the claim of an attempt stood whose member the group
\* had dropped: for no longer than the overhang of the claim's time over the
\* session's, and never without one.
PassedAreSettled == \A r \in from..(committed - 1) : Settled(r)
ClaimsEndInTime == \A r \in Records : Abandoned(r) => ttl[r] <= Overhang
LostOnlyUnderClaim ==
    PassedAreSettled /\ ClaimsEndInTime /\ (presumed # {} => Overhang > 0)

\* "If the process dies mid-retry the offset is uncommitted, the message is
\* redelivered to another member": a record is passed when it was handled or
\* dead-lettered, or while a live member has it in hand.  Not so with the
\* code's times.
InHand(r) == \E m \in Members : pc[m] \in Handling \cup {"wait"} /\ next[m] = r
NeverSkipped == \A r \in from..(committed - 1) : r \in handled \cup dead \/ InHand(r)

\* "While a message is retrying its partition does not advance": a record is
\* handled only when those before it were handled or dead-lettered, or passed
\* by under a claim.
PartitionInOrder ==
    [][\A r \in handled' \ handled : \A q \in from..(r - 1) : Settled(q)]_vars

Finished(r) ==
    r \notin from..(end - 1) \/ Settled(r) \/ \A m \in Members : pc[m] = "off"

\* "Up to maxRedeliveries, then publishes the message to <topic>-DLQ": while
\* some member stays, every record is passed in the end.
RecordsSettle == \A r \in Records : []<>Finished(r)

\* close() ends: it wakes a waiting retry and the loop throws.
CloseEnds == \A m \in Members : []<>(m \notin closing)

=============================================================================
