------------------------------ MODULE Profile ------------------------------
(***************************************************************************)
(* What follows a user's record: the copies in the search index and the    *)
(* vector store and the welcome mail, kept by UserProcessor and            *)
(* UserProjectionService (user.processor.ts, user-projection.service.ts),  *)
(* and the cached profile of GetUserHandler (get-user.query.ts,            *)
(* cache.client.ts), dropped by the commands and again by the consumer.    *)
(*                                                                         *)
(* One user.  The contents of the record are numbered: 1 is created, the   *)
(* following ones are changes, and the last one may be the deletion.  The  *)
(* commit of a content queues the event with its number, and a copy holds  *)
(* the number of the content it shows; 0 stands for no copy, and a copy    *)
(* removed for a deleted user shows the deletion.                          *)
(*                                                                         *)
(* The subscription is key_shared, so one delivery is out at a time, in    *)
(* any order of the queued events: a nacked one comes back after later     *)
(* ones.  A delivery is lost when the broker takes it from its handler     *)
(* (ack timeout, rebalance, the process killed) after the handler read the *)
(* user: the writes it has not made become stray and may still land.       *)
(*                                                                         *)
(* Abstracted: once's claims (module EventConsumer), other users and other *)
(* tenants, and OnboardingService.start, whose outcome nobody awaits.      *)
(***************************************************************************)
EXTENDS Integers

CONSTANTS
    Readers,            \* API processes
    MaxContent,         \* bound on the contents of the record
    MaxRedeliveries,    \* MESSAGING_MAX_REDELIVERIES
    MaxLost,            \* bound on deliveries lost with writes outstanding
    MaxEvicted          \* bound on evictions of the completed welcome job

ASSUME BoundsAssumption ==
    /\ MaxContent \in Nat \ {0} /\ MaxRedeliveries \in Nat
    /\ MaxLost \in Nat /\ MaxEvicted \in Nat

Copies == {"search", "vector"}
Contents == 0..MaxContent

VARIABLES
    content,    \* the content the database holds
    gone,       \* is it the deletion?
    purging,    \* commands that committed and did not drop the cache yet
    queued,     \* the events the broker has to deliver
    tries,      \* per event: redeliveries so far
    acked,      \* the events that were handled
    dead,       \* the events on the dead-letter topic
    pc,         \* the call the handler is about to make
    event,      \* the event it handles, 0 when idle
    read,       \* the content it read
    todo,       \* the sinks that did not answer yet
    failed,     \* did one of them fail?
    copy,       \* per copy: the content it shows
    strays,     \* writes of lost deliveries: <<copy, content>>
    lost,       \* deliveries lost so far
    job,        \* the welcome job: "none", "kept", "evicted"
    welcomes,   \* welcome mails enqueued
    evicted,    \* evictions of the welcome job
    cached,     \* the content of the cached profile
    load,       \* per reader: the step of its flight
    loaded      \* per reader: the content its loader returned

store == <<content, gone, purging>>
broker == <<queued, tries, acked, dead>>
handler == <<pc, event, read, todo, failed>>
writes == <<copy, strays, lost>>
mail == <<job, welcomes, evicted>>
cache == <<cached, load, loaded>>
vars == <<store, broker, handler, writes, mail, cache>>

Init ==
    /\ content = 0 /\ gone = FALSE /\ purging = 0
    /\ queued = {} /\ acked = {} /\ dead = {}
    /\ tries = [e \in 1..MaxContent |-> 0]
    /\ pc = "idle" /\ event = 0 /\ read = 0 /\ todo = {} /\ failed = FALSE
    /\ copy = [s \in Copies |-> 0] /\ strays = {} /\ lost = 0
    /\ job = "none" /\ welcomes = 0 /\ evicted = 0
    /\ cached = 0
    /\ load = [r \in Readers |-> "idle"]
    /\ loaded = [r \in Readers |-> 0]

-----------------------------------------------------------------------------
(* The commands: one transaction, then the cached profile is dropped.      *)

\* The transaction of a command: a new content and its event.  The create
\* command leaves the cache alone.
Commit(last) ==
    /\ content < MaxContent /\ ~gone
    /\ last => content > 0
    /\ content' = content + 1
    /\ gone' = last
    /\ purging' = IF content = 0 THEN purging ELSE purging + 1
    /\ queued' = queued \cup {content + 1}
    /\ UNCHANGED <<tries, acked, dead, handler, writes, mail, cache>>

\* await this.cache.del(...) of a command, or its failure: the command
\* throws, or its process is gone.
Purge ==
    /\ purging > 0
    /\ purging' = purging - 1
    /\ cached' \in {0, cached}
    /\ UNCHANGED <<content, gone, load, loaded, broker, handler, writes, mail>>

-----------------------------------------------------------------------------
(* The consumer.                                                           *)

IsDeletion(e) == gone /\ e = content

\* Bug: a nacked event is never delivered again.
BugTakeOnce(e) ==
    /\ pc = "idle" /\ e \in queued /\ tries[e] = 0
    /\ queued' = queued \ {e}
    /\ event' = e
    /\ IF IsDeletion(e)
         THEN pc' = "del" /\ read' = e
         ELSE pc' = "read" /\ read' = 0
    /\ UNCHANGED <<tries, acked, dead, todo, failed, store, writes, mail, cache>>

\* The event leaves the queue; a deletion is applied without a read.
Take(e) ==
    /\ pc = "idle" /\ e \in queued
    /\ queued' = queued \ {e}
    /\ event' = e
    /\ IF IsDeletion(e)
         THEN pc' = "del" /\ read' = e
         ELSE pc' = "read" /\ read' = 0
    /\ UNCHANGED <<tries, acked, dead, todo, failed, store, writes, mail, cache>>

\* The sinks start together: the two copies, and the mail of a created user.
Start(kinds) ==
    /\ pc' = "sinks"
    /\ todo' = kinds
    /\ failed' = FALSE

\* Bug: the payload of the event is projected instead of the current user.
BugReadUserPayload ==
    /\ pc = "read"
    /\ read' = event
    /\ IF event = 1 THEN Start(Copies \cup {"welcome"})
                    ELSE pc' = "del" /\ UNCHANGED <<todo, failed>>
    /\ UNCHANGED <<event, store, broker, writes, mail, cache>>

\* users.findById: the current user is projected, whatever the event says;
\* one that is gone is purged.  onCreated leaves the cache alone.
ReadUser ==
    /\ pc = "read"
    /\ read' = content
    /\ IF event = 1 /\ ~gone THEN Start(Copies \cup {"welcome"})
                             ELSE pc' = "del" /\ UNCHANGED <<todo, failed>>
    /\ UNCHANGED <<event, store, broker, writes, mail, cache>>

\* cache.del of onUpdated and onDeleted, then the sinks.
DropCached ==
    /\ pc = "del"
    /\ cached' = 0
    /\ Start(Copies)
    /\ UNCHANGED <<event, read, load, loaded, store, broker, writes, mail>>

\* A sink answers: the copy shows what was read, or is removed.
Write(s) ==
    /\ s \in todo \cap Copies
    /\ copy' = [copy EXCEPT ![s] = read]
    /\ todo' = todo \ {s}
    /\ UNCHANGED <<pc, event, read, failed, strays, lost, store, broker, mail, cache>>

\* A sink fails, with or without its effect; the others go on.
WriteFails(s) ==
    /\ s \in todo \cap Copies
    /\ copy' \in {copy, [copy EXCEPT ![s] = read]}
    /\ todo' = todo \ {s}
    /\ failed' = TRUE
    /\ UNCHANGED <<pc, event, read, strays, lost, store, broker, mail, cache>>

\* BullMQ adds a job under an id it does not hold, and drops it otherwise.
Enqueue ==
    /\ job' = "kept"
    /\ welcomes' = IF job = "kept" THEN welcomes ELSE welcomes + 1
    /\ UNCHANGED evicted

\* The welcome mail is enqueued, or the call fails, with or without effect.
Welcome ==
    /\ "welcome" \in todo
    /\ todo' = todo \ {"welcome"}
    /\ \/ Enqueue /\ UNCHANGED failed
       \/ Enqueue /\ failed' = TRUE
       \/ failed' = TRUE /\ UNCHANGED mail
    /\ UNCHANGED <<pc, event, read, store, broker, writes, cache>>

\* Bug: the last delivery is parked and queued again.
BugRedeliverParked ==
    /\ queued' = queued \cup {event}
    /\ IF tries[event] < MaxRedeliveries
         THEN tries' = [tries EXCEPT ![event] = @ + 1] /\ UNCHANGED dead
         ELSE dead' = dead \cup {event} /\ UNCHANGED tries
    /\ UNCHANGED acked

\* A failed delivery is queued again, or parked after the last one.
Redeliver ==
    /\ IF tries[event] < MaxRedeliveries
         THEN /\ queued' = queued \cup {event}
              /\ tries' = [tries EXCEPT ![event] = @ + 1]
              /\ UNCHANGED dead
         ELSE /\ dead' = dead \cup {event}
              /\ UNCHANGED <<queued, tries>>
    /\ UNCHANGED acked

Idle ==
    /\ pc' = "idle" /\ event' = 0 /\ read' = 0
    /\ todo' = {} /\ failed' = FALSE

\* findById or cache.del fails: the handler throws.
CallFails ==
    /\ pc \in {"read", "del"}
    /\ Redeliver /\ Idle
    /\ UNCHANGED <<store, writes, mail, cache>>

\* runSinks: acked when every sink did its work, redelivered otherwise.
Settle ==
    /\ pc = "sinks" /\ todo = {}
    /\ IF failed THEN Redeliver
       ELSE acked' = acked \cup {event} /\ UNCHANGED <<queued, tries, dead>>
    /\ Idle
    /\ UNCHANGED <<store, writes, mail, cache>>

\* The delivery is lost to its handler, whose writes are still to come.
Lose ==
    /\ pc # "idle" /\ lost < MaxLost
    /\ lost' = lost + 1
    /\ strays' = strays \cup
           (IF pc = "del" THEN Copies \X {read} ELSE (todo \cap Copies) \X {read})
    /\ Redeliver /\ Idle
    /\ UNCHANGED <<copy, store, mail, cache>>

\* A stray write lands, or its process stops before.
StrayLands ==
    \E w \in strays :
        /\ strays' = strays \ {w}
        /\ copy' \in {copy, [copy EXCEPT ![w[1]] = w[2]]}
        /\ UNCHANGED <<lost, store, broker, handler, mail, cache>>

\* removeOnComplete: 100 - the welcome job goes once enough later ones of the
\* queue have completed.
EvictJob ==
    /\ job = "kept" /\ evicted < MaxEvicted
    /\ job' = "evicted"
    /\ evicted' = evicted + 1
    /\ UNCHANGED <<welcomes, store, broker, handler, writes, cache>>

-----------------------------------------------------------------------------
(* Readers: one flight of getOrLoad per process.                           *)

Flight(r, step) == load' = [load EXCEPT ![r] = step]

\* The cached profile is returned without a load.  A miss, or a failed read
\* of the cache, calls the loader.
Get(r) ==
    /\ load[r] = "idle" /\ content > 0
    /\ Flight(r, "load")
    /\ UNCHANGED <<cached, loaded, store, broker, handler, writes, mail>>

\* The loader reads the database; it throws for a user that is gone.
LoadUser(r) ==
    /\ load[r] = "load"
    /\ IF gone THEN Flight(r, "idle") /\ UNCHANGED loaded
       ELSE Flight(r, "set") /\ loaded' = [loaded EXCEPT ![r] = content]
    /\ UNCHANGED <<cached, store, broker, handler, writes, mail>>

\* What was loaded is cached, or setting it fails.
Fill(r) ==
    /\ load[r] = "set"
    /\ cached' \in {cached, loaded[r]}
    /\ Flight(r, "idle")
    /\ loaded' = [loaded EXCEPT ![r] = 0]
    /\ UNCHANGED <<store, broker, handler, writes, mail>>

\* USER_PROFILE_CACHE_TTL_SECONDS is over.
Expire ==
    /\ cached > 0
    /\ cached' = 0
    /\ UNCHANGED <<load, loaded, store, broker, handler, writes, mail>>

-----------------------------------------------------------------------------

Handle ==
    \/ ReadUser \/ DropCached \/ CallFails \/ Settle
    \/ Welcome
    \/ \E s \in Copies : Write(s) \/ WriteFails(s)

Next ==
    \/ \E last \in BOOLEAN : Commit(last)
    \/ Purge
    \/ \E e \in queued : Take(e)
    \/ Handle \/ Lose \/ StrayLands \/ EvictJob
    \/ \E r \in Readers : Get(r) \/ LoadUser(r) \/ Fill(r)
    \/ Expire

\* Queued events are delivered, a handler and a load go on, commands finish
\* and the cache expires.  Nothing has to be written, read, lost or evicted.
Fairness ==
    /\ WF_vars(Purge)
    /\ \A e \in 1..MaxContent : WF_vars(Take(e))
    /\ WF_vars(Handle)
    /\ WF_vars(StrayLands)
    /\ \A r \in Readers : WF_vars(LoadUser(r) \/ Fill(r))
    /\ WF_vars(Expire)

Spec == Init /\ [][Next]_vars /\ Fairness

-----------------------------------------------------------------------------
(* The properties.                                                         *)

\* Every variable holds a value the code can give it, and every committed
\* content's event is in exactly one place.
TypeOK ==
    /\ content \in Contents /\ gone \in BOOLEAN /\ purging \in Contents
    /\ tries \in [1..MaxContent -> 0..MaxRedeliveries]
    /\ pc \in {"idle", "read", "del", "sinks"}
    /\ event \in Contents /\ read \in 0..content
    /\ pc = "idle" <=> event = 0
    /\ \A e \in 1..MaxContent :
           (IF e \in queued THEN 1 ELSE 0) + (IF e \in acked THEN 1 ELSE 0)
             + (IF e \in dead THEN 1 ELSE 0) + (IF e = event THEN 1 ELSE 0)
             = (IF e <= content THEN 1 ELSE 0)
    /\ queued \cup acked \cup dead \subseteq 1..content
    /\ todo \subseteq Copies \cup {"welcome"} /\ failed \in BOOLEAN
    /\ copy \in [Copies -> 0..content]
    /\ strays \subseteq Copies \X (0..content) /\ lost \in 0..MaxLost
    /\ job \in {"none", "kept", "evicted"}
    /\ welcomes \in Nat /\ evicted \in 0..MaxEvicted
    /\ cached \in 0..content
    /\ load \in [Readers -> {"idle", "load", "set"}]
    /\ loaded \in [Readers -> 0..content]

\* "An old identity.user.updated arriving after identity.user.deleted cannot
\* bring it back": no event replaces a copy by older content, unless it was
\* the write of a handler that had lost its delivery.
NeverBack ==
    [][\A s \in Copies : copy'[s] < copy[s] => strays' # strays]_vars

\* "The broker redelivers instead of acking an event with a sink missing": an
\* acked event shows in both copies, as it was or as a later change left the
\* user, until a lost delivery's write overtakes it.  And "its id is
\* deterministic, so a redelivery cannot enqueue a second email": while BullMQ
\* keeps the job, every mail but one is preceded by its eviction.
AckedShows ==
    /\ \A e \in acked : lost > 0 \/ \A s \in Copies : copy[s] >= e
    /\ welcomes <= 1 + evicted

\* When writes end, both copies show the record as it is, whatever failed on
\* the way; its last event may be parked instead, or a lost delivery's write
\* may have come last.  And the cached profile becomes the current one, or
\* none, even if every delete was missed or a slow load cached what it read
\* before them.
Converge ==
    /\ <>[](\/ \A s \in Copies : copy[s] = content
            \/ content \in dead
            \/ lost > 0)
    /\ <>[](cached = 0 \/ (cached = content /\ ~gone))

=============================================================================
