------------------------------- MODULE Users -------------------------------
(***************************************************************************)
(* The users of one tenant and the four commands that change them          *)
(* (modules/user/commands), with the event store (user-event-store.        *)
(* service.ts) and the idempotency keys of create.                         *)
(*                                                                         *)
(* A command runs in a MongoDB transaction with snapshot isolation: what   *)
(* it reads is the store as it was at its first read plus its own writes;  *)
(* writing a document, or an entry of a unique index, that another         *)
(* transaction wrote since then, committed or not, is a write conflict,    *)
(* on which the driver runs the whole callback again or, after a while,    *)
(* gives up.  Any call may fail and any request may die between two.       *)
(*                                                                         *)
(* The outbox row and the event row of a command are written one after the *)
(* other in its transaction; one entry of log stands for both.             *)
(* Abstracted: names, ages, passwords (validated before anything else) and *)
(* the token version (see Sessions); the cache and realtime calls after    *)
(* the commit (see Profile); the 24 hours a claim and a response live.     *)
(***************************************************************************)
EXTENDS FiniteSets, FiniteSetsExt, Integers, Sequences

CONSTANTS Ids, Emails, Keys, Requests,
    Founders,           \* the admins the tenant starts with
    EmailOf,            \* their e-mail addresses
    KeyEmail,           \* what a client asks for under an idempotency key
    Lower,              \* an e-mail as user.schema stores and queries it
    MaxEvents           \* bounds the commands that commit

ASSUME LowerAssumption ==
    Lower \in [Emails -> Emails] /\ \A e \in Emails : Lower[Lower[e]] = Lower[e]

ASSUME FoundersAssumption ==
    /\ Founders \subseteq Ids /\ Founders # {}
    /\ EmailOf \in [Ids -> Emails]
    /\ \A i, j \in Founders : Lower[EmailOf[i]] = Lower[EmailOf[j]] => i = j
    /\ KeyEmail \in [Keys -> Emails]

NoKey == "no key"
NoOne == "no one"
ASSUME NamesAssumption == NoKey \notin Keys /\ NoOne \notin Ids \cup Requests

Docs == [live : BOOLEAN, email : Emails, admin : BOOLEAN, active : BOOLEAN]

VARIABLES
    users,      \* per id its document; live means that deletedAt is null
    log,        \* per id its events, oldest first, here and in the outbox
    claims,     \* CREATE_REQUEST_DEDUP: per key the request that claimed it
    stored,     \* CREATE_RESPONSE_KEY: per key the user in the response
    pc,         \* per request: the call it makes next
    cmd,        \* per request: what it was asked to do
    claimed,    \* per request: has it claimed its key?
    view,       \* per transaction: the users as it sees them
    dirty,      \* per transaction: the users it has written
    stale,      \* per transaction: the users others committed since it began
    event       \* per transaction: the events it has appended

store == <<users, log>>
dedup == <<claims, stored>>
transactions == <<view, dirty, stale, event>>
vars == <<store, dedup, pc, cmd, claimed, transactions>>

Patches ==
    [live : {TRUE}, email : Emails] \cup [live : {FALSE}]
        \cup [email : Emails] \cup [active : BOOLEAN] \cup [admin : BOOLEAN]
Events == [version : Nat, patch : Patches]

(* What a request may ask.  A create has no id before its document has.    *)
Creates(key, e) ==
    [op |-> "create", id |-> NoOne, key |-> key, patch |-> [live |-> TRUE, email |-> e]]
Changes(op, i, patch) == [op |-> op, id |-> i, key |-> NoKey, patch |-> patch]
Rest == Changes("none", NoOne, [live |-> FALSE])
Commands ==
    {Creates(NoKey, e) : e \in Emails} \cup {Creates(k, KeyEmail[k]) : k \in Keys}
        \cup {Changes("update", i, [email |-> e]) : i \in Ids, e \in Emails}
        \cup {Changes("update", i, [active |-> b]) : i \in Ids, b \in BOOLEAN}
        \cup {Changes("updateRoles", i, [admin |-> b]) : i \in Ids, b \in BOOLEAN}
        \cup {Changes("delete", i, [live |-> FALSE]) : i \in Ids}

(* A document after a patch; a new one is a member, active (user.schema).  *)
(* The schema lower-cases the e-mail; the event keeps it as it was typed.  *)
Patched(doc, patch) ==
    [live |-> IF "live" \in DOMAIN patch THEN patch.live ELSE doc.live,
     email |-> IF "email" \in DOMAIN patch THEN Lower[patch.email] ELSE doc.email,
     admin |-> IF "admin" \in DOMAIN patch THEN patch.admin ELSE doc.admin,
     active |-> IF "active" \in DOMAIN patch THEN patch.active ELSE doc.active]
Absent == [i \in Ids |->
    [live |-> FALSE, email |-> Lower[EmailOf[i]], admin |-> FALSE, active |-> TRUE]]

IsActiveAdmin(doc) == doc.live /\ doc.admin /\ doc.active
ActiveAdmins(docs) == {i \in Ids : IsActiveAdmin(docs[i])}
EventCount == MapThenSumSet(LAMBDA i : Len(log[i]), Ids)
Created == {i \in Ids : log[i] # << >>}

Init ==
    /\ users = [i \in Ids |-> IF i \notin Founders THEN Absent[i] ELSE
                  [live |-> TRUE, email |-> Lower[EmailOf[i]],
                   admin |-> TRUE, active |-> TRUE]]
    /\ log = [i \in Ids |-> IF i \notin Founders THEN << >> ELSE
                <<[version |-> 1, patch |-> [live |-> TRUE, email |-> EmailOf[i]]]>>]
    /\ claims = [k \in Keys |-> NoOne] /\ stored = [k \in Keys |-> NoOne]
    /\ pc = [r \in Requests |-> "idle"]
    /\ cmd = [r \in Requests |-> Rest]
    /\ claimed = [r \in Requests |-> FALSE]
    /\ view = [r \in Requests |-> Absent]
    /\ dirty = [r \in Requests |-> {}] /\ stale = [r \in Requests |-> {}]
    /\ event = [r \in Requests |-> << >>]

-----------------------------------------------------------------------------
(* How a call of a request ends                                            *)

Goto(r, call) == pc' = [pc EXCEPT ![r] = call]

(* The transaction is over: what it wrote is dropped.                      *)
Discard(r) ==
    /\ view' = [view EXCEPT ![r] = Absent]
    /\ dirty' = [dirty EXCEPT ![r] = {}]
    /\ stale' = [stale EXCEPT ![r] = {}]
    /\ event' = [event EXCEPT ![r] = << >>]

(* The request is answered, or its process is gone.                        *)
Leave(r) ==
    /\ Goto(r, "idle")
    /\ cmd' = [cmd EXCEPT ![r] = Rest]
    /\ claimed' = [claimed EXCEPT ![r] = FALSE]

(* It throws; a create that claimed its key goes on to release it.         *)
Throw(r) ==
    /\ Discard(r)
    /\ IF claimed[r] THEN Goto(r, "release") /\ UNCHANGED <<cmd, claimed>> ELSE Leave(r)
    /\ UNCHANGED <<store, dedup>>

(* A write conflict: the callback starts over, or the driver gives up.     *)
WriteConflict(r) ==
    \/ /\ Discard(r) /\ Goto(r, "begin")
       /\ UNCHANGED <<store, dedup, cmd, claimed>>
    \/ Throw(r)

-----------------------------------------------------------------------------
(* Before the transaction                                                  *)

Receive(r) ==
    /\ pc[r] = "idle" /\ EventCount < MaxEvents
    /\ \E c \in Commands :
          /\ cmd' = [cmd EXCEPT ![r] = c]
          /\ Goto(r, IF c.op # "create" THEN "begin"
                     ELSE IF c.key = NoKey THEN "check" ELSE "claim")
    /\ UNCHANGED <<store, dedup, claimed, transactions>>

Claim(r) ==
    /\ pc[r] = "claim"
    /\ IF claims[cmd[r].key] = NoOne
       THEN /\ claims' = [claims EXCEPT ![cmd[r].key] = r]
            /\ claimed' = [claimed EXCEPT ![r] = TRUE]
            /\ Goto(r, "check")
       ELSE /\ Goto(r, "stored")
            /\ UNCHANGED <<claims, claimed>>
    /\ UNCHANGED <<store, stored, cmd, transactions>>

(* The claim errors, and its clean-up may too: the key can stay claimed.   *)
ClaimFails(r) ==
    /\ pc[r] = "claim" /\ Leave(r)
    /\ claims' \in {claims, [claims EXCEPT ![cmd[r].key] = IF @ = NoOne THEN r ELSE @]}
    /\ UNCHANGED <<store, stored, transactions>>

(* Not the first with its key: answer with the response, if it is there.   *)
ReadStored(r) ==
    /\ pc[r] = "stored"
    /\ IF stored[cmd[r].key] # NoOne
       THEN Leave(r)
       ELSE Goto(r, "check") /\ UNCHANGED <<cmd, claimed>>
    /\ UNCHANGED <<store, dedup, transactions>>

Uses(docs, i, e) == docs[i].live /\ docs[i].email = e

(* The pre-check of createUser, whose query the schema lower-cases too;    *)
(* bcrypt runs between it and the transaction.                             *)
Check(r) ==
    /\ pc[r] = "check"
    /\ \/ /\ \E i \in Ids : Uses(users, i, Lower[cmd[r].patch.email])
          /\ Throw(r)
       \/ /\ ~\E i \in Ids : Uses(users, i, Lower[cmd[r].patch.email])
          /\ Goto(r, "begin")
          /\ UNCHANGED <<store, dedup, cmd, claimed, transactions>>

-----------------------------------------------------------------------------
(* The transaction                                                         *)

(* Does the command take an active or inactive admin's powers away?        *)
LosesAdmin(doc, patch) ==
    /\ doc.admin
    /\ \/ "active" \in DOMAIN patch /\ ~patch.active /\ doc.active
       \/ "admin" \in DOMAIN patch /\ ~patch.admin
       \/ "live" \in DOMAIN patch /\ ~patch.live

(* The snapshot is taken by the first read, the user a command is about.   *)
Begin(r) ==
    LET c == cmd[r] IN
    /\ pc[r] = "begin"
    /\ \/ /\ c.op # "create" /\ ~users[c.id].live
          /\ Throw(r)
       \/ /\ c.op # "create" => users[c.id].live
          /\ view' = [view EXCEPT ![r] = users]
          /\ Goto(r, IF c.op # "create" /\ LosesAdmin(users[c.id], c.patch)
                     THEN "guard" ELSE "write")
          /\ UNCHANGED <<store, dedup, cmd, claimed, dirty, stale, event>>

(* Documents the transaction cannot write without a conflict.              *)
Conflicting(r) == stale[r] \cup UNION {dirty[q] : q \in Requests \ {r}}

(* touchOtherAdmins: an admin whose updatedAt already is this millisecond  *)
(* is neither written nor counted, so any of them may be left out.         *)
OtherAdmins(r) == ActiveAdmins(view[r]) \ {cmd[r].id}
\* Bug: the admins matched are counted, not those written.
BugTouchedCountMatched(r, touched) == Cardinality(OtherAdmins(r))
TouchedCount(r, touched) == Cardinality(touched)

TouchOtherAdmins(r) ==
    /\ pc[r] = "guard"
    /\ \E touched \in SUBSET OtherAdmins(r) :
          \/ /\ touched \cap Conflicting(r) # {}
             /\ WriteConflict(r)
          \/ /\ touched \cap Conflicting(r) = {}
             /\ TouchedCount(r, touched) = 0
             /\ Throw(r)
          \/ /\ touched \cap Conflicting(r) = {}
             /\ TouchedCount(r, touched) > 0
             /\ dirty' = [dirty EXCEPT ![r] = touched]
             /\ Goto(r, "write")
             /\ UNCHANGED <<store, dedup, cmd, claimed, view, stale, event>>

(* The unique index on the e-mail of live users: a taken entry the         *)
(* transaction sees is a duplicate key, one it does not see a conflict.    *)
Duplicate(r, i, doc) ==
    doc.live /\ \E j \in Ids \ {i} : Uses(view[r], j, doc.email)
\* Bug: the index is not unique.
BugContendedNever(r, i, doc) == FALSE
Contended(r, i, doc) ==
    /\ doc.live
    /\ \E j \in Ids \ {i} :
          \/ Uses(users, j, doc.email)
          \/ \E q \in Requests \ {r} : j \in dirty[q] /\ Uses(view[q], j, doc.email)

\* Bug: the events are sorted oldest first.
BugLastVersionOldest(i) == IF log[i] = << >> THEN 0 ELSE log[i][1].version
(* append: the last version of the user's events, which are only written   *)
(* with the user, and one more.                                            *)
LastVersion(i) == IF log[i] = << >> THEN 0 ELSE log[i][Len(log[i])].version
Appended(i, patch) == [version |-> LastVersion(i) + 1, patch |-> patch]

(* An insert gets an id nobody has; the others write the user they read.   *)
Unused == {i \in Ids \ Created : \A q \in Requests : i \notin dirty[q]}
Targets(r) == IF cmd[r].op = "create" THEN Unused ELSE {cmd[r].id}

Write(r) ==
    /\ pc[r] = "write"
    /\ \E i \in Targets(r) :
         LET doc == Patched(view[r][i], cmd[r].patch) IN
          \/ /\ i \in Conflicting(r) \/ Contended(r, i, doc)
             /\ WriteConflict(r)
          \/ /\ Duplicate(r, i, doc)
             /\ Throw(r)
          \/ /\ i \notin Conflicting(r)
             /\ ~Contended(r, i, doc) /\ ~Duplicate(r, i, doc)
             /\ view' = [view EXCEPT ![r][i] = doc]
             /\ dirty' = [dirty EXCEPT ![r] = @ \cup {i}]
             /\ event' = [event EXCEPT ![r] = <<Appended(i, cmd[r].patch)>>]
             /\ cmd' = [cmd EXCEPT ![r].id = i]
             /\ Goto(r, "commit")
             /\ UNCHANGED <<store, dedup, claimed, stale>>

InTransaction == {"guard", "write", "commit"}

Commit(r) ==
    /\ pc[r] = "commit"
    /\ users' = [i \in Ids |-> IF i \in dirty[r] THEN view[r][i] ELSE users[i]]
    /\ log' = [log EXCEPT ![cmd[r].id] = @ \o event[r]]
    /\ view' = [view EXCEPT ![r] = Absent]
    /\ dirty' = [dirty EXCEPT ![r] = {}]
    /\ event' = [event EXCEPT ![r] = << >>]
    /\ stale' = [q \in Requests |->
          IF q # r /\ pc[q] \in InTransaction THEN stale[q] \cup dirty[r] ELSE {}]
    /\ IF cmd[r].key # NoKey THEN Goto(r, "store") /\ UNCHANGED <<cmd, claimed>> ELSE Leave(r)
    /\ UNCHANGED dedup

-----------------------------------------------------------------------------
(* After it, and failures                                                  *)

\* Bug: the response is stored before the transaction commits.
BugStoreEarly(r) ==
    /\ pc[r] \in {"store", "commit"} /\ cmd[r].key # NoKey
    /\ stored' = [stored EXCEPT ![cmd[r].key] = cmd[r].id]
    /\ IF pc[r] = "store" THEN Leave(r) ELSE UNCHANGED <<pc, cmd, claimed>>
    /\ UNCHANGED <<store, claims, transactions>>

(* The response is stored by a call nobody waits for; it may fail.         *)
Store(r) ==
    /\ pc[r] = "store" /\ Leave(r)
    /\ stored' \in {stored, [stored EXCEPT ![cmd[r].key] = cmd[r].id]}
    /\ UNCHANGED <<store, claims, transactions>>

Release(r) ==
    /\ pc[r] = "release" /\ Leave(r)
    /\ claims' \in {claims, [claims EXCEPT ![cmd[r].key] = IF @ = r THEN NoOne ELSE @]}
    /\ UNCHANGED <<store, stored, transactions>>

(* A call throws, the commit included: nothing of it is kept.              *)
CallFails(r) == pc[r] \in {"stored", "check", "begin"} \cup InTransaction /\ Throw(r)

(* The process dies: the database aborts its transaction.                  *)
Crash(r) ==
    /\ pc[r] # "idle" /\ Leave(r) /\ Discard(r)
    /\ UNCHANGED <<store, dedup>>

Create(r) == Claim(r) \/ ClaimFails(r) \/ ReadStored(r) \/ Check(r) \/ Store(r) \/ Release(r)
Transaction(r) == Begin(r) \/ TouchOtherAdmins(r) \/ Write(r) \/ Commit(r)
Next == \E r \in Requests :
    Receive(r) \/ Create(r) \/ Transaction(r) \/ CallFails(r) \/ Crash(r)

Spec == Init /\ [][Next]_vars

-----------------------------------------------------------------------------
(* Properties                                                              *)

Ops == {"none", "create", "update", "updateRoles", "delete"}
Calls == {"idle", "claim", "stored", "check", "begin", "store", "release"} \cup InTransaction

(* Every variable holds a value of its kind.                               *)
TypeOK ==
    /\ users \in [Ids -> Docs] /\ log \in [Ids -> Seq(Events)]
    /\ claims \in [Keys -> Requests \cup {NoOne}] /\ stored \in [Keys -> Ids \cup {NoOne}]
    /\ pc \in [Requests -> Calls]
    /\ cmd \in [Requests -> [op : Ops, id : Ids \cup {NoOne},
                            key : Keys \cup {NoKey}, patch : Patches]]
    /\ claimed \in [Requests -> BOOLEAN]
    /\ view \in [Requests -> [Ids -> Docs]]
    /\ dirty \in [Requests -> SUBSET Ids] /\ stale \in [Requests -> SUBSET Ids]
    /\ event \in [Requests -> Seq(Events)]

(* The tenant always has a live, active admin, whatever demotions,         *)
(* deactivations and deletions run at once (touchOtherAdmins).             *)
KeepsAnAdmin == ActiveAdmins(users) # {}

(* No two live users share an e-mail address, though createUser's check is *)
(* not atomic and an update has none.                                      *)
UniqueEmail ==
    \A i, j \in Ids : users[i].live /\ Uses(users, j, users[i].email) => i = j

(* "Replay all rows for an aggregateId in version order to rebuild current *)
(* state": the versions of a user are 1, 2, ... without gap or repeat, and *)
(* every field they set has its last value in the user's document, where   *)
(* the e-mail, which the events have as it was typed, is in lower case:    *)
(* whoever replays them has to lower-case it, as the schema does.          *)
SetIn(i, field) == {n \in DOMAIN log[i] : field \in DOMAIN log[i][n].patch}
Replayed(patch, field) == IF field = "email" THEN Lower[patch.email] ELSE patch[field]
EventsReplay ==
    \A i \in Ids :
        /\ \A n \in DOMAIN log[i] : log[i][n].version = n
        /\ \A field \in {"live", "email", "admin", "active"} :
              SetIn(i, field) # {} =>
                  Replayed(log[i][Max(SetIn(i, field))].patch, field) = users[i][field]

(* A stored response always names a user that was created.                 *)
StoredWasCreated == \A k \in Keys : stored[k] # NoOne => stored[k] \in Created

(* "The first request with a key claims it; a repeat returns the stored    *)
(* response": nobody claims, as the first, a key with a stored response.   *)
RepeatFindsResponse ==
    [][\A r \in Requests : ~claimed[r] /\ claimed'[r] => stored[cmd[r].key] = NoOne]_vars

=============================================================================
