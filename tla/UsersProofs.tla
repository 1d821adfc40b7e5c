---------------------------- MODULE UsersProofs ----------------------------
(***************************************************************************)
(* Proofs about Users and the parts Accounts puts beside it, for any users,*)
(* requests, callbacks, callers and bounds.  The users' invariant says what*)
(* isolation gives a transaction (what it has written nobody else writes,  *)
(* and what it sees of it is still so), and that one about to take an admin*)
(* away holds another admin it has written.  Each other part has one too:  *)
(* the composition's is their conjunction.                                 *)
(***************************************************************************)
EXTENDS Accounts, FiniteSetTheorems, SequenceTheorems, TLAPS

USE FoundersAssumption DEF FoundersAssumption

\* A request about a user names one; a create does before it commits.
Named ==
    \A r \in Requests :
        /\ pc[r] \in {"claim", "stored", "check"} => cmd[r].op = "create"
        /\ pc[r] \in {"begin"} \cup InTransaction /\ cmd[r].op # "create" =>
               cmd[r].id \in Ids
        /\ pc[r] = "guard" => cmd[r].op # "create"

\* Isolation: transactions have written different users, none of which
\* another has committed since; what they see of the others is current.
Isolated ==
    /\ \A r, q \in Requests : r # q => dirty[r] \cap dirty[q] = {}
    /\ \A r \in Requests :
        /\ dirty[r] \cap stale[r] = {}
        /\ pc[r] \notin {"write", "commit"} => dirty[r] = {}
        /\ pc[r] = "write" => cmd[r].id \notin dirty[r]
        /\ pc[r] = "write" /\ cmd[r].op = "create" => dirty[r] = {}
        /\ pc[r] = "commit" => cmd[r].id \in dirty[r] /\ event[r] # << >>
        /\ pc[r] \in InTransaction =>
             \A i \in Ids \ stale[r] :
                 view[r][i] = users[i] \/ (pc[r] = "commit" /\ i = cmd[r].id)

\* A user without events was never inserted.
NotYetLive == \A i \in Ids : log[i] = << >> => ~users[i].live

\* A transaction that takes an active admin away has written another one.
HoldsAnAdmin(r) == \E j \in dirty[r] \ {cmd[r].id} : IsActiveAdmin(view[r][j])
Guarded ==
    \A r \in Requests :
        /\ pc[r] = "write" =>
             \/ cmd[r].op = "create"
             \/ ~LosesAdmin(view[r][cmd[r].id], cmd[r].patch)
             \/ HoldsAnAdmin(r)
        /\ pc[r] = "commit" =>
             \/ ~IsActiveAdmin(users[cmd[r].id])
             \/ IsActiveAdmin(view[r][cmd[r].id])
             \/ HoldsAnAdmin(r)

\* The address a transaction is about to give a user is free: among the
\* users, and among what the other transactions are about to write.
Clashes(docs, i, doc) ==
    \E j \in Ids \ {i} : docs[j].live /\ docs[j].email = doc.email
Reserved ==
    \A r \in Requests :
        pc[r] = "commit" /\ view[r][cmd[r].id].live =>
            /\ ~Clashes(users, cmd[r].id, view[r][cmd[r].id])
            /\ \A q \in Requests \ {r} :
                 pc[q] = "commit" /\ view[q][cmd[q].id].live =>
                     view[q][cmd[q].id].email # view[r][cmd[r].id].email

IInv ==
    /\ TypeOK /\ Named /\ Isolated /\ NotYetLive
    /\ Guarded /\ KeepsAnAdmin /\ Reserved /\ UniqueEmail

-----------------------------------------------------------------------------
\* A patched document is a document.
LEMMA PatchedType ==
    ASSUME NEW doc \in Docs, NEW patch \in Patches
    PROVE  Patched(doc, patch) \in Docs
<1>1. CASE patch \in [live : {TRUE}, email : Emails]
    BY LowerAssumption, <1>1 DEF Patched, Docs, LowerAssumption
<1>2. CASE patch \in [live : {FALSE}]
    BY <1>2 DEF Patched, Docs
<1>3. CASE patch \in [email : Emails]
    BY LowerAssumption, <1>3 DEF Patched, Docs, LowerAssumption
<1>4. CASE patch \in [active : BOOLEAN]
    BY <1>4 DEF Patched, Docs
<1>5. CASE patch \in [admin : BOOLEAN]
    BY <1>5 DEF Patched, Docs
<1> QED BY <1>1, <1>2, <1>3, <1>4, <1>5 DEF Patches

\* Only a patch that takes powers away unmakes an active admin.
LEMMA UnmakesAdmin ==
    ASSUME NEW doc \in Docs, NEW patch \in Patches,
           IsActiveAdmin(doc), ~LosesAdmin(doc, patch)
    PROVE  IsActiveAdmin(Patched(doc, patch))
<1>1. CASE patch \in [live : {TRUE}, email : Emails]
    BY <1>1 DEF Patched, Docs, IsActiveAdmin, LosesAdmin
<1>2. CASE patch \in [live : {FALSE}]
    BY <1>2 DEF Patched, Docs, IsActiveAdmin, LosesAdmin
<1>3. CASE patch \in [email : Emails]
    BY <1>3 DEF Patched, Docs, IsActiveAdmin, LosesAdmin
<1>4. CASE patch \in [active : BOOLEAN]
    BY <1>4 DEF Patched, Docs, IsActiveAdmin, LosesAdmin
<1>5. CASE patch \in [admin : BOOLEAN]
    BY <1>5 DEF Patched, Docs, IsActiveAdmin, LosesAdmin
<1> QED BY <1>1, <1>2, <1>3, <1>4, <1>5 DEF Patches

\* What a request asks is of the form the invariant says.
LEMMA CommandType ==
    ASSUME NEW c \in Commands
    PROVE  /\ c \in [op : Ops, id : Ids \cup {NoOne}, key : Keys \cup {NoKey}, patch : Patches]
           /\ c.op # "create" => c.id \in Ids
<1>1. /\ \A e \in Emails : [live |-> TRUE, email |-> e] \in Patches
      /\ \A e \in Emails : [email |-> e] \in Patches
      /\ \A b \in BOOLEAN : [active |-> b] \in Patches
      /\ \A b \in BOOLEAN : [admin |-> b] \in Patches
      /\ [live |-> FALSE] \in Patches
    BY DEF Patches
<1>2. \A key \in Keys \cup {NoKey}, e \in Emails :
        /\ Creates(key, e) \in [op : Ops, id : Ids \cup {NoOne}, key : Keys \cup {NoKey}, patch : Patches]
        /\ Creates(key, e).op = "create"
    BY <1>1 DEF Creates, Ops
<1>3. \A op \in Ops, i \in Ids, patch \in Patches :
        /\ Changes(op, i, patch) \in
               [op : Ops, id : Ids \cup {NoOne}, key : Keys \cup {NoKey}, patch : Patches]
        /\ Changes(op, i, patch).id \in Ids
    BY DEF Changes
<1>4. CASE \E key \in Keys \cup {NoKey}, e \in Emails : c = Creates(key, e)
    BY <1>2, <1>4
<1>5. CASE \E op \in Ops, i \in Ids, patch \in Patches : c = Changes(op, i, patch)
    BY <1>3, <1>5
<1>6. /\ {"update", "updateRoles", "delete"} \subseteq Ops
      /\ \A k \in Keys : KeyEmail[k] \in Emails
    BY DEF Ops
<1>7. CASE \/ c \in {Creates(NoKey, e) : e \in Emails}
           \/ c \in {Creates(k, KeyEmail[k]) : k \in Keys}
    BY <1>4, <1>6, <1>7, Zenon
<1>8. CASE c \in {Changes("update", i, [email |-> e]) : i \in Ids, e \in Emails}
  <2>1. PICK i \in Ids, e \in Emails : c = Changes("update", i, [email |-> e])
    BY <1>8, SMT DEF Changes
  <2> QED BY <2>1, <1>1, <1>5, <1>6, Zenon
<1>9. CASE c \in {Changes("update", i, [active |-> b]) : i \in Ids, b \in BOOLEAN}
  <2>1. PICK i \in Ids, b \in BOOLEAN : c = Changes("update", i, [active |-> b])
    BY <1>9, SMT DEF Changes
  <2> QED BY <2>1, <1>1, <1>5, <1>6, Zenon
<1>10. CASE c \in {Changes("updateRoles", i, [admin |-> b]) : i \in Ids, b \in BOOLEAN}
  <2>1. PICK i \in Ids, b \in BOOLEAN : c = Changes("updateRoles", i, [admin |-> b])
    BY <1>10, SMT DEF Changes
  <2> QED BY <2>1, <1>1, <1>5, <1>6, Zenon
<1>11. CASE c \in {Changes("delete", i, [live |-> FALSE]) : i \in Ids}
    BY <1>1, <1>5, <1>6, <1>11, Zenon
<1> QED BY <1>7, <1>8, <1>9, <1>10, <1>11, SMT DEF Commands, Changes, Creates

LEMMA RestType == Rest \in [op : Ops, id : Ids \cup {NoOne}, key : Keys \cup {NoKey}, patch : Patches]
BY DEF Rest, Changes, Ops, Patches

LEMMA AbsentType == Absent \in [Ids -> Docs]
BY LowerAssumption DEF LowerAssumption, Absent, Docs

-----------------------------------------------------------------------------
LEMMA InitIInv == Init => IInv
<1> SUFFICES ASSUME Init PROVE IInv
    OBVIOUS
<1>1. TypeOK
  <2>1. users \in [Ids -> Docs]
    BY AbsentType, LowerAssumption DEF LowerAssumption, Init, Docs, Absent
  <2>2. log \in [Ids -> Seq(Events)]
    <3>1. \A i \in Ids : [version |-> 1, patch |-> [live |-> TRUE, email |-> EmailOf[i]]] \in Events
      BY DEF Events, Patches
    <3> QED BY <3>1 DEF Init
  <2> QED BY <2>1, <2>2, AbsentType, RestType DEF Init, TypeOK, Calls
<1>2. Named /\ Isolated /\ Guarded /\ Reserved
    BY DEF Init, Named, Isolated, Guarded, Reserved, InTransaction
<1>3. NotYetLive
    BY DEF Init, NotYetLive, Absent
<1>4. KeepsAnAdmin
    BY DEF Init, KeepsAnAdmin, ActiveAdmins, IsActiveAdmin, Absent
<1>5. UniqueEmail
    BY DEF Init, UniqueEmail, Uses, Absent
<1> QED BY <1>1, <1>2, <1>3, <1>4, <1>5 DEF IInv

-----------------------------------------------------------------------------
\* Types, action by action.
LEMMA LeaveType ==
    ASSUME TypeOK, NEW r \in Requests, Leave(r)
    PROVE  /\ pc' \in [Requests -> Calls] /\ claimed' \in [Requests -> BOOLEAN]
           /\ cmd' \in [Requests -> [op : Ops, id : Ids \cup {NoOne},
                                     key : Keys \cup {NoKey}, patch : Patches]]
BY RestType DEF Leave, Goto, TypeOK, Calls

LEMMA DiscardType ==
    ASSUME TypeOK, NEW r \in Requests, Discard(r)
    PROVE  /\ view' \in [Requests -> [Ids -> Docs]]
           /\ dirty' \in [Requests -> SUBSET Ids] /\ stale' \in [Requests -> SUBSET Ids]
           /\ event' \in [Requests -> Seq(Events)]
BY AbsentType DEF Discard, TypeOK

LEMMA ThrowType ==
    ASSUME TypeOK, NEW r \in Requests, Throw(r)
    PROVE  TypeOK'
<1>1. CASE claimed[r]
    BY <1>1, DiscardType DEF Throw, TypeOK, Goto, Calls, store, dedup
<1>2. CASE ~claimed[r]
    BY <1>2, DiscardType, LeaveType DEF Throw, TypeOK, store, dedup
<1> QED BY <1>1, <1>2

LEMMA WriteConflictType ==
    ASSUME TypeOK, NEW r \in Requests, WriteConflict(r)
    PROVE  TypeOK'
<1>1. CASE Throw(r)
    BY <1>1, ThrowType
<1>2. CASE ~Throw(r)
    BY <1>2, DiscardType DEF WriteConflict, TypeOK, Goto, Calls, store, dedup
<1> QED BY <1>1, <1>2

\* A write keeps documents documents and events events.
LEMMA WriteType ==
    ASSUME TypeOK, Named, NEW r \in Requests, Write(r)
    PROVE  TypeOK'
<1>1. pc[r] = "write" /\ Targets(r) \subseteq Ids
    BY DEF Write, Targets, Unused, Created, Named, InTransaction
<1>2. PICK i \in Targets(r) :
        LET doc == Patched(view[r][i], cmd[r].patch) IN
          \/ WriteConflict(r)
          \/ Throw(r)
          \/ /\ view' = [view EXCEPT ![r][i] = doc]
             /\ dirty' = [dirty EXCEPT ![r] = @ \cup {i}]
             /\ event' = [event EXCEPT ![r] = <<Appended(i, cmd[r].patch)>>]
             /\ cmd' = [cmd EXCEPT ![r].id = i]
             /\ Goto(r, "commit")
             /\ UNCHANGED <<store, dedup, claimed, stale>>
    BY DEF Write
<1>3. i \in Ids /\ view[r][i] \in Docs /\ cmd[r].patch \in Patches
    BY <1>1, <1>2 DEF TypeOK
<1>4. Patched(view[r][i], cmd[r].patch) \in Docs
    BY <1>3, PatchedType
<1>5. Appended(i, cmd[r].patch) \in Events
  <2>1. CASE log[i] = << >>
    BY <1>3, <2>1 DEF Appended, LastVersion, Events
  <2>2. CASE log[i] # << >>
    <3>1. log[i] \in Seq(Events) /\ Len(log[i]) \in 1..Len(log[i])
      BY <1>3, <2>2 DEF TypeOK
    <3>2. log[i][Len(log[i])] \in Events
      BY <3>1
    <3> QED BY <1>3, <2>2, <3>2 DEF Appended, LastVersion, Events
  <2> QED BY <2>1, <2>2
<1>6. CASE WriteConflict(r) \/ Throw(r)
    BY <1>6, ThrowType, WriteConflictType
<1>7. CASE ~WriteConflict(r) /\ ~Throw(r)
  <2>1. /\ view' = [view EXCEPT ![r][i] = Patched(view[r][i], cmd[r].patch)]
        /\ dirty' = [dirty EXCEPT ![r] = @ \cup {i}]
        /\ event' = [event EXCEPT ![r] = <<Appended(i, cmd[r].patch)>>]
        /\ cmd' = [cmd EXCEPT ![r].id = i]
        /\ pc' = [pc EXCEPT ![r] = "commit"]
        /\ UNCHANGED <<users, log, claims, stored, claimed, stale>>
    BY <1>2, <1>7 DEF Goto, store, dedup
  <2>2. view' \in [Requests -> [Ids -> Docs]]
    BY <1>3, <1>4, <2>1 DEF TypeOK
  <2>3. dirty' \in [Requests -> SUBSET Ids] /\ pc' \in [Requests -> Calls]
    BY <1>3, <2>1 DEF TypeOK, Calls, InTransaction
  <2>4. event' \in [Requests -> Seq(Events)]
    <3>1. <<Appended(i, cmd[r].patch)>> \in Seq(Events)
      BY <1>5
    <3> QED BY <2>1, <3>1 DEF TypeOK
  <2>5. cmd' \in [Requests -> [op : Ops, id : Ids \cup {NoOne},
                               key : Keys \cup {NoKey}, patch : Patches]]
    <3> DEFINE Kind == [op : Ops, id : Ids \cup {NoOne}, key : Keys \cup {NoKey}, patch : Patches]
    <3>1. [cmd[r] EXCEPT !.id = i] \in Kind
      <4>1. cmd[r] \in Kind
        BY DEF TypeOK
      <4> QED BY <1>3, <4>1
    <3>2. cmd' = [cmd EXCEPT ![r] = [cmd[r] EXCEPT !.id = i]]
      BY <2>1
    <3> QED BY <3>1, <3>2, Zenon DEF TypeOK
  <2> QED BY <2>1, <2>2, <2>3, <2>4, <2>5 DEF TypeOK
<1> QED BY <1>6, <1>7

LEMMA CommitType ==
    ASSUME TypeOK, NEW r \in Requests, Commit(r)
    PROVE  TypeOK'
<1>1. users' \in [Ids -> Docs]
  <2>1. \A i \in Ids : users[i] \in Docs /\ view[r][i] \in Docs
    BY DEF TypeOK
  <2>2. users' = [i \in Ids |-> IF i \in dirty[r] THEN view[r][i] ELSE users[i]]
    BY DEF Commit
  <2> QED BY <2>1, <2>2
<1>2. log' \in [Ids -> Seq(Events)]
  <2>1. \A i \in Ids : log[i] \in Seq(Events)
    BY DEF TypeOK
  <2>2. event[r] \in Seq(Events)
    BY DEF TypeOK
  <2>3. \A i \in Ids : log[i] \o event[r] \in Seq(Events)
    BY <2>1, <2>2
  <2>4. log' = [log EXCEPT ![cmd[r].id] = @ \o event[r]]
    BY DEF Commit
  <2> QED BY <2>1, <2>3, <2>4 DEF TypeOK
<1>3. /\ view' \in [Requests -> [Ids -> Docs]] /\ event' \in [Requests -> Seq(Events)]
      /\ dirty' \in [Requests -> SUBSET Ids] /\ stale' \in [Requests -> SUBSET Ids]
  <2>1. /\ view' = [view EXCEPT ![r] = Absent] /\ event' = [event EXCEPT ![r] = << >>]
        /\ dirty' = [dirty EXCEPT ![r] = {}]
        /\ stale' = [q \in Requests |->
             IF q # r /\ pc[q] \in InTransaction THEN stale[q] \cup dirty[r] ELSE {}]
    BY DEF Commit
  <2>2. view' \in [Requests -> [Ids -> Docs]]
    BY <2>1, AbsentType DEF TypeOK
  <2>3. event' \in [Requests -> Seq(Events)]
    BY <2>1 DEF TypeOK
  <2>4. dirty' \in [Requests -> SUBSET Ids] /\ stale' \in [Requests -> SUBSET Ids]
    BY <2>1 DEF TypeOK
  <2> QED BY <2>2, <2>3, <2>4
<1>4. /\ pc' \in [Requests -> Calls] /\ claimed' \in [Requests -> BOOLEAN]
      /\ cmd' \in [Requests -> [op : Ops, id : Ids \cup {NoOne},
                                key : Keys \cup {NoKey}, patch : Patches]]
  <2>1. CASE Leave(r)
    BY <2>1, LeaveType
  <2>2. CASE Goto(r, "store") /\ UNCHANGED <<cmd, claimed>>
    BY <2>2 DEF TypeOK, Goto, Calls
  <2> QED BY <2>1, <2>2 DEF Commit
<1> QED BY <1>1, <1>2, <1>3, <1>4 DEF Commit, TypeOK, dedup

LEMMA TypeStep == TypeOK /\ Named /\ [Next]_vars => TypeOK'
<1> SUFFICES ASSUME TypeOK, Named, [Next]_vars PROVE TypeOK'
    OBVIOUS
<1>1. ASSUME NEW r \in Requests, Receive(r) PROVE TypeOK'
  <2>1. PICK c \in Commands : cmd' = [cmd EXCEPT ![r] = c]
    BY <1>1 DEF Receive
  <2>2. cmd' \in [Requests -> [op : Ops, id : Ids \cup {NoOne},
                               key : Keys \cup {NoKey}, patch : Patches]]
    BY <2>1, CommandType DEF TypeOK
  <2>3. pc' \in [Requests -> Calls]
    BY <1>1 DEF Receive, Goto, TypeOK, Calls
  <2> QED BY <1>1, <2>2, <2>3 DEF Receive, TypeOK, store, dedup, transactions
<1>2. ASSUME NEW r \in Requests, Claim(r) PROVE TypeOK'
  <2>1. pc' \in [Requests -> Calls] /\ claimed' \in [Requests -> BOOLEAN]
    BY <1>2 DEF Claim, Goto, TypeOK, Calls
  <2>2. claims' \in [Keys -> Requests \cup {NoOne}]
    <3>1. claims' = claims \/ claims' = [claims EXCEPT ![cmd[r].key] = r]
      BY <1>2 DEF Claim
    <3>2. claims \in [Keys -> Requests \cup {NoOne}]
      BY DEF TypeOK
    <3> QED BY <3>1, <3>2
  <2> QED BY <1>2, <2>1, <2>2 DEF Claim, TypeOK, store, transactions
<1>3. ASSUME NEW r \in Requests, ClaimFails(r) PROVE TypeOK'
  <2>1. claims' \in [Keys -> Requests \cup {NoOne}]
    BY <1>3 DEF ClaimFails, TypeOK
  <2> QED BY <1>3, <2>1, LeaveType DEF ClaimFails, TypeOK, store, transactions
<1>4. ASSUME NEW r \in Requests, ReadStored(r) PROVE TypeOK'
  <2>1. CASE Leave(r)
    BY <1>4, <2>1, LeaveType DEF ReadStored, TypeOK, store, dedup, transactions
  <2>2. CASE ~Leave(r)
    BY <1>4, <2>2 DEF ReadStored, TypeOK, Goto, Calls, store, dedup, transactions
  <2> QED BY <2>1, <2>2
<1>5. ASSUME NEW r \in Requests, Check(r) PROVE TypeOK'
    BY <1>5, ThrowType DEF Check, TypeOK, Goto, Calls, store, dedup, transactions
<1>6. ASSUME NEW r \in Requests, Begin(r) PROVE TypeOK'
  <2>1. CASE Throw(r)
    BY <2>1, ThrowType
  <2>2. CASE ~Throw(r)
    <3>0. /\ pc \in [Requests -> Calls] /\ view \in [Requests -> [Ids -> Docs]]
          /\ users \in [Ids -> Docs]
      BY DEF TypeOK
    <3>1. pc' \in [Requests -> Calls] /\ view' \in [Requests -> [Ids -> Docs]]
      <4>1. PICK next \in Calls :
              pc' = [pc EXCEPT ![r] = next] /\ view' = [view EXCEPT ![r] = users]
        BY <1>6, <2>2 DEF Begin, Goto, Calls, InTransaction
      <4> QED BY <3>0, <4>1
    <3> QED BY <1>6, <2>2, <3>1 DEF Begin, TypeOK, store, dedup
  <2> QED BY <2>1, <2>2
<1>7. ASSUME NEW r \in Requests, TouchOtherAdmins(r) PROVE TypeOK'
  <2>1. CASE Throw(r) \/ WriteConflict(r)
    BY <2>1, ThrowType, WriteConflictType
  <2>2. CASE ~(Throw(r) \/ WriteConflict(r))
    <3>1. PICK touched \in SUBSET OtherAdmins(r) :
            /\ dirty' = [dirty EXCEPT ![r] = touched] /\ Goto(r, "write")
            /\ UNCHANGED <<store, dedup, cmd, claimed, view, stale, event>>
      BY <1>7, <2>2 DEF TouchOtherAdmins
    <3>2. touched \subseteq Ids
      BY DEF OtherAdmins, ActiveAdmins
    <3> QED BY <3>1, <3>2 DEF TypeOK, Goto, Calls, InTransaction, store, dedup
  <2> QED BY <2>1, <2>2
<1>8. ASSUME NEW r \in Requests, Store(r) PROVE TypeOK'
    BY <1>8, LeaveType DEF Store, TypeOK, store, transactions
<1>9. ASSUME NEW r \in Requests, Release(r) PROVE TypeOK'
    BY <1>9, LeaveType DEF Release, TypeOK, store, transactions
<1>10. ASSUME NEW r \in Requests, Crash(r) PROVE TypeOK'
    BY <1>10, LeaveType, DiscardType DEF Crash, TypeOK, store, dedup
<1>11. CASE UNCHANGED vars
    BY <1>11 DEF vars, store, dedup, transactions, TypeOK
<1> QED
    BY <1>1, <1>2, <1>3, <1>4, <1>5, <1>6, <1>7, <1>8, <1>9, <1>10, <1>11,
       WriteType, CommitType, ThrowType DEF Next, Create, Transaction, CallFails

-----------------------------------------------------------------------------
\* What every step does to the requests other than the one it is of.
Others(r) ==
    \A q \in Requests \ {r} :
        /\ pc'[q] = pc[q] /\ cmd'[q] = cmd[q] /\ view'[q] = view[q]
        /\ dirty'[q] = dirty[q] /\ event'[q] = event[q]

\* A step that leaves r outside a transaction, or out of its old one, and
\* changes no user keeps the invariant.
Outside(r) ==
    /\ users' = users /\ log' = log /\ Others(r)
    /\ \A q \in Requests \ {r} : stale'[q] = stale[q]
    /\ pc'[r] \notin InTransaction /\ dirty'[r] = {}
    /\ pc'[r] \in {"claim", "stored", "check"} => cmd'[r].op = "create"
    /\ pc'[r] = "begin" /\ cmd'[r].op # "create" => cmd'[r].id \in Ids

LEMMA OutsideStep ==
    ASSUME IInv, TypeOK', NEW r \in Requests, Outside(r)
    PROVE  IInv'
<1> USE DEF IInv, Outside, Others, InTransaction
<1>1. Named'
    BY DEF Named
<1>2. Isolated'
  <2>1. \A p, q \in Requests : p # q => dirty'[p] \cap dirty'[q] = {}
    BY DEF Isolated
  <2>2. ASSUME NEW q \in Requests PROVE
          /\ dirty'[q] \cap stale'[q] = {}
          /\ pc'[q] \notin {"write", "commit"} => dirty'[q] = {}
          /\ pc'[q] = "write" => cmd'[q].id \notin dirty'[q]
          /\ pc'[q] = "write" /\ cmd'[q].op = "create" => dirty'[q] = {}
          /\ pc'[q] = "commit" => cmd'[q].id \in dirty'[q] /\ event'[q] # << >>
    BY DEF Isolated
  <2>3. ASSUME NEW q \in Requests, pc'[q] \in InTransaction, NEW i \in Ids \ stale'[q]
        PROVE  view'[q][i] = users'[i] \/ (pc'[q] = "commit" /\ i = cmd'[q].id)
    BY <2>3 DEF Isolated
  <2> QED BY <2>1, <2>2, <2>3 DEF Isolated
<1>3. NotYetLive' /\ KeepsAnAdmin' /\ UniqueEmail'
    BY DEF NotYetLive, KeepsAnAdmin, ActiveAdmins, UniqueEmail, Uses
<1>4. Guarded'
    BY DEF Guarded, HoldsAnAdmin
<1>5. Reserved'
  <2>1. ASSUME NEW q \in Requests, pc'[q] = "commit", view'[q][cmd'[q].id].live
        PROVE  /\ ~Clashes(users', cmd'[q].id, view'[q][cmd'[q].id])
               /\ pc[q] = "commit" /\ view[q][cmd[q].id].live
               /\ view'[q][cmd'[q].id].email = view[q][cmd[q].id].email
    BY <2>1 DEF Reserved, Clashes
  <2> QED BY <2>1 DEF Reserved
<1> QED BY <1>1, <1>2, <1>3, <1>4, <1>5

LEMMA LeaveOutside ==
    ASSUME IInv, NEW r \in Requests, Leave(r), users' = users, log' = log,
           Discard(r) \/ (UNCHANGED transactions /\ pc[r] \notin InTransaction)
    PROVE  Outside(r)
BY DEF IInv, TypeOK, Isolated, Leave, Goto, Discard, transactions, Outside, Others, InTransaction

LEMMA AdvanceOutside ==
    ASSUME IInv, NEW r \in Requests, NEW call, NEW c,
           UNCHANGED <<users, log, transactions>>,
           pc[r] \notin InTransaction, call \notin InTransaction,
           pc' = [pc EXCEPT ![r] = call], cmd' = [cmd EXCEPT ![r] = c],
           call \in {"claim", "stored", "check"} => c.op = "create",
           call = "begin" /\ c.op # "create" => c.id \in Ids
    PROVE  Outside(r)
<1>1. dirty[r] = {} /\ pc'[r] = call /\ cmd'[r] = c
    BY DEF IInv, TypeOK, Isolated, InTransaction
<1>2. Others(r)
    BY DEF Others, IInv, TypeOK, transactions
<1> QED BY <1>1, <1>2 DEF Outside, transactions

LEMMA ThrowOutside ==
    ASSUME IInv, NEW r \in Requests, Throw(r)
    PROVE  Outside(r)
<1>1. CASE claimed[r]
    BY <1>1 DEF IInv, TypeOK, Throw, Goto, Discard, store, Outside, Others, InTransaction
<1>2. CASE ~claimed[r]
    BY <1>2, LeaveOutside DEF Throw, store
<1> QED BY <1>1, <1>2

LEMMA WriteConflictOutside ==
    ASSUME IInv, NEW r \in Requests, pc[r] \in InTransaction, WriteConflict(r)
    PROVE  Outside(r)
<1>1. CASE Throw(r)
    BY <1>1, ThrowOutside
<1>2. CASE ~Throw(r)
    BY <1>2 DEF IInv, TypeOK, Named, WriteConflict, Goto, Discard, store, Outside, Others, InTransaction
<1> QED BY <1>1, <1>2

-----------------------------------------------------------------------------
\* A transaction that begins sees the users as they are.
LEMMA BeginStep ==
    ASSUME IInv, TypeOK', NEW r \in Requests, Begin(r)
    PROVE  IInv'
<1>1. CASE Throw(r)
    BY <1>1, ThrowOutside, OutsideStep
<1>2. CASE ~Throw(r)
  <2> DEFINE next == IF cmd[r].op # "create" /\ LosesAdmin(users[cmd[r].id], cmd[r].patch)
                     THEN "guard" ELSE "write"
  <2>1. /\ pc[r] = "begin" /\ pc' = [pc EXCEPT ![r] = next]
        /\ view' = [view EXCEPT ![r] = users]
        /\ UNCHANGED <<users, log, cmd, dirty, stale, event>>
    BY <1>2 DEF Begin, Goto, store
  <2>2. /\ Others(r) /\ pc'[r] = next /\ view'[r] = users /\ dirty[r] = {}
    <3>1. dirty[r] = {}
      BY <2>1 DEF IInv, Isolated
    <3>2. pc \in [Requests -> Calls] /\ view \in [Requests -> [Ids -> Docs]]
      BY DEF IInv, TypeOK
    <3> QED BY <2>1, <3>1, <3>2 DEF Others
  <2> HIDE DEF next
  <2>3. next \in {"guard", "write"} /\ (next = "guard" => cmd[r].op # "create")
        /\ (next = "write" => cmd[r].op = "create" \/ ~LosesAdmin(users[cmd[r].id], cmd[r].patch))
    BY DEF next
  <2> USE DEF IInv, Others, InTransaction
  <2>4. Named'
    BY <2>1, <2>2, <2>3 DEF Named
  <2>5. Isolated'
    <3>1. \A p, q \in Requests : p # q => dirty'[p] \cap dirty'[q] = {}
      BY <2>1 DEF Isolated
    <3>2. ASSUME NEW q \in Requests PROVE
            /\ dirty'[q] \cap stale'[q] = {}
            /\ pc'[q] \notin {"write", "commit"} => dirty'[q] = {}
            /\ pc'[q] = "write" => cmd'[q].id \notin dirty'[q]
            /\ pc'[q] = "write" /\ cmd'[q].op = "create" => dirty'[q] = {}
            /\ pc'[q] = "commit" => cmd'[q].id \in dirty'[q] /\ event'[q] # << >>
      BY <2>1, <2>2, <2>3 DEF Isolated
    <3>3. ASSUME NEW q \in Requests, pc'[q] \in InTransaction, NEW i \in Ids \ stale'[q]
          PROVE  view'[q][i] = users'[i] \/ (pc'[q] = "commit" /\ i = cmd'[q].id)
      BY <2>1, <2>2, <3>3 DEF Isolated
    <3> QED BY <3>1, <3>2, <3>3 DEF Isolated
  <2>6. NotYetLive' /\ KeepsAnAdmin' /\ UniqueEmail'
    BY <2>1 DEF NotYetLive, KeepsAnAdmin, ActiveAdmins, UniqueEmail, Uses
  <2>7. Guarded'
    BY <2>1, <2>2, <2>3 DEF Guarded, HoldsAnAdmin
  <2>8. Reserved'
    BY <2>1, <2>2, <2>3 DEF Reserved, Clashes
  <2> QED BY <2>4, <2>5, <2>6, <2>7, <2>8
<1> QED BY <1>1, <1>2

\* One that has written another admin sees that admin as it is.
LEMMA TouchStep ==
    ASSUME IInv, TypeOK', NEW r \in Requests, TouchOtherAdmins(r)
    PROVE  IInv'
<1>1. CASE Throw(r) \/ WriteConflict(r)
    BY <1>1, ThrowOutside, WriteConflictOutside, OutsideStep DEF TouchOtherAdmins, InTransaction
<1>2. CASE ~(Throw(r) \/ WriteConflict(r))
  <2>1. PICK touched \in SUBSET OtherAdmins(r) :
          /\ touched \cap Conflicting(r) = {} /\ Cardinality(touched) > 0
          /\ dirty' = [dirty EXCEPT ![r] = touched] /\ pc' = [pc EXCEPT ![r] = "write"]
          /\ UNCHANGED <<users, log, cmd, view, stale, event>>
    BY <1>2 DEF TouchOtherAdmins, TouchedCount, Goto, store
  <2>2. touched # {}
    <3>1. Cardinality({}) = 0
      BY FS_EmptySet
    <3>2. Cardinality(touched) # 0
      BY <2>1
    <3> QED BY <3>1, <3>2, Zenon
  <2>3. /\ pc[r] = "guard" /\ cmd[r].op # "create" /\ dirty[r] = {}
        /\ Others(r) /\ dirty'[r] = touched /\ pc'[r] = "write"
    <3>1. pc[r] = "guard"
      BY DEF TouchOtherAdmins
    <3>2. cmd[r].op # "create" /\ dirty[r] = {}
      BY <3>1 DEF IInv, Named, Isolated, InTransaction
    <3> QED BY <2>1, <3>1, <3>2 DEF Others, IInv, TypeOK
  <2>4. /\ touched \cap stale[r] = {} /\ cmd[r].id \notin touched
        /\ \A q \in Requests \ {r} : touched \cap dirty[q] = {}
    BY <2>1 DEF Conflicting, OtherAdmins
  <2>5. \A j \in touched : IsActiveAdmin(view[r][j])
    BY DEF OtherAdmins, ActiveAdmins
  <2> USE DEF IInv, Others, InTransaction
  <2>6. Named'
    BY <2>1, <2>3 DEF Named
  <2>7. Isolated'
    <3>1. \A p, q \in Requests : p # q => dirty'[p] \cap dirty'[q] = {}
      BY <2>3, <2>4 DEF Isolated
    <3>2. ASSUME NEW q \in Requests PROVE
            /\ dirty'[q] \cap stale'[q] = {}
            /\ pc'[q] \notin {"write", "commit"} => dirty'[q] = {}
            /\ pc'[q] = "write" => cmd'[q].id \notin dirty'[q]
            /\ pc'[q] = "write" /\ cmd'[q].op = "create" => dirty'[q] = {}
            /\ pc'[q] = "commit" => cmd'[q].id \in dirty'[q] /\ event'[q] # << >>
      BY <2>1, <2>3, <2>4 DEF Isolated
    <3>3. ASSUME NEW q \in Requests, pc'[q] \in InTransaction, NEW i \in Ids \ stale'[q]
          PROVE  view'[q][i] = users'[i] \/ (pc'[q] = "commit" /\ i = cmd'[q].id)
      BY <2>1, <2>3, <3>3 DEF Isolated
    <3> QED BY <3>1, <3>2, <3>3 DEF Isolated
  <2>8. NotYetLive' /\ KeepsAnAdmin' /\ UniqueEmail'
    BY <2>1 DEF NotYetLive, KeepsAnAdmin, ActiveAdmins, UniqueEmail, Uses
  <2>9. Guarded'
    <3>1. HoldsAnAdmin(r)'
      BY <2>1, <2>2, <2>3, <2>4, <2>5 DEF HoldsAnAdmin, IsActiveAdmin
    <3> QED BY <2>1, <2>3, <3>1 DEF Guarded, HoldsAnAdmin
  <2>10. Reserved'
    BY <2>1, <2>3 DEF Reserved, Clashes
  <2> QED BY <2>6, <2>7, <2>8, <2>9, <2>10
<1> QED BY <1>1, <1>2

\* One that writes its user writes what nobody else has written since, and
\* gives it an address nobody else has or is about to have.
LEMMA WriteStep ==
    ASSUME IInv, TypeOK', NEW r \in Requests, Write(r)
    PROVE  IInv'
<1>1. CASE Throw(r) \/ WriteConflict(r)
    BY <1>1, ThrowOutside, WriteConflictOutside, OutsideStep DEF Write, InTransaction
<1>2. CASE ~(Throw(r) \/ WriteConflict(r))
  <2>1. PICK i \in Targets(r) :
         LET doc == Patched(view[r][i], cmd[r].patch) IN
          /\ i \notin Conflicting(r)
          /\ ~Contended(r, i, doc) /\ ~Duplicate(r, i, doc)
          /\ view' = [view EXCEPT ![r][i] = doc]
          /\ dirty' = [dirty EXCEPT ![r] = @ \cup {i}]
          /\ event' = [event EXCEPT ![r] = <<Appended(i, cmd[r].patch)>>]
          /\ cmd' = [cmd EXCEPT ![r].id = i]
          /\ pc' = [pc EXCEPT ![r] = "commit"]
          /\ UNCHANGED <<users, log, stale>>
    BY <1>2 DEF Write, Goto, store
  <2> DEFINE doc == Patched(view[r][i], cmd[r].patch)
  <2>2. pc[r] = "write" /\ i \in Ids /\ (cmd[r].op # "create" => i = cmd[r].id)
    BY <2>1 DEF Write, Targets, Unused, Created, IInv, Named, InTransaction
  <2>3. /\ i \notin stale[r] /\ \A q \in Requests \ {r} : i \notin dirty[q]
        /\ i \notin dirty[r] /\ view[r][i] = users[i]
    BY <2>1, <2>2 DEF Conflicting, IInv, Isolated, InTransaction
  <2>4. /\ Others(r) /\ pc'[r] = "commit" /\ dirty'[r] = dirty[r] \cup {i}
        /\ cmd'[r].id = i /\ event'[r] # << >>
        /\ view'[r][i] = doc /\ \A j \in Ids \ {i} : view'[r][j] = view[r][j]
    BY <2>1, <2>2 DEF Others, IInv, TypeOK
  <2>5. view[r][i] \in Docs /\ cmd[r].patch \in Patches
    BY <2>2 DEF IInv, TypeOK
  <2>6. doc.live =>
          /\ ~Clashes(users, i, doc)
          /\ \A q \in Requests \ {r}, j \in Ids \ {i} :
                j \in dirty[q] /\ view[q][j].live => view[q][j].email # doc.email
    BY <2>1 DEF Contended, Clashes, Uses
  <2>7. \/ ~IsActiveAdmin(users[i]) \/ IsActiveAdmin(doc)
        \/ \E j \in dirty[r] \ {i} : IsActiveAdmin(view[r][j])
    <3>1. CASE cmd[r].op = "create"
      BY <2>1, <2>2, <3>1 DEF Targets, Unused, Created, IInv, NotYetLive, IsActiveAdmin
    <3>2. CASE cmd[r].op # "create"
      <4>1. ~LosesAdmin(view[r][i], cmd[r].patch) \/ HoldsAnAdmin(r)
        BY <2>2, <3>2 DEF IInv, Guarded
      <4> QED BY <4>1, <2>2, <2>3, <2>5, <3>2, UnmakesAdmin DEF HoldsAnAdmin
    <3> QED BY <3>1, <3>2
  <2> HIDE DEF doc
  <2> USE DEF IInv, Others, InTransaction
  <2>8. Named'
    BY <2>2, <2>4 DEF Named
  <2>9. Isolated'
    <3>1. \A p, q \in Requests : p # q => dirty'[p] \cap dirty'[q] = {}
      BY <2>3, <2>4 DEF Isolated
    <3>2. ASSUME NEW q \in Requests PROVE
            /\ dirty'[q] \cap stale'[q] = {}
            /\ pc'[q] \notin {"write", "commit"} => dirty'[q] = {}
            /\ pc'[q] = "write" => cmd'[q].id \notin dirty'[q]
            /\ pc'[q] = "write" /\ cmd'[q].op = "create" => dirty'[q] = {}
            /\ pc'[q] = "commit" => cmd'[q].id \in dirty'[q] /\ event'[q] # << >>
      BY <2>1, <2>3, <2>4 DEF Isolated
    <3>3. ASSUME NEW q \in Requests, pc'[q] \in InTransaction, NEW j \in Ids \ stale'[q]
          PROVE  view'[q][j] = users'[j] \/ (pc'[q] = "commit" /\ j = cmd'[q].id)
      <4>1. CASE q = r
        BY <2>1, <2>2, <2>4, <3>3, <4>1 DEF Isolated
      <4>2. CASE q # r
        BY <2>1, <2>4, <3>3, <4>2 DEF Isolated
      <4> QED BY <4>1, <4>2
    <3> QED BY <3>1, <3>2, <3>3 DEF Isolated
  <2>10. NotYetLive' /\ KeepsAnAdmin' /\ UniqueEmail'
    BY <2>1 DEF NotYetLive, KeepsAnAdmin, ActiveAdmins, UniqueEmail, Uses
  <2>11. Guarded'
    <3>1. ASSUME NEW q \in Requests \ {r} PROVE HoldsAnAdmin(q)' <=> HoldsAnAdmin(q)
      BY <2>4 DEF HoldsAnAdmin
    <3>2. \A j \in dirty[r] \ {i} : j \in Ids
      BY DEF TypeOK
    <3>3. (\E j \in dirty[r] \ {i} : IsActiveAdmin(view[r][j])) => HoldsAnAdmin(r)'
      BY <2>4, <3>2 DEF HoldsAnAdmin, IsActiveAdmin
    <3>4. ASSUME NEW q \in Requests \ {r}
          PROVE  /\ pc'[q] = "write" =>
                      \/ cmd'[q].op = "create"
                      \/ ~LosesAdmin(view'[q][cmd'[q].id], cmd'[q].patch)
                      \/ HoldsAnAdmin(q)'
                 /\ pc'[q] = "commit" =>
                      \/ ~IsActiveAdmin(users'[cmd'[q].id])
                      \/ IsActiveAdmin(view'[q][cmd'[q].id])
                      \/ HoldsAnAdmin(q)'
      BY <2>1, <2>4, <3>1 DEF Guarded
    <3>5. pc'[r] = "commit" /\
            (~IsActiveAdmin(users'[cmd'[r].id]) \/ IsActiveAdmin(view'[r][cmd'[r].id]) \/ HoldsAnAdmin(r)')
      BY <2>1, <2>4, <2>7, <3>3
    <3> QED BY <3>4, <3>5 DEF Guarded
  <2>12. Reserved'
    <3>1. ASSUME NEW q \in Requests \ {r}, pc[q] = "commit", view[q][cmd[q].id].live, doc.live
          PROVE  view[q][cmd[q].id].email # doc.email
      <4>1. cmd[q].id \in dirty[q] /\ cmd[q].id \in Ids \ {i}
        BY <2>3, <3>1 DEF Isolated, TypeOK
      <4> QED BY <2>6, <3>1, <4>1
    <3>2. doc.live => ~Clashes(users, i, doc)
      BY <2>6
    <3>3. \A q \in Requests \ {r} :
            pc[q] = "commit" /\ view[q][cmd[q].id].live =>
              /\ ~Clashes(users, cmd[q].id, view[q][cmd[q].id])
              /\ \A p \in Requests \ {q, r} :
                   pc[p] = "commit" /\ view[p][cmd[p].id].live =>
                     view[p][cmd[p].id].email # view[q][cmd[q].id].email
      BY DEF Reserved
    <3>4. /\ users' = users
          /\ Reserved' <=>
                \A q \in Requests :
                      pc'[q] = "commit" /\ view'[q][cmd'[q].id].live =>
                        /\ ~Clashes(users', cmd'[q].id, view'[q][cmd'[q].id])
                        /\ \A p \in Requests \ {q} :
                             pc'[p] = "commit" /\ view'[p][cmd'[p].id].live =>
                               view'[p][cmd'[p].id].email # view'[q][cmd'[q].id].email
      BY <2>1 DEF Reserved
    <3>5. /\ pc'[r] = "commit" /\ cmd'[r].id = i /\ view'[r][i] = doc
          /\ \A q \in Requests \ {r} :
               pc'[q] = pc[q] /\ cmd'[q] = cmd[q] /\ view'[q] = view[q]
          /\ users' = users
      BY <2>1, <2>4
    <3>6. ASSUME NEW q \in Requests \ {r}, pc'[q] = "commit", view'[q][cmd'[q].id].live
          PROVE  /\ ~Clashes(users', cmd'[q].id, view'[q][cmd'[q].id])
                 /\ \A p \in Requests \ {q} :
                      pc'[p] = "commit" /\ view'[p][cmd'[p].id].live =>
                        view'[p][cmd'[p].id].email # view'[q][cmd'[q].id].email
      <4>1. pc[q] = "commit" /\ view[q][cmd[q].id].live
        BY <3>5, <3>6
      <4>2. ~Clashes(users', cmd'[q].id, view'[q][cmd'[q].id])
        BY <3>3, <3>5, <4>1
      <4>3. ASSUME NEW p \in Requests \ {q}, pc'[p] = "commit",
                   view'[p][cmd'[p].id].live
            PROVE  view'[p][cmd'[p].id].email # view'[q][cmd'[q].id].email
        <5>1. CASE p = r
          BY <3>1, <3>5, <4>1, <4>3, <5>1
        <5>2. CASE p # r
          BY <3>3, <3>5, <4>1, <4>3, <5>2
        <5> QED BY <5>1, <5>2
      <4> QED BY <4>2, <4>3
    <3>7. ASSUME doc.live
          PROVE  /\ ~Clashes(users', i, doc)
                 /\ \A p \in Requests \ {r} :
                      pc'[p] = "commit" /\ view'[p][cmd'[p].id].live =>
                        view'[p][cmd'[p].id].email # doc.email
      BY <3>1, <3>2, <3>5, <3>7
    <3> QED BY <3>4, <3>5, <3>6, <3>7
  <2> QED BY <2>8, <2>9, <2>10, <2>11, <2>12
<1> QED BY <1>1, <1>2

\* A commit changes one user: the others it wrote, it wrote as they were.
LEMMA CommitStep ==
    ASSUME IInv, TypeOK', NEW r \in Requests, Commit(r)
    PROVE  IInv'
<1> DEFINE i == cmd[r].id
<1>1. /\ pc[r] = "commit"
      /\ users' = [j \in Ids |-> IF j \in dirty[r] THEN view[r][j] ELSE users[j]]
      /\ log' = [log EXCEPT ![i] = @ \o event[r]]
      /\ stale' = [q \in Requests |->
            IF q # r /\ pc[q] \in InTransaction THEN stale[q] \cup dirty[r] ELSE {}]
      /\ dirty' = [dirty EXCEPT ![r] = {}]
    BY DEF Commit
<1>2. i \in dirty[r] /\ i \in Ids /\ event[r] # << >>
    BY <1>1 DEF IInv, Isolated, TypeOK
<1>3. \A j \in Ids : users'[j] = IF j = i THEN view[r][i] ELSE users[j]
  <2>1. \A j \in dirty[r] \ {i} : view[r][j] = users[j]
    BY <1>1 DEF IInv, Isolated, TypeOK, InTransaction
  <2> QED BY <1>1, <1>2, <2>1
<1>4. Others(r) /\ dirty'[r] = {} /\ pc'[r] \in {"idle", "store"}
    BY DEF Commit, Leave, Goto, Others, IInv, TypeOK
<1>5. \A q \in Requests \ {r} : i \notin dirty[q]
    BY <1>2 DEF IInv, Isolated
<1>6. /\ \A j \in Ids \ {i} : log'[j] = log[j]
      /\ log'[i] # << >>
  <2>1. log[i] \in Seq(Events) /\ event[r] \in Seq(Events)
    BY <1>2 DEF IInv, TypeOK
  <2>2. Len(event[r]) > 0 /\ Len(log[i] \o event[r]) = Len(log[i]) + Len(event[r])
    BY <1>2, <2>1
  <2>3. log[i] \o event[r] # << >>
    BY <2>1, <2>2
  <2> QED BY <1>1, <1>2, <2>3 DEF IInv, TypeOK
<1> HIDE DEF i
<1> USE DEF IInv, Others, InTransaction
<1>7. Named'
    BY <1>4 DEF Named
<1>8. Isolated'
  <2>1. \A p, q \in Requests : p # q => dirty'[p] \cap dirty'[q] = {}
    BY <1>4 DEF Isolated
  <2>2. ASSUME NEW q \in Requests PROVE
          /\ dirty'[q] \cap stale'[q] = {}
          /\ pc'[q] \notin {"write", "commit"} => dirty'[q] = {}
          /\ pc'[q] = "write" => cmd'[q].id \notin dirty'[q]
          /\ pc'[q] = "write" /\ cmd'[q].op = "create" => dirty'[q] = {}
          /\ pc'[q] = "commit" => cmd'[q].id \in dirty'[q] /\ event'[q] # << >>
    BY <1>1, <1>4 DEF Isolated
  <2>3. ASSUME NEW q \in Requests, pc'[q] \in InTransaction, NEW j \in Ids \ stale'[q]
        PROVE  view'[q][j] = users'[j] \/ (pc'[q] = "commit" /\ j = cmd'[q].id)
    <3>1. q # r
      BY <1>4, <2>3
    <3>2. j \notin stale[q] /\ j # i
      BY <1>1, <1>2, <1>4, <2>3, <3>1
    <3> QED BY <1>3, <1>4, <2>3, <3>1, <3>2 DEF Isolated
  <2> QED BY <2>1, <2>2, <2>3 DEF Isolated
<1>9. NotYetLive'
    BY <1>3, <1>6 DEF NotYetLive
<1>10. KeepsAnAdmin'
  <2>1. PICK a \in Ids : IsActiveAdmin(users[a])
    BY DEF KeepsAnAdmin, ActiveAdmins
  <2>2. CASE a # i
    BY <1>3, <2>1, <2>2 DEF KeepsAnAdmin, ActiveAdmins, IsActiveAdmin
  <2>3. CASE a = i /\ IsActiveAdmin(view[r][i])
    BY <1>3, <2>1, <2>3 DEF KeepsAnAdmin, ActiveAdmins, IsActiveAdmin
  <2>4. CASE a = i /\ ~IsActiveAdmin(view[r][i])
    <3>1. PICK j \in dirty[r] \ {i} : IsActiveAdmin(view[r][j])
      BY <1>1, <2>1, <2>4 DEF Guarded, HoldsAnAdmin, i
    <3>2. j \in Ids /\ users'[j] = view[r][j]
      BY <1>1 DEF TypeOK
    <3> QED BY <3>1, <3>2 DEF KeepsAnAdmin, ActiveAdmins, IsActiveAdmin
  <2> QED BY <2>2, <2>3, <2>4
<1>11. ASSUME NEW q \in Requests \ {r}, pc[q] = "commit"
       PROVE  cmd[q].id \in Ids \ {i} /\ users'[cmd[q].id] = users[cmd[q].id]
    BY <1>3, <1>5, <1>11 DEF Isolated, TypeOK
<1>12. Guarded'
  <2>1. ASSUME NEW q \in Requests \ {r} PROVE HoldsAnAdmin(q)' <=> HoldsAnAdmin(q)
    BY <1>4 DEF HoldsAnAdmin
  <2> QED BY <1>4, <1>11, <2>1 DEF Guarded
<1>13. view[r][i].live => ~Clashes(users, i, view[r][i])
    BY <1>1 DEF Reserved, i
<1>14. Reserved'
  <2>1. ASSUME NEW q \in Requests \ {r}, pc[q] = "commit", view[q][cmd[q].id].live
        PROVE  ~Clashes(users, cmd[q].id, view[q][cmd[q].id])'
    <3>1. ~Clashes(users, cmd[q].id, view[q][cmd[q].id])
      BY <2>1 DEF Reserved
    <3>2. view[r][i].live => view[q][cmd[q].id].email # view[r][i].email
      BY <1>1, <2>1 DEF Reserved, i
    <3> QED BY <1>3, <1>4, <3>1, <3>2 DEF Clashes
  <2> QED BY <1>4, <2>1 DEF Reserved
<1>15. UniqueEmail'
    BY <1>2, <1>3, <1>13 DEF UniqueEmail, Uses, Clashes
<1> QED BY <1>7, <1>8, <1>9, <1>10, <1>12, <1>14, <1>15

-----------------------------------------------------------------------------
LEMMA StepIInv == IInv /\ [Next]_vars => IInv'
<1> SUFFICES ASSUME IInv, [Next]_vars PROVE IInv'
    OBVIOUS
<1>1. TypeOK'
    BY TypeStep DEF IInv
<1>2. ASSUME NEW r \in Requests, Receive(r) PROVE IInv'
  <2>1. PICK c \in Commands : cmd' = [cmd EXCEPT ![r] = c]
                /\ pc' = [pc EXCEPT ![r] = IF c.op # "create" THEN "begin"
                                           ELSE IF c.key = NoKey THEN "check" ELSE "claim"]
    BY <1>2 DEF Receive, Goto
  <2>2. c.op # "create" => c.id \in Ids
    BY CommandType
  <2>3. /\ pc[r] \notin InTransaction /\ users' = users /\ log' = log
        /\ UNCHANGED transactions
    BY <1>2 DEF Receive, store, InTransaction
  <2>4. Outside(r)
    BY <2>1, <2>2, <2>3, AdvanceOutside DEF InTransaction
  <2> QED BY <1>1, <2>4, OutsideStep
<1>3. ASSUME NEW r \in Requests, Claim(r) PROVE IInv'
  <2>1. /\ pc[r] = "claim" /\ UNCHANGED <<users, log, transactions, cmd>>
        /\ (pc' = [pc EXCEPT ![r] = "check"] \/ pc' = [pc EXCEPT ![r] = "stored"])
    BY <1>3 DEF Claim, Goto, store
  <2>2. cmd[r].op = "create" /\ cmd' = [cmd EXCEPT ![r] = cmd[r]]
    BY <2>1 DEF IInv, Named, TypeOK
  <2>3. Outside(r)
    BY <2>1, <2>2, AdvanceOutside DEF InTransaction
  <2> QED BY <1>1, <2>3, OutsideStep
<1>4. ASSUME NEW r \in Requests, ClaimFails(r) \/ Store(r) \/ Release(r) PROVE IInv'
  <2>1. Outside(r)
    BY <1>4, LeaveOutside DEF ClaimFails, Store, Release, InTransaction, store
  <2> QED BY <1>1, <2>1, OutsideStep
<1>5. ASSUME NEW r \in Requests, ReadStored(r) PROVE IInv'
  <2>1. CASE Leave(r)
    <3>1. Outside(r)
      BY <1>5, <2>1, LeaveOutside DEF ReadStored, InTransaction, store
    <3> QED BY <1>1, <3>1, OutsideStep
  <2>2. CASE ~Leave(r)
    <3>1. /\ pc[r] = "stored" /\ UNCHANGED <<users, log, transactions, cmd>>
          /\ pc' = [pc EXCEPT ![r] = "check"]
      BY <1>5, <2>2 DEF ReadStored, Goto, store
    <3>2. cmd[r].op = "create" /\ cmd' = [cmd EXCEPT ![r] = cmd[r]]
      BY <3>1 DEF IInv, Named, TypeOK
    <3>3. Outside(r)
      BY <3>1, <3>2, AdvanceOutside DEF InTransaction
    <3> QED BY <1>1, <3>3, OutsideStep
  <2> QED BY <2>1, <2>2
<1>6. ASSUME NEW r \in Requests, Check(r) PROVE IInv'
  <2>1. CASE Throw(r)
    BY <1>1, <2>1, ThrowOutside, OutsideStep
  <2>2. CASE ~Throw(r)
    <3>1. /\ pc[r] = "check" /\ UNCHANGED <<users, log, transactions, cmd>>
          /\ pc' = [pc EXCEPT ![r] = "begin"]
      BY <1>6, <2>2 DEF Check, Goto, store
    <3>2. cmd[r].op = "create" /\ cmd' = [cmd EXCEPT ![r] = cmd[r]]
      BY <3>1 DEF IInv, Named, TypeOK
    <3>3. Outside(r)
      BY <3>1, <3>2, AdvanceOutside DEF InTransaction
    <3> QED BY <1>1, <3>3, OutsideStep
  <2> QED BY <2>1, <2>2
<1>7. ASSUME NEW r \in Requests, CallFails(r) PROVE IInv'
    BY <1>1, <1>7, ThrowOutside, OutsideStep DEF CallFails
<1>8. ASSUME NEW r \in Requests, Crash(r) PROVE IInv'
    BY <1>1, <1>8, LeaveOutside, OutsideStep DEF Crash, store
<1>9. CASE UNCHANGED vars
    BY <1>9 DEF vars, store, dedup, transactions, IInv, TypeOK, Named, Isolated, NotYetLive,
                Guarded, HoldsAnAdmin, KeepsAnAdmin, ActiveAdmins, Reserved, Clashes, UniqueEmail, Uses
<1> QED
    BY <1>1, <1>2, <1>3, <1>4, <1>5, <1>6, <1>7, <1>8, <1>9,
       BeginStep, TouchStep, WriteStep, CommitStep DEF Next, Create, Transaction

LEMMA Invariance == Spec => []IInv
BY InitIInv, StepIInv, PTL DEF Spec

\* Every variable keeps its type.
THEOREM UsersTypeCorrect == Spec => []TypeOK
<1>1. IInv => TypeOK
    BY DEF IInv
<1> QED BY <1>1, Invariance, PTL

\* Whatever commands run at the same time, the tenant keeps an admin who can
\* sign in: two that each take the powers of the other's witness conflict.
THEOREM TenantKeepsAnAdmin == Spec => []KeepsAnAdmin
<1>1. IInv => KeepsAnAdmin
    BY DEF IInv
<1> QED BY <1>1, Invariance, PTL

\* No two live users of the tenant have the same e-mail address.
THEOREM EmailIsUnique == Spec => []UniqueEmail
<1>1. IInv => UniqueEmail
    BY DEF IInv
<1> QED BY <1>1, Invariance, PTL

-----------------------------------------------------------------------------
(* The events.                                                             *)

\* The document a transaction is about to commit is the user's own after the
\* patch, and the event says so, with the version after the last one.
Announced ==
    \A r \in Requests :
        /\ pc[r] = "commit" =>
             /\ event[r] = <<Appended(cmd[r].id, cmd[r].patch)>>
             /\ view[r][cmd[r].id] = Patched(users[cmd[r].id], cmd[r].patch)
        /\ pc[r] = "store" => cmd[r].id \in Created

Fields == {"live", "email", "admin", "active"}

\* Of the events that set a field, one is the last.
LastIsThere ==
    \A i \in Ids, field \in Fields :
        SetIn(i, field) # {} =>
            \E m \in SetIn(i, field) : \A n \in SetIn(i, field) : n <= m

RInv == EventsReplay /\ LastIsThere /\ Announced /\ StoredWasCreated

\* The largest element of a set is the one no element exceeds.
LEMMA MaxIs ==
    ASSUME NEW S \in SUBSET Int, NEW m \in S, \A n \in S : n <= m
    PROVE  Max(S) = m
<1>1. \A x \in S : (\A y \in S : x >= y) => x = m
  OBVIOUS
<1>2. \A y \in S : m >= y
  OBVIOUS
<1> QED
  BY <1>1, <1>2 DEF Max

LEMMA InitReplay == Init => RInv
<1> SUFFICES ASSUME Init PROVE RInv
  OBVIOUS
<1>1. ASSUME NEW i \in Ids
      PROVE  /\ \A n \in DOMAIN log[i] : log[i][n].version = n
             /\ \A field \in Fields : SetIn(i, field) # {} =>
                /\ Replayed(log[i][Max(SetIn(i, field))].patch, field) = users[i][field]
                /\ \E m \in SetIn(i, field) : \A n \in SetIn(i, field) : n <= m
  <2>1. CASE i \notin Founders
    BY <2>1 DEF Init, SetIn
  <2>2. CASE i \in Founders
    <3>1. /\ log[i] = <<[version |-> 1, patch |-> [live |-> TRUE, email |-> EmailOf[i]]]>>
          /\ users[i].live = TRUE /\ users[i].email = Lower[EmailOf[i]]
      BY <2>2 DEF Init
    <3> DEFINE first == [version |-> 1, patch |-> [live |-> TRUE, email |-> EmailOf[i]]]
    <3>2. /\ DOMAIN log[i] = {1} /\ log[i][1].version = 1
          /\ log[i][1].patch = [live |-> TRUE, email |-> EmailOf[i]]
      <4>1. log[i] = <<first>> /\ first.version = 1
            /\ first.patch = [live |-> TRUE, email |-> EmailOf[i]]
        BY <3>1
      <4> HIDE DEF first
      <4>2. DOMAIN log[i] = 1..1 /\ log[i][1] = first
        BY <4>1
      <4> QED
        BY <4>1, <4>2
    <3> HIDE DEF first
    <3>3. ASSUME NEW field \in Fields, SetIn(i, field) # {}
          PROVE  /\ Replayed(log[i][Max(SetIn(i, field))].patch, field) = users[i][field]
                 /\ \E m \in SetIn(i, field) : \A n \in SetIn(i, field) : n <= m
      <4>1. SetIn(i, field) = {1} /\ field \in {"live", "email"}
        BY <3>2, <3>3 DEF SetIn
      <4>2. Max(SetIn(i, field)) = 1
        BY <4>1, MaxIs
      <4>3. Replayed(log[i][1].patch, field) = users[i][field]
        <5>1. Lower[log[i][1].patch.email] = users[i].email
          BY <3>1, <3>2
        <5>2. [live |-> TRUE, email |-> EmailOf[i]].live = TRUE
          BY Zenon
        <5>3. log[i][1].patch.live = TRUE
          BY <3>2, <5>2, Zenon
        <5>4. log[i][1].patch.live = users[i].live
          BY <3>1, <5>3, Zenon
        <5> QED
          BY <4>1, <5>1, <5>4 DEF Replayed
      <4> QED
        BY <4>1, <4>2, <4>3
    <3> QED
      BY <3>2, <3>3
  <2> QED
    BY <2>1, <2>2
<1>2. Announced /\ StoredWasCreated
  BY DEF Init, Announced, StoredWasCreated
<1> QED
  BY <1>1, <1>2 DEF RInv, EventsReplay, LastIsThere, Fields

\* The events that set a field, when the user's are the same.
LEMMA SameSetIn ==
    ASSUME NEW i, log'[i] = log[i]
    PROVE  \A field : SetIn(i, field)' = SetIn(i, field)
BY DEF SetIn

LEMMA SameReplay ==
    ASSUME RInv, users' = users, log' = log
    PROVE  EventsReplay' /\ LastIsThere' /\ Created' = Created
<1>1. \A i, field : SetIn(i, field)' = SetIn(i, field)
  BY SameSetIn
<1>2. ASSUME NEW i \in Ids, NEW field \in Fields
      PROVE  /\ SetIn(i, field)' # {} =>
                   Replayed(log'[i][Max(SetIn(i, field)')].patch, field) = users'[i][field]
             /\ SetIn(i, field)' # {} =>
                   \E m \in SetIn(i, field)' : \A n \in SetIn(i, field)' : n <= m
  BY <1>1 DEF RInv, EventsReplay, LastIsThere, Fields
<1>3. \A i \in Ids : \A n \in DOMAIN log'[i] : log'[i][n].version = n
  BY DEF RInv, EventsReplay
<1> QED
  BY <1>2, <1>3 DEF EventsReplay, LastIsThere, Fields, Created

\* A step that leaves the users and their events alone, and no request about
\* to commit or to store, keeps the events in step.
LEMMA QuietReplay ==
    ASSUME RInv, NEW r \in Requests, users' = users, log' = log, Others(r),
           pc'[r] \notin {"commit", "store"},
           \A k \in Keys : stored'[k] \in {stored[k], NoOne} \cup Created
    PROVE  RInv'
<1>1. EventsReplay' /\ LastIsThere'
  BY SameReplay
<1>2. Announced'
  BY DEF RInv, Announced, Others, Appended, LastVersion, Created
<1>3. StoredWasCreated'
  BY DEF RInv, StoredWasCreated, Created
<1> QED
  BY <1>1, <1>2, <1>3 DEF RInv

\* What follows the last event of a user is numbered on from it.
LEMMA NextVersion ==
    ASSUME IInv, RInv, NEW i \in Ids, NEW patch
    PROVE  Appended(i, patch) = [version |-> Len(log[i]) + 1, patch |-> patch]
<1>1. log[i] \in Seq(Events)
  BY DEF IInv, TypeOK
<1>2. CASE log[i] = << >>
  BY <1>2 DEF Appended, LastVersion
<1>3. CASE log[i] # << >>
  <2>1. Len(log[i]) \in DOMAIN log[i]
    BY <1>1, <1>3
  <2>2. log[i][Len(log[i])].version = Len(log[i])
    BY <2>1 DEF RInv, EventsReplay
  <2> QED
    BY <1>3, <2>2 DEF Appended, LastVersion
<1> QED
  BY <1>2, <1>3

LEMMA WriteReplay ==
    ASSUME IInv, RInv, NEW r \in Requests, Write(r)
    PROVE  RInv'
<1>0. pc[r] = "write"
  BY DEF Write
<1>1. CASE Throw(r) \/ WriteConflict(r)
  <2>1. Outside(r) /\ pc'[r] \notin {"commit", "store"} /\ stored' = stored
    BY <1>0, <1>1, ThrowOutside, WriteConflictOutside
       DEF InTransaction, WriteConflict, Throw, Leave, Goto, IInv, TypeOK, dedup
  <2> QED
    BY <2>1, QuietReplay DEF Outside
<1>2. CASE ~(Throw(r) \/ WriteConflict(r))
  <2>1. PICK i \in Targets(r) :
          /\ i \notin Conflicting(r)
          /\ view' = [view EXCEPT ![r][i] = Patched(view[r][i], cmd[r].patch)]
          /\ event' = [event EXCEPT ![r] = <<Appended(i, cmd[r].patch)>>]
          /\ cmd' = [cmd EXCEPT ![r].id = i]
          /\ dirty' = [dirty EXCEPT ![r] = @ \cup {i}]
          /\ pc' = [pc EXCEPT ![r] = "commit"]
          /\ UNCHANGED <<users, log, stored>>
    BY <1>2 DEF Write, Goto, store, dedup
  <2>2. i \in Ids
    BY <1>0, <2>1 DEF Targets, Unused, Created, IInv, Named, InTransaction
  <2>3. view[r][i] = users[i]
    BY <1>0, <2>1, <2>2 DEF Conflicting, IInv, Isolated, InTransaction
  <2>4. /\ cmd'[r].id = i /\ cmd'[r].patch = cmd[r].patch
        /\ event'[r] = <<Appended(i, cmd[r].patch)>>
        /\ view'[r][i] = Patched(users[i], cmd[r].patch)
        /\ pc'[r] = "commit" /\ Others(r)
    BY <2>1, <2>2, <2>3 DEF IInv, TypeOK, Others
  <2>5. EventsReplay' /\ LastIsThere' /\ StoredWasCreated'
    BY <2>1, SameReplay DEF RInv, StoredWasCreated
  <2>6. Announced'
    <3>1. \A q \in Requests \ {r} :
            /\ pc'[q] = "commit" =>
                 /\ event'[q] = <<Appended(cmd'[q].id, cmd'[q].patch)>>
                 /\ view'[q][cmd'[q].id] = Patched(users[cmd'[q].id], cmd'[q].patch)
            /\ pc'[q] = "store" => cmd'[q].id \in Created
      BY <2>4 DEF RInv, Announced, Others
    <3>2. pc'[r] = "commit" =>
            /\ event'[r] = <<Appended(cmd'[r].id, cmd'[r].patch)>>
            /\ view'[r][cmd'[r].id] = Patched(users[cmd'[r].id], cmd'[r].patch)
      BY <2>4
    <3>3. \A j, patch : Appended(j, patch)' = Appended(j, patch)
      BY <2>1 DEF Appended, LastVersion
    <3>4. Created' = Created /\ users' = users /\ pc'[r] # "store"
      BY <2>1, <2>4 DEF Created
    <3> QED
      BY <3>1, <3>2, <3>3, <3>4 DEF Announced
  <2> QED
    BY <2>5, <2>6 DEF RInv
<1> QED
  BY <1>1, <1>2

\* A commit adds one event, whose fields are the user's from then on.
LEMMA CommitReplay ==
    ASSUME IInv, RInv, NEW r \in Requests, Commit(r)
    PROVE  RInv'
<1>0. pc[r] = "commit"
  BY DEF Commit
<1>i. PICK i \in Ids, patch \in Patches : i = cmd[r].id /\ patch = cmd[r].patch
  BY <1>0 DEF IInv, Isolated, TypeOK
<1>n. PICK last \in Nat : last = Len(log[i]) + 1
  BY DEF IInv, TypeOK
<1>1. i \in dirty[r] /\ log[i] \in Seq(Events) /\ users[i] \in Docs
  BY <1>0, <1>i DEF IInv, Isolated, TypeOK
<1>2. event[r] = <<[version |-> last, patch |-> patch]>>
  BY <1>0, <1>i, <1>n, <1>1, NextVersion DEF RInv, Announced
<1>3. view[r][i] = Patched(users[i], patch)
  BY <1>0, <1>i DEF RInv, Announced
<1>4. \A j \in Ids : users'[j] = IF j = i THEN Patched(users[i], patch) ELSE users[j]
  <2>1. \A j \in dirty[r] \ {i} : view[r][j] = users[j]
    BY <1>0, <1>i DEF IInv, Isolated, TypeOK, InTransaction
  <2> QED
    BY <1>1, <1>3, <2>1 DEF Commit
<1>5. log' = [log EXCEPT ![i] = log[i] \o <<[version |-> last, patch |-> patch]>>]
  BY <1>2, <1>i, <1>n DEF Commit
<1>6. /\ \A j \in Ids \ {i} : log'[j] = log[j]
      /\ log'[i] = Append(log[i], [version |-> last, patch |-> patch])
  BY <1>1, <1>5 DEF IInv, TypeOK
<1>7. /\ last \in Nat /\ DOMAIN log[i] = 1..(last - 1) /\ DOMAIN log'[i] = 1..last
      /\ \A n \in DOMAIN log[i] : log'[i][n] = log[i][n]
      /\ log'[i][last] = [version |-> last, patch |-> patch]
      /\ log'[i] # << >>
  <2>1. /\ last \in Nat /\ Len(log[i]) = last - 1 /\ Len(log[i]) \in Nat
        /\ DOMAIN log[i] = 1..(last - 1)
    BY <1>1, <1>n
  <2>2. Len(log'[i]) = last /\ DOMAIN log'[i] = 1..last /\ log'[i] # << >>
    BY <1>1, <1>6, <2>1
  <2> QED
    BY <1>1, <1>6, <2>1, <2>2
<1>8. Created \subseteq Created' /\ i \in Created'
  BY <1>1, <1>6, <1>7 DEF Created
<1>9. EventsReplay' /\ LastIsThere'
  <2>1. ASSUME NEW j \in Ids
        PROVE  /\ \A n \in DOMAIN log'[j] : log'[j][n].version = n
               /\ \A field \in Fields : SetIn(j, field)' # {} =>
                  /\ Replayed(log'[j][Max(SetIn(j, field)')].patch, field) = users'[j][field]
                  /\ \E m \in SetIn(j, field)' : \A n \in SetIn(j, field)' : n <= m
    <3>1. CASE j # i
      <4>1. log'[j] = log[j] /\ users'[j] = users[j]
        BY <1>4, <1>6, <3>1
      <4>2. \A field : SetIn(j, field)' = SetIn(j, field)
        BY <4>1, SameSetIn
      <4> QED
        BY <4>1, <4>2 DEF RInv, EventsReplay, LastIsThere, Fields
    <3>2. CASE j = i
      <4>1. \A n \in DOMAIN log'[i] : log'[i][n].version = n
        BY <1>1, <1>7 DEF RInv, EventsReplay
      <4>2. ASSUME NEW field \in Fields, SetIn(i, field)' # {}
            PROVE  /\ Replayed(log'[i][Max(SetIn(i, field)')].patch, field) = users'[i][field]
                   /\ \E m \in SetIn(i, field)' : \A n \in SetIn(i, field)' : n <= m
        <5>1. CASE field \in DOMAIN patch
          <6>1. SetIn(i, field)' \subseteq 1..last /\ last \in SetIn(i, field)'
            <7>1. log'[i][last].patch = patch /\ last \in 1..last
              BY <1>7
            <7> QED
              BY <1>7, <5>1, <7>1 DEF SetIn
          <6>2. /\ Max(SetIn(i, field)') = last
                /\ \A n \in SetIn(i, field)' : n <= last
            BY <6>1, <1>7, MaxIs
          <6>3. Replayed(log'[i][last].patch, field) = Replayed(patch, field)
            BY <1>7
          <6>4. Patched(users[i], patch)[field] = Replayed(patch, field)
            BY <5>1 DEF Patched, Fields, Replayed
          <6> QED
            BY <1>1, <1>4, <6>1, <6>2, <6>3, <6>4
        <5>2. CASE field \notin DOMAIN patch
          <6>1. SetIn(i, field)' = SetIn(i, field)
            <7>1. log'[i][last].patch = patch /\ 1..last = 1..(last - 1) \cup {last}
              BY <1>7
            <7>2. \A n : n \in SetIn(i, field)' <=> n \in SetIn(i, field)
              BY <1>7, <5>2, <7>1 DEF SetIn
            <7> QED
              BY <7>2, Zenon DEF SetIn
          <6>2. \A n \in SetIn(i, field) : log'[i][n] = log[i][n]
            BY <1>7 DEF SetIn
          <6>3. Replayed(log[i][Max(SetIn(i, field))].patch, field) = users[i][field]
            BY <1>1, <4>2, <6>1 DEF RInv, EventsReplay, Fields
          <6>4. PICK m \in SetIn(i, field) : \A n \in SetIn(i, field) : n <= m
            BY <1>1, <4>2, <6>1 DEF RInv, LastIsThere
          <6>6. Max(SetIn(i, field)) = m
            <7>1. SetIn(i, field) \in SUBSET Int
              BY <1>7 DEF SetIn
            <7> QED
              BY <6>4, <7>1, MaxIs
          <6>5. Patched(users[i], patch)[field] = users[i][field]
            BY <5>2 DEF Patched, Fields
          <6> QED
            BY <1>1, <1>4, <6>1, <6>2, <6>3, <6>4, <6>5, <6>6
        <5> QED
          BY <5>1, <5>2
      <4>3. log'[j] = log'[i] /\ users'[j] = users'[i]
            /\ \A field : SetIn(j, field)' = SetIn(i, field)'
        BY <3>2
      <4> QED
        BY <4>1, <4>2, <4>3
    <3> QED
      BY <3>1, <3>2
  <2> QED
    BY <2>1 DEF EventsReplay, LastIsThere, Fields
<1>10. StoredWasCreated'
  BY <1>8 DEF RInv, StoredWasCreated, Commit, dedup
<1>11. Others(r) /\ pc'[r] # "commit" /\ (pc'[r] = "store" => cmd'[r].id = i)
  BY <1>i DEF Commit, Leave, Goto, Others, IInv, TypeOK
<1>12. ASSUME NEW q \in Requests \ {r}, pc[q] = "commit"
       PROVE  cmd[q].id \in Ids \ {i}
  BY <1>1, <1>12 DEF IInv, Isolated, TypeOK
<1>13. Announced'
  <2>1. ASSUME NEW q \in Requests \ {r}, pc[q] = "commit"
        PROVE  /\ event'[q] = <<Appended(cmd[q].id, cmd[q].patch)'>>
               /\ view'[q][cmd'[q].id] = Patched(users'[cmd'[q].id], cmd'[q].patch)
    BY <1>4, <1>6, <1>11, <1>12, <2>1 DEF RInv, Announced, Others, Appended, LastVersion
  <2> QED
    BY <1>8, <1>11, <2>1 DEF RInv, Announced, Others
<1> QED
  BY <1>9, <1>10, <1>13 DEF RInv

LEMMA StepReplay == IInv /\ RInv /\ [Next]_vars => RInv'
<1> SUFFICES ASSUME IInv, RInv, [Next]_vars PROVE RInv'
  OBVIOUS
<1>1. ASSUME NEW r \in Requests, Throw(r) PROVE RInv'
  <2>1. Outside(r) /\ pc'[r] \notin {"commit", "store"} /\ stored' = stored
    BY <1>1, ThrowOutside DEF Throw, Leave, Goto, IInv, TypeOK, dedup
  <2> QED
    BY <2>1, QuietReplay DEF Outside
<1>2. ASSUME NEW r \in Requests, WriteConflict(r), pc[r] \in InTransaction PROVE RInv'
  <2>1. Outside(r) /\ pc'[r] \notin {"commit", "store"} /\ stored' = stored
    BY <1>2, WriteConflictOutside DEF WriteConflict, Throw, Leave, Goto, IInv, TypeOK, dedup
  <2> QED
    BY <2>1, QuietReplay DEF Outside
<1>3. ASSUME NEW r \in Requests, Receive(r) PROVE RInv'
  <2>1. /\ UNCHANGED <<users, log, stored>> /\ Others(r)
        /\ pc'[r] \notin {"commit", "store"}
    BY <1>3 DEF Receive, Goto, Others, IInv, TypeOK, store, dedup, transactions
  <2> QED
    BY <2>1, QuietReplay
<1>4. ASSUME NEW r \in Requests,
             Claim(r) \/ ClaimFails(r) \/ ReadStored(r) \/ Release(r) \/ Crash(r)
      PROVE  RInv'
  <2>1. /\ UNCHANGED <<users, log, stored>> /\ Others(r)
        /\ pc'[r] \notin {"commit", "store"}
    BY <1>4 DEF Claim, ClaimFails, ReadStored, Release, Crash, Leave, Discard, Goto, Others,
                IInv, TypeOK, store, dedup, transactions
  <2> QED
    BY <2>1, QuietReplay
<1>5. ASSUME NEW r \in Requests, ~Throw(r), Check(r) \/ Begin(r) PROVE RInv'
  <2>1. /\ UNCHANGED <<users, log, stored>> /\ Others(r)
        /\ pc'[r] \notin {"commit", "store"}
    BY <1>5 DEF Check, Begin, Goto, Others, IInv, TypeOK, store, dedup, transactions
  <2> QED
    BY <2>1, QuietReplay
<1>6. ASSUME NEW r \in Requests, ~Throw(r), ~WriteConflict(r), TouchOtherAdmins(r)
      PROVE  RInv'
  <2>1. /\ UNCHANGED <<users, log, stored>> /\ Others(r)
        /\ pc'[r] \notin {"commit", "store"}
    BY <1>6 DEF TouchOtherAdmins, Goto, Others, IInv, TypeOK, store, dedup
  <2> QED
    BY <2>1, QuietReplay
<1>7. ASSUME NEW r \in Requests, Store(r) PROVE RInv'
  <2>1. /\ UNCHANGED <<users, log>> /\ Others(r) /\ pc'[r] \notin {"commit", "store"}
    BY <1>7 DEF Store, Leave, Goto, Others, IInv, TypeOK, store, transactions
  <2>2. cmd[r].id \in Created
    BY <1>7 DEF Store, RInv, Announced
  <2>3. \A k \in Keys : stored'[k] \in {stored[k], NoOne} \cup Created
    BY <1>7, <2>2 DEF Store, IInv, TypeOK
  <2> QED
    BY <2>1, <2>3, QuietReplay
<1>8. CASE UNCHANGED vars
  BY <1>8, SameReplay
     DEF vars, store, dedup, transactions, RInv, Announced, Appended, LastVersion,
         StoredWasCreated
<1>9. ASSUME NEW r \in Requests, TouchOtherAdmins(r) \/ Write(r) PROVE pc[r] \in InTransaction
  BY <1>9 DEF TouchOtherAdmins, Write, InTransaction
<1> QED
  BY <1>1, <1>2, <1>3, <1>4, <1>5, <1>6, <1>7, <1>8, <1>9, WriteReplay, CommitReplay
     DEF Next, Create, Transaction, CallFails

LEMMA ReplayInvariance == Spec => [](IInv /\ RInv)
<1>1. Init => IInv /\ RInv
  BY InitIInv, InitReplay
<1>2. (IInv /\ RInv) /\ [Next]_vars => (IInv /\ RInv)'
  BY StepIInv, StepReplay
<1> QED
  BY <1>1, <1>2, PTL DEF Spec

\* The events of a user, replayed in version order, give the user, whatever
\* commands run, conflict, fail or stop in between.
THEOREM EventsGiveTheUsers == Spec => []EventsReplay
<1>1. RInv => EventsReplay
  BY DEF RInv
<1> QED
  BY <1>1, ReplayInvariance, PTL

HIDE FoundersAssumption DEF FoundersAssumption

-----------------------------------------------------------------------------
(* Sign-ins.                                                               *)

\* The account a callback signs in is one its own identity made, and there is
\* one when its code is made.
OwnAccounts ==
    \A c \in Callbacks :
        /\ user[c] # SignIn!Nobody => made[user[c]] = who[c]
        /\ callbackPc[c] \in {"created", "code"} => user[c] # SignIn!Nobody

\* A code is made by the callback's last step, and gone when it is compared.
CodesAreSpent ==
    /\ \A c \in Callbacks : callbackPc[c] # "done" => code[c] = "none"
    /\ \A x \in Exchanges : SignIn!Compared(x) => code[of[x]] = "gone"

\* Nobody looks up a code that was never made.
AskedWasMade ==
    \A x \in Exchanges : at[x] \in {"get", "del"} => code[of[x]] # "none"

SignInInv ==
    /\ SignIn!TypeOK /\ OwnAccounts /\ CodesAreSpent /\ AskedWasMade
    /\ SignIn!TokensOfItsOwn /\ SignIn!OneAttempt

LEMMA SignInStart == SignIn!Init => SignInInv
<1> SUFFICES ASSUME SignIn!Init PROVE SignInInv
  OBVIOUS
<1> USE PartsAssumption
    DEF PartsAssumption, SignIn!SignInAssumption, SignIn!Init, SignIn!Nobody
<1>1. \E n \in 0..MaxUsers : made \in [1..n -> Identities \cup {SignIn!Password}]
  <2>1. 0 \in 0..MaxUsers /\ made \in [1..0 -> Identities \cup {SignIn!Password}]
    OBVIOUS
  <2> QED
    BY <2>1
<1>2. /\ acct \in [Addresses -> {0} \cup DOMAIN made] /\ active \subseteq DOMAIN made
      /\ callbackPc \in [Callbacks ->
            {"idle", "find", "email", "create", "created", "code", "done"}]
      /\ who \in [Callbacks -> Identities] /\ mail \in [Callbacks -> Addresses]
      /\ user \in [Callbacks -> {0} \cup DOMAIN made]
      /\ code \in [Callbacks -> {"none", "live", "gone"}]
      /\ \A c \in Callbacks : code[c] # "none" => user[c] # 0
  OBVIOUS
<1>3. /\ at \in [Exchanges -> {"idle", "get", "del", "check", "user", "done"}]
      /\ of \in [Exchanges -> Callbacks] /\ right \subseteq Exchanges
      /\ result \in [Exchanges -> {"none", "refused", "wrong", "tokens"}]
      /\ \A x \in Exchanges : at[x] = "done" <=> result[x] # "none"
  OBVIOUS
<1>4. SignIn!TypeOK
  BY <1>1, <1>2, <1>3 DEF SignIn!TypeOK
<1> QED
  BY <1>4 DEF SignInInv, OwnAccounts, CodesAreSpent, AskedWasMade,
              SignIn!TokensOfItsOwn,
              SignIn!OneAttempt, SignIn!Compared

LEMMA SignInCardinality ==
    ASSUME NEW S PROVE SignIn!Cardinality(S) = Cardinality(S)
BY DEF SignIn!Cardinality, Cardinality

\* The create-user command makes one more account, and the others stay.
LEMMA MadeAccount ==
    ASSUME SignIn!TypeOK, NEW e \in Addresses,
           NEW by \in Identities \cup {SignIn!Password}, SignIn!Make(e, by)
    PROVE  /\ \E n \in 0..MaxUsers : made' \in [1..n -> Identities \cup {SignIn!Password}]
           /\ acct' \in [Addresses -> {SignIn!Nobody} \cup DOMAIN made']
           /\ active' \subseteq DOMAIN made'
           /\ DOMAIN made \subseteq DOMAIN made'
           /\ \A id \in DOMAIN made : made'[id] = made[id]
           /\ acct'[e] \in DOMAIN made' \ {SignIn!Nobody} /\ made'[acct'[e]] = by
<1>1. PICK n \in 0..MaxUsers : made \in [1..n -> Identities \cup {SignIn!Password}]
  BY DEF SignIn!TypeOK
<1>2. n + 1 \in 1..MaxUsers /\ n \in Nat
  BY <1>1, PartsAssumption
     DEF PartsAssumption, SignIn!SignInAssumption, SignIn!Make, SignIn!UserIds
<1>3. SignIn!Cardinality(DOMAIN made) = n
  BY <1>1, <1>2, SignInCardinality, FS_Interval
<1>4. /\ made' = [i \in 1..(n + 1) |-> IF i = n + 1 THEN by ELSE made[i]]
      /\ acct' = [acct EXCEPT ![e] = n + 1] /\ active' = active \cup {n + 1}
  BY <1>3 DEF SignIn!Make
<1>5. made' \in [1..(n + 1) -> Identities \cup {SignIn!Password}]
  BY <1>1, <1>2, <1>4
<1>6. /\ DOMAIN made = 1..n /\ DOMAIN made' = 1..(n + 1)
      /\ 1..(n + 1) = 1..n \cup {n + 1}
  BY <1>1, <1>2, <1>4
<1>7. /\ acct \in [Addresses -> {SignIn!Nobody} \cup DOMAIN made]
      /\ active \subseteq DOMAIN made
  BY DEF SignIn!TypeOK
<1>8. acct'[e] = n + 1 /\ made'[n + 1] = by
  BY <1>2, <1>4, <1>7
<1>9. \A id \in DOMAIN made : made'[id] = made[id]
  BY <1>2, <1>4, <1>6
<1> QED
  BY <1>2, <1>4, <1>5, <1>6, <1>7, <1>8, <1>9 DEF SignIn!Nobody

\* What every step does to the accounts: none is taken away or changes hands.
LEMMA AccountsStay ==
    ASSUME SignIn!TypeOK, SignIn!Next
    PROVE  /\ \E n \in 0..MaxUsers : made' \in [1..n -> Identities \cup {SignIn!Password}]
           /\ acct' \in [Addresses -> {SignIn!Nobody} \cup DOMAIN made']
           /\ active' \subseteq DOMAIN made' /\ DOMAIN made \subseteq DOMAIN made'
           /\ \A id \in DOMAIN made : made'[id] = made[id]
<1>0. /\ \E n \in 0..MaxUsers : made \in [1..n -> Identities \cup {SignIn!Password}]
      /\ acct \in [Addresses -> {SignIn!Nobody} \cup DOMAIN made]
      /\ active \subseteq DOMAIN made
      /\ who \in [Callbacks -> Identities] /\ mail \in [Callbacks -> Addresses]
  BY DEF SignIn!TypeOK
<1>1. ASSUME NEW e \in Addresses, SignIn!SignUp(e)
      PROVE  SignIn!Make(e, SignIn!Password)
  BY <1>1 DEF SignIn!SignUp
<1>2. ASSUME NEW c \in Callbacks, SignIn!Create(c)
      PROVE  SignIn!Make(mail[c], who[c]) \/ UNCHANGED SignIn!accounts
  BY <1>2 DEF SignIn!Create
<1>3. CASE UNCHANGED SignIn!accounts
  BY <1>0, <1>3 DEF SignIn!accounts
<1>4. CASE \E id \in SignIn!UserIds : SignIn!Deactivate(id)
  BY <1>0, <1>4 DEF SignIn!Deactivate
<1>5. CASE \E e \in Addresses : SignIn!Delete(e)
  BY <1>0, <1>5 DEF SignIn!Delete
<1>6. ASSUME NEW c \in Callbacks, SignIn!Callback(c), ~SignIn!Create(c)
      PROVE  UNCHANGED SignIn!accounts
  BY <1>6 DEF SignIn!Callback, SignIn!Redirected, SignIn!Find, SignIn!FindEmail,
              SignIn!ReadCreated, SignIn!MakeCode, SignIn!CodeExpires
<1>7. ASSUME NEW x \in Exchanges, SignIn!Exchange(x)
      PROVE  UNCHANGED SignIn!accounts
  BY <1>7 DEF SignIn!Exchange, SignIn!Present, SignIn!Get, SignIn!Del, SignIn!Check,
              SignIn!ReadUser
<1> QED
  BY <1>0, <1>1, <1>2, <1>3, <1>4, <1>5, <1>6, <1>7, MadeAccount DEF SignIn!Next

\* The steps of a callback.
LEMMA CallbackStep ==
    ASSUME SignInInv, SignIn!Next, NEW c \in Callbacks, SignIn!Callback(c)
    PROVE  SignInInv'
<1>0. SignIn!TypeOK /\ OwnAccounts /\ CodesAreSpent /\ AskedWasMade
      /\ SignIn!TokensOfItsOwn /\ SignIn!OneAttempt
  BY DEF SignInInv
<1>1. UNCHANGED <<who, mail, of, right, at, result>>
  BY DEF SignIn!Callback, SignIn!Redirected, SignIn!Find, SignIn!FindEmail, SignIn!Create,
         SignIn!ReadCreated, SignIn!MakeCode, SignIn!CodeExpires, SignIn!exchange,
         SignIn!callback
\* What it leaves behind for itself; the others are as they were.
<1> DEFINE Fine ==
      /\ callbackPc' \in [Callbacks ->
            {"idle", "find", "email", "create", "created", "code", "done"}]
      /\ user' \in [Callbacks -> {SignIn!Nobody} \cup DOMAIN made']
      /\ code' \in [Callbacks -> {"none", "live", "gone"}]
      /\ \A d \in Callbacks \ {c} :
            callbackPc'[d] = callbackPc[d] /\ user'[d] = user[d] /\ code'[d] = code[d]
      /\ user'[c] # SignIn!Nobody => made'[user'[c]] = who[c]
      /\ callbackPc'[c] \in {"created", "code"} => user'[c] # SignIn!Nobody
      /\ code'[c] # "none" => callbackPc'[c] = "done" /\ user'[c] # SignIn!Nobody
      /\ code[c] # "none" => user'[c] = user[c]
      /\ code[c] = "gone" => code'[c] = "gone"
      /\ code[c] # "none" => code'[c] # "none"
<1>2. SUFFICES Fine
  <2>1. SignIn!TypeOK'
    BY <1>0, <1>1, <1>2, AccountsStay DEF SignIn!TypeOK
  <2>2. OwnAccounts'
    <3>1. ASSUME NEW d \in Callbacks \ {c}
          PROVE  /\ user'[d] # SignIn!Nobody => made'[user'[d]] = who'[d]
                 /\ callbackPc'[d] \in {"created", "code"} => user'[d] # SignIn!Nobody
      <4>1. user[d] \in {SignIn!Nobody} \cup DOMAIN made
        BY <1>0 DEF SignIn!TypeOK
      <4> QED
        BY <1>0, <1>1, <1>2, <4>1, AccountsStay DEF OwnAccounts
    <3> QED
      BY <1>1, <1>2, <3>1 DEF OwnAccounts
  <2>3. \A x \in Exchanges :
          SignIn!Compared(x)' => SignIn!Compared(x) /\ code[of[x]] = "gone"
    BY <1>0, <1>1 DEF SignIn!Compared, CodesAreSpent
  <2>4. CodesAreSpent'
    BY <1>0, <1>1, <1>2, <2>3 DEF CodesAreSpent, SignIn!TypeOK
  <2>5. SignIn!OneAttempt'
    BY <1>0, <1>1, <2>3 DEF SignIn!OneAttempt
  <2>6. SignIn!TokensOfItsOwn'
    <3>1. ASSUME NEW x \in Exchanges, result[x] = "tokens"
          PROVE  made'[user'[of[x]]] = who[of[x]]
      <4>1. /\ of[x] \in Callbacks /\ code[of[x]] # "none"
            /\ user[of[x]] \in DOMAIN made \cup {SignIn!Nobody}
            /\ user[of[x]] # SignIn!Nobody
        BY <1>0, <3>1 DEF CodesAreSpent, SignIn!Compared, SignIn!TypeOK
      <4>2. made'[user[of[x]]] = made[user[of[x]]]
        BY <4>1, <1>0, AccountsStay
      <4> QED
        BY <1>0, <1>2, <3>1, <4>1, <4>2 DEF SignIn!TokensOfItsOwn
    <3> QED
      BY <1>1, <3>1 DEF SignIn!TokensOfItsOwn
  <2>7. AskedWasMade'
    BY <1>0, <1>1, <1>2 DEF AskedWasMade, SignIn!TypeOK
  <2> QED
    BY <2>1, <2>2, <2>4, <2>5, <2>6, <2>7 DEF SignInInv
<1>3. /\ callbackPc \in [Callbacks ->
            {"idle", "find", "email", "create", "created", "code", "done"}]
      /\ user \in [Callbacks -> {SignIn!Nobody} \cup DOMAIN made]
      /\ code \in [Callbacks -> {"none", "live", "gone"}]
      /\ who \in [Callbacks -> Identities] /\ mail \in [Callbacks -> Addresses]
      /\ code[c] # "none" => user[c] # SignIn!Nobody /\ callbackPc[c] = "done"
      /\ user[c] # SignIn!Nobody => made[user[c]] = who[c]
      /\ callbackPc[c] \in {"created", "code"} => user[c] # SignIn!Nobody
      /\ 0 \notin DOMAIN made
  <2>1. 0 \notin DOMAIN made
    BY <1>0 DEF SignIn!TypeOK
  <2> QED
    BY <1>0, <2>1 DEF SignIn!TypeOK, CodesAreSpent, OwnAccounts
<1> USE DEF SignIn!Go, SignIn!Nobody
<1>4. CASE SignIn!Redirected(c) \/ SignIn!FindEmail(c) \/ SignIn!ReadCreated(c)
  BY <1>3, <1>4 DEF SignIn!Redirected, SignIn!FindEmail, SignIn!ReadCreated, SignIn!accounts
<1>5. CASE SignIn!Find(c)
  <2>1. made' = made /\ code' = code /\ callbackPc[c] = "find"
    BY <1>5 DEF SignIn!Find, SignIn!accounts
  <2>2. \/ /\ callbackPc' = [callbackPc EXCEPT ![c] = "email"] /\ user' = user
        \/ /\ callbackPc' = [callbackPc EXCEPT ![c] = "done"] /\ user' = user
        \/ \E id \in DOMAIN made :
              /\ made[id] = who[c]
              /\ callbackPc' = [callbackPc EXCEPT ![c] = "code"]
              /\ user' = [user EXCEPT ![c] = id]
    BY <1>5 DEF SignIn!Find
  <2>3. CASE user' = user /\ \/ callbackPc' = [callbackPc EXCEPT ![c] = "email"]
                             \/ callbackPc' = [callbackPc EXCEPT ![c] = "done"]
    BY <1>3, <2>1, <2>3
  <2>4. ASSUME NEW id \in DOMAIN made, made[id] = who[c],
               callbackPc' = [callbackPc EXCEPT ![c] = "code"],
               user' = [user EXCEPT ![c] = id]
        PROVE  Fine
    BY <1>3, <2>1, <2>4
  <2> QED
    BY <2>2, <2>3, <2>4
<1>6. CASE SignIn!Create(c)
  <2>1. callbackPc[c] = "create" /\ code' = code
    BY <1>6 DEF SignIn!Create
  <2>2. CASE /\ SignIn!Make(mail[c], who[c]) /\ user' = [user EXCEPT ![c] = acct'[mail[c]]]
             /\ callbackPc' = [callbackPc EXCEPT ![c] = "created"]
    <3>1. /\ acct'[mail[c]] \in DOMAIN made' \ {0} /\ made'[acct'[mail[c]]] = who[c]
          /\ DOMAIN made \subseteq DOMAIN made'
      BY <1>0, <1>3, <2>2, MadeAccount
    <3> QED
      BY <1>3, <2>1, <2>2, <3>1
  <2>3. CASE /\ callbackPc' = [callbackPc EXCEPT ![c] = "done"]
             /\ UNCHANGED <<made, user>>
    BY <1>3, <2>1, <2>3
  <2> QED
    BY <1>6, <2>2, <2>3 DEF SignIn!Create, SignIn!accounts
<1>7. CASE SignIn!MakeCode(c) \/ SignIn!CodeExpires(c)
  BY <1>3, <1>7 DEF SignIn!MakeCode, SignIn!CodeExpires, SignIn!accounts, SignIn!callback
<1> QED
  BY <1>4, <1>5, <1>6, <1>7 DEF SignIn!Callback

\* The steps of an exchange.
LEMMA ExchangeStep ==
    ASSUME SignInInv, NEW x \in Exchanges, SignIn!Exchange(x)
    PROVE  SignInInv'
<1>0. SignIn!TypeOK /\ OwnAccounts /\ CodesAreSpent /\ AskedWasMade
      /\ SignIn!TokensOfItsOwn /\ SignIn!OneAttempt
  BY DEF SignInInv
<1>1. UNCHANGED <<made, acct, active, callbackPc, who, mail, user, of, right>>
  BY DEF SignIn!Exchange, SignIn!Present, SignIn!Get, SignIn!Del, SignIn!Check,
         SignIn!ReadUser, SignIn!accounts, SignIn!callback
<1>2. /\ at \in [Exchanges -> {"idle", "get", "del", "check", "user", "done"}]
      /\ of \in [Exchanges -> Callbacks] /\ right \subseteq Exchanges
      /\ result \in [Exchanges -> {"none", "refused", "wrong", "tokens"}]
      /\ code \in [Callbacks -> {"none", "live", "gone"}]
      /\ \A y \in Exchanges : at[y] = "done" <=> result[y] # "none"
      /\ \A c \in Callbacks : code[c] # "none" => user[c] # SignIn!Nobody
  BY <1>0 DEF SignIn!TypeOK
<1>3. /\ at' \in [Exchanges -> {"idle", "get", "del", "check", "user", "done"}]
      /\ result' \in [Exchanges -> {"none", "refused", "wrong", "tokens"}]
      /\ code' \in [Callbacks -> {"none", "live", "gone"}]
      /\ \A y \in Exchanges : at'[y] = "done" <=> result'[y] # "none"
      /\ \A y \in Exchanges \ {x} : at'[y] = at[y] /\ result'[y] = result[y]
      /\ \A c \in Callbacks : code'[c] = code[c] \/ (code[c] = "live" /\ code'[c] = "gone")
                              \/ (code[c] # "none" /\ code'[c] = "gone")
      /\ SignIn!Compared(x)' =>
            SignIn!Compared(x) \/ (code[of[x]] = "live" /\ code'[of[x]] = "gone")
      /\ result'[x] = "tokens" => SignIn!Compared(x)
  <2> USE DEF SignIn!Ends, SignIn!To, SignIn!Compared
  <2>1. CASE SignIn!Present(x) \/ SignIn!Get(x)
    BY <1>2, <2>1 DEF SignIn!Present, SignIn!Get
  <2>2. CASE SignIn!Del(x)
    <3>1. at[x] = "del" /\ code' = [code EXCEPT ![of[x]] = "gone"]
      BY <2>2 DEF SignIn!Del
    <3>2. code[of[x]] # "none"
      BY <1>0, <3>1 DEF AskedWasMade
    <3> QED
      BY <1>2, <2>2, <3>1, <3>2 DEF SignIn!Del
  <2>3. CASE SignIn!Check(x)
    BY <1>2, <2>3 DEF SignIn!Check
  <2>4. CASE SignIn!ReadUser(x)
    BY <1>2, <2>4 DEF SignIn!ReadUser
  <2> QED
    BY <2>1, <2>2, <2>3, <2>4 DEF SignIn!Exchange
<1>4. SignIn!TypeOK'
  BY <1>0, <1>1, <1>3 DEF SignIn!TypeOK
<1>5. OwnAccounts'
  BY <1>0, <1>1 DEF OwnAccounts
<1>6. ASSUME NEW y \in Exchanges \ {x}, SignIn!Compared(y)'
      PROVE  SignIn!Compared(y) /\ code[of[y]] = "gone"
  BY <1>0, <1>3, <1>6 DEF SignIn!Compared, CodesAreSpent
<1>7. CodesAreSpent'
  <2>1. SignIn!Compared(x)' => code'[of[x]] = "gone"
    BY <1>0, <1>2, <1>3 DEF CodesAreSpent
  <2>2. \A y \in Exchanges \ {x} : SignIn!Compared(y)' => code'[of[y]] = "gone"
    BY <1>2, <1>3, <1>6
  <2>3. \A c \in Callbacks : callbackPc[c] # "done" => code'[c] = "none"
    BY <1>0, <1>3 DEF CodesAreSpent
  <2> QED
    BY <1>1, <2>1, <2>2, <2>3 DEF CodesAreSpent
<1>8. SignIn!OneAttempt'
  <2>1. ASSUME NEW y \in Exchanges \ {x}, SignIn!Compared(x)', SignIn!Compared(y)',
               of[x] = of[y]
        PROVE  FALSE
    BY <1>0, <1>2, <1>3, <1>6, <2>1 DEF SignIn!OneAttempt
  <2>2. ASSUME NEW y \in Exchanges \ {x}, NEW z \in Exchanges \ {x},
               SignIn!Compared(z)', SignIn!Compared(y)', of[z] = of[y]
        PROVE  z = y
    BY <1>0, <1>6, <2>2 DEF SignIn!OneAttempt
  <2> QED
    BY <1>1, <2>1, <2>2 DEF SignIn!OneAttempt
<1>9. SignIn!TokensOfItsOwn'
  <2>1. ASSUME NEW y \in Exchanges, SignIn!Compared(y)
        PROVE  made[user[of[y]]] = who[of[y]]
    BY <1>0, <1>2, <2>1 DEF CodesAreSpent, OwnAccounts
  <2> QED
    BY <1>0, <1>1, <1>3, <2>1 DEF SignIn!TokensOfItsOwn
<1>10. AskedWasMade'
  <2>1. ASSUME NEW y \in Exchanges, at'[y] \in {"get", "del"} PROVE code[of[y]] # "none"
    BY <1>0, <1>2, <1>3, <2>1
       DEF AskedWasMade, SignIn!Exchange, SignIn!Present, SignIn!Get, SignIn!Del,
           SignIn!Check, SignIn!ReadUser, SignIn!Ends, SignIn!To
  <2> QED
    BY <1>1, <1>2, <1>3, <2>1 DEF AskedWasMade
<1> QED
  BY <1>4, <1>5, <1>7, <1>8, <1>9, <1>10 DEF SignInInv

LEMMA SignInStep == SignInInv /\ [SignIn!Next]_signInVars => SignInInv'
<1> SUFFICES ASSUME SignInInv, [SignIn!Next]_signInVars PROVE SignInInv'
  OBVIOUS
<1>0. SignIn!TypeOK /\ OwnAccounts /\ CodesAreSpent /\ AskedWasMade
      /\ SignIn!TokensOfItsOwn /\ SignIn!OneAttempt
  BY DEF SignInInv
\* The other users make, deactivate and delete accounts.
<1>1. ASSUME SignIn!Next, UNCHANGED <<callbackPc, who, mail, user, code, at, of, right, result>>
      PROVE  SignInInv'
  <2>1. SignIn!TypeOK'
    BY <1>0, <1>1, AccountsStay DEF SignIn!TypeOK
  <2>2. \A c \in Callbacks :
          user[c] # SignIn!Nobody => user[c] \in DOMAIN made /\ made'[user[c]] = made[user[c]]
    BY <1>0, <1>1, AccountsStay DEF SignIn!TypeOK
  <2>3. OwnAccounts' /\ CodesAreSpent' /\ AskedWasMade' /\ SignIn!OneAttempt'
    BY <1>0, <1>1, <2>2
       DEF OwnAccounts, CodesAreSpent, AskedWasMade, SignIn!OneAttempt, SignIn!Compared
  <2>4. SignIn!TokensOfItsOwn'
    <3>1. \A x \in Exchanges : result[x] = "tokens" => user[of[x]] # SignIn!Nobody
      BY <1>0 DEF CodesAreSpent, SignIn!Compared, SignIn!TypeOK
    <3>2. of \in [Exchanges -> Callbacks]
      BY <1>0 DEF SignIn!TypeOK
    <3> QED
      BY <1>0, <1>1, <2>2, <3>1, <3>2 DEF SignIn!TokensOfItsOwn
  <2> QED
    BY <2>1, <2>3, <2>4 DEF SignInInv
<1>2. CASE UNCHANGED signInVars
  BY <1>0, <1>2 DEF signInVars, SignInInv, SignIn!TypeOK, OwnAccounts, CodesAreSpent,
                    AskedWasMade, SignIn!TokensOfItsOwn, SignIn!OneAttempt, SignIn!Compared
<1>3. ASSUME \/ \E e \in Addresses : SignIn!SignUp(e) \/ SignIn!Delete(e)
             \/ \E id \in SignIn!UserIds : SignIn!Deactivate(id)
      PROVE  UNCHANGED <<callbackPc, who, mail, user, code, at, of, right, result>>
  BY <1>3 DEF SignIn!SignUp, SignIn!Delete, SignIn!Deactivate, SignIn!callback,
              SignIn!exchange
<1> QED
  BY <1>1, <1>2, <1>3, CallbackStep, ExchangeStep DEF SignIn!Next

-----------------------------------------------------------------------------
(* The page's list.                                                        *)

\* A user is made by its creation's request, and not before it is sent; a
\* creation that failed although its user was made is muddled.
MadeOnce ==
    /\ \A u \in New : creating[u] \in {"idle", "sent"} => u \notin server
    /\ \A u \in New : creating[u] = "failed" /\ u \in server => u \in muddled

\* A creation that is not muddled is alone, and the list it keeps was right.
KeepsItsList ==
    \A v \in List!Open \ muddled :
        /\ List!Open = {v} /\ deleting = {}
        /\ prev[v].loaded /\ prev[v].drafts = {} /\ prev[v].users = server \ {v}

\* Users that differ from the service's by the changes under way only.
Shown(us) ==
    /\ \A u \in server \ us : u \in New /\ creating[u] \in {"made", "failed"}
    /\ us \ server \subseteq deleting

\* So does a list that is loaded and not outdated, and the answer to a fetch.
ListIsShown ==
    ~outdated /\ list.loaded /\ fetch = "none" /\ List!Open \cap muddled = {} =>
        Shown(list.users) /\ list.drafts \subseteq List!Open
AnswerIsShown == fetch = "answered" /\ ~late => Shown(answer)

ListInv == List!TypeOK /\ MadeOnce /\ KeepsItsList /\ ListIsShown /\ AnswerIsShown

LEMMA ListStart == List!Init => ListInv
<1> SUFFICES ASSUME List!Init PROVE ListInv
  OBVIOUS
<1>1. /\ server = Old /\ fetch = "none" /\ answer = {} /\ muddled = {} /\ deleting = {}
      /\ creating = [u \in New |-> "idle"] /\ outdated = FALSE /\ late = FALSE
      /\ failures = 0 /\ list = List!Unloaded /\ prev = [u \in New |-> List!Unloaded]
      /\ Old \cap New = {} /\ MaxFaults \in Nat
  BY PartsAssumption DEF PartsAssumption, List!ListAssumption, List!Init
<1>2. List!Unloaded \in [loaded : BOOLEAN, users : SUBSET List!Users, drafts : SUBSET New]
  BY DEF List!Unloaded
<1>3. List!TypeOK
  <2>1. prev \in [New -> [loaded : BOOLEAN, users : SUBSET List!Users, drafts : SUBSET New]]
    BY <1>1, <1>2
  <2>2. creating \in [New -> {"idle", "sent", "made", "failed", "done"}]
    BY <1>1
  <2>3. server \subseteq List!Users /\ failures \in 0..MaxFaults
    BY <1>1 DEF List!Users
  <2> QED
    BY <1>1, <1>2, <2>1, <2>2, <2>3 DEF List!TypeOK
<1>4. List!Open = {} /\ ~list.loaded
  BY <1>1 DEF List!Open, List!Unloaded
<1>5. MadeOnce
  BY <1>1 DEF MadeOnce
<1> QED
  BY <1>1, <1>3, <1>4, <1>5 DEF ListInv, KeepsItsList, ListIsShown, AnswerIsShown

LEMMA ListTypeStep == List!TypeOK /\ [List!Next]_listVars => List!TypeOK'
<1> SUFFICES ASSUME List!TypeOK, [List!Next]_listVars PROVE List!TypeOK'
  OBVIOUS
<1> DEFINE Lists == [loaded : BOOLEAN, users : SUBSET List!Users, drafts : SUBSET New]
<1> USE PartsAssumption
    DEF PartsAssumption, List!ListAssumption
<1>0. /\ server \subseteq List!Users /\ answer \subseteq List!Users
      /\ fetch \in {"none", "asked", "answered"}
      /\ list \in Lists /\ prev \in [New -> Lists]
      /\ creating \in [New -> {"idle", "sent", "made", "failed", "done"}]
      /\ muddled \subseteq New /\ deleting \subseteq List!Users
      /\ outdated \in BOOLEAN /\ late \in BOOLEAN /\ failures \in 0..MaxFaults
      /\ New \subseteq List!Users
  BY DEF List!TypeOK, List!Users
<1>1. CASE List!Fetch \/ List!Read \/ List!FetchFails
  <2>1. CASE List!Fetch
    BY <1>0, <2>1 DEF List!Fetch, List!SetFetch, List!TypeOK
  <2>2. CASE List!Read
    BY <1>0, <2>2 DEF List!Read, List!TypeOK
  <2>3. CASE List!FetchFails
    <3>1. failures' \in 0..MaxFaults
      BY <1>0, <2>3 DEF List!FetchFails, List!Fault
    <3>2. /\ fetch' = "none" /\ answer' = {} /\ late' = FALSE /\ outdated' = TRUE
          /\ UNCHANGED <<server, list, creating, prev, muddled, deleting>>
      BY <2>3 DEF List!FetchFails, List!SetFetch
    <3> QED
      BY <1>0, <3>1, <3>2 DEF List!TypeOK
  <2> QED
    BY <1>1, <2>1, <2>2, <2>3
<1>8. CASE List!Land
  <2>1. list' \in Lists
    BY <1>0, <1>8 DEF List!Land
  <2> QED
    BY <1>0, <1>8, <2>1 DEF List!Land, List!SetFetch, List!TypeOK
<1>2. ASSUME NEW u \in New, List!Create(u) PROVE List!TypeOK'
  BY <1>0, <1>2 DEF List!Create, List!SetFetch, List!Open, List!TypeOK
<1>3. ASSUME NEW u \in New, List!Made(u) \/ List!CreateFails(u) \/ List!Created(u)
      PROVE  List!TypeOK'
  <2>1. CASE List!Made(u)
    BY <1>0, <2>1 DEF List!Made, List!lists, List!TypeOK
  <2>2. CASE List!CreateFails(u)
    BY <1>0, <2>2 DEF List!CreateFails, List!Fault, List!lists, List!TypeOK
  <2>3. CASE List!Created(u)
    BY <1>0, <2>3 DEF List!Created, List!SetFetch, List!TypeOK
  <2> QED
    BY <1>3, <2>1, <2>2, <2>3
<1>4. ASSUME NEW u \in New, List!RollBack(u) PROVE List!TypeOK'
  BY <1>0, <1>4 DEF List!RollBack, List!TypeOK
<1>5. ASSUME NEW u \in List!Users, List!Delete(u) \/ List!Gone(u)
      PROVE  List!TypeOK'
  BY <1>0, <1>5 DEF List!Delete, List!Gone, List!Open, List!lists, List!TypeOK
<1>6. ASSUME NEW u \in List!Users, List!Deleted(u) \/ List!DeleteFails(u)
      PROVE  List!TypeOK'
  <2>1. CASE List!Deleted(u)
    <3>1. list' \in Lists
      BY <1>0, <2>1 DEF List!Deleted
    <3> QED
      BY <1>0, <2>1, <3>1 DEF List!Deleted, List!TypeOK
  <2>2. CASE List!DeleteFails(u)
    BY <1>0, <2>2 DEF List!DeleteFails, List!Fault, List!TypeOK
  <2> QED
    BY <1>6, <2>1, <2>2
<1>7. CASE UNCHANGED listVars
  BY <1>0, <1>7 DEF listVars, List!TypeOK
<1> QED
  BY <1>1, <1>2, <1>3, <1>4, <1>5, <1>6, <1>7, <1>8 DEF List!Next

LEMMA ListStep == ListInv /\ [List!Next]_listVars => ListInv'
<1> SUFFICES ASSUME ListInv, [List!Next]_listVars PROVE ListInv'
  OBVIOUS
<1>0. /\ server \subseteq List!Users /\ answer \subseteq List!Users
      /\ creating \in [New -> {"idle", "sent", "made", "failed", "done"}]
      /\ muddled \subseteq New /\ deleting \subseteq List!Users
      /\ outdated \in BOOLEAN /\ late \in BOOLEAN
  BY DEF ListInv, List!TypeOK
<1>a. /\ list \in [loaded : BOOLEAN, users : SUBSET List!Users, drafts : SUBSET New]
      /\ prev \in [New -> [loaded : BOOLEAN, users : SUBSET List!Users, drafts : SUBSET New]]
  BY DEF ListInv, List!TypeOK
<1>b. List!TypeOK'
  BY ListTypeStep DEF ListInv
<1>i. MadeOnce /\ KeepsItsList /\ ListIsShown /\ AnswerIsShown
  BY DEF ListInv
<1> SUFFICES MadeOnce' /\ KeepsItsList' /\ ListIsShown' /\ AnswerIsShown'
  BY <1>b DEF ListInv
\* A fetch changes the list when its answer lands, and nothing else.
<1>1. ASSUME List!Fetch \/ List!Read \/ List!FetchFails
      PROVE  MadeOnce' /\ KeepsItsList' /\ ListIsShown' /\ AnswerIsShown'
  BY <1>0, <1>i, <1>1
     DEF List!Fetch, List!Read, List!FetchFails, List!SetFetch, List!Open,
         MadeOnce, KeepsItsList, ListIsShown, AnswerIsShown, Shown
<1>2. ASSUME List!Land PROVE MadeOnce' /\ KeepsItsList' /\ ListIsShown' /\ AnswerIsShown'
  BY <1>0, <1>i, <1>2
     DEF List!Land, List!SetFetch, List!Open,
         MadeOnce, KeepsItsList, ListIsShown, AnswerIsShown, Shown
<1>3. ASSUME NEW u \in New, List!Create(u)
      PROVE  MadeOnce' /\ KeepsItsList' /\ ListIsShown' /\ AnswerIsShown'
  <2>1. /\ List!Open' = List!Open \cup {u} /\ u \notin server /\ u \notin List!Open
        /\ \A v \in New \ {u} : creating'[v] = creating[v]
        /\ creating'[u] = "sent" /\ fetch' = "none"
        /\ UNCHANGED <<server, deleting, outdated>>
    BY <1>0, <1>i, <1>3 DEF List!Create, List!SetFetch, List!Open, MadeOnce
  <2>2. CASE List!Clean
    <3>1. /\ list.loaded /\ list.users = server /\ list.drafts = {}
          /\ List!Open = {} /\ deleting = {} /\ ~outdated /\ muddled' = muddled
      BY <1>0, <1>i, <1>3, <2>2
         DEF List!Clean, List!Create, List!Open, ListIsShown, Shown
    <3>2. prev'[u] = list /\ list'.users = list.users /\ list'.drafts = {u}
      BY <1>a, <1>3, <3>1 DEF List!Create
    <3> QED
      BY <1>0, <1>i, <1>3, <2>1, <3>1, <3>2
         DEF MadeOnce, KeepsItsList, ListIsShown, AnswerIsShown, Shown
  <2>3. CASE ~List!Clean
    <3>1. muddled' = muddled \cup List!Open \cup {u}
      BY <1>3, <2>3 DEF List!Create
    <3> QED
      BY <1>0, <1>i, <1>3, <2>1, <3>1
         DEF MadeOnce, KeepsItsList, ListIsShown, AnswerIsShown
  <2> QED
    BY <2>2, <2>3
<1>4. ASSUME NEW u \in New, List!Made(u)
      PROVE  MadeOnce' /\ KeepsItsList' /\ ListIsShown' /\ AnswerIsShown'
  <2>1. /\ List!Open' = List!Open /\ u \in List!Open /\ u \notin server
        /\ creating'[u] = "made" /\ server' = server \cup {u}
        /\ \A v \in New \ {u} : creating'[v] = creating[v]
        /\ UNCHANGED <<list, fetch, answer, prev, muddled, deleting, outdated, late>>
    BY <1>0, <1>i, <1>4 DEF List!Made, List!Open, List!lists, MadeOnce
  <2> QED
    BY <1>0, <1>i, <2>1
       DEF MadeOnce, KeepsItsList, ListIsShown, AnswerIsShown, Shown
<1>5. ASSUME NEW u \in New, List!CreateFails(u)
      PROVE  MadeOnce' /\ KeepsItsList' /\ ListIsShown' /\ AnswerIsShown'
  <2>1. /\ List!Open' = List!Open /\ u \in List!Open
        /\ creating'[u] = "failed" /\ muddled \subseteq muddled'
        /\ u \in server => u \in muddled'
        /\ \A v \in New \ {u} : creating'[v] = creating[v]
        /\ UNCHANGED <<server, list, fetch, answer, prev, deleting, outdated, late>>
    BY <1>0, <1>i, <1>5 DEF List!CreateFails, List!Open, List!lists
  <2> QED
    BY <1>0, <1>i, <2>1
       DEF MadeOnce, KeepsItsList, ListIsShown, AnswerIsShown, Shown
<1>6. ASSUME NEW u \in New, List!Created(u)
      PROVE  MadeOnce' /\ KeepsItsList' /\ ListIsShown' /\ AnswerIsShown'
  <2>1. /\ List!Open' = List!Open \ {u} /\ u \in List!Open
        /\ creating'[u] = "done" /\ fetch' = "asked"
        /\ \A v \in New \ {u} : creating'[v] = creating[v]
        /\ UNCHANGED <<server, prev, muddled, deleting>>
    BY <1>0, <1>6 DEF List!Created, List!Open, List!SetFetch
  <2> QED
    BY <1>0, <1>i, <2>1 DEF MadeOnce, KeepsItsList, ListIsShown, AnswerIsShown
<1>7. ASSUME NEW u \in New, List!RollBack(u)
      PROVE  MadeOnce' /\ KeepsItsList' /\ ListIsShown' /\ AnswerIsShown'
  <2>1. /\ List!Open' = List!Open \ {u} /\ u \in List!Open
        /\ creating[u] = "failed" /\ creating'[u] = "done"
        /\ \A v \in New \ {u} : creating'[v] = creating[v]
        /\ UNCHANGED <<server, fetch, answer, prev, muddled, deleting>>
        /\ list' = IF prev[u].loaded THEN prev[u] ELSE list
        /\ outdated' = (outdated \/ u \in muddled) /\ late' = (late \/ u \in muddled)
    BY <1>0, <1>7 DEF List!RollBack, List!Open
  <2>2. CASE u \in muddled
    BY <1>0, <1>i, <2>1, <2>2 DEF MadeOnce, KeepsItsList, ListIsShown, AnswerIsShown
  <2>3. CASE u \notin muddled
    <3>a. u \notin server
      BY <1>i, <2>1, <2>3 DEF MadeOnce
    <3>b. /\ List!Open = {u} /\ prev[u].loaded /\ prev[u].drafts = {}
          /\ prev[u].users = server \ {u}
      BY <1>i, <2>1, <2>3 DEF KeepsItsList
    <3>1. /\ List!Open' = {} /\ u \notin server /\ list'.users = server /\ list'.drafts = {}
      BY <2>1, <3>a, <3>b
    <3> QED
      BY <1>0, <1>i, <2>1, <2>3, <3>1
         DEF MadeOnce, KeepsItsList, ListIsShown, AnswerIsShown, Shown
  <2> QED
    BY <2>2, <2>3
<1>8. ASSUME NEW u \in List!Users, List!Delete(u)
      PROVE  MadeOnce' /\ KeepsItsList' /\ ListIsShown' /\ AnswerIsShown'
  BY <1>0, <1>i, <1>8
     DEF List!Delete, List!Open, List!lists,
         MadeOnce, KeepsItsList, ListIsShown, AnswerIsShown, Shown
<1>9. ASSUME NEW u \in List!Users, List!Gone(u)
      PROVE  MadeOnce' /\ KeepsItsList' /\ ListIsShown' /\ AnswerIsShown'
  BY <1>0, <1>i, <1>9
     DEF List!Gone, List!Open, List!lists,
         MadeOnce, KeepsItsList, ListIsShown, AnswerIsShown, Shown
<1>10. ASSUME NEW u \in List!Users, List!Deleted(u)
       PROVE  MadeOnce' /\ KeepsItsList' /\ ListIsShown' /\ AnswerIsShown'
  <2>1. list'.users = list.users \ {u} /\ list'.drafts = list.drafts
        /\ list'.loaded = list.loaded
    BY <1>a, <1>10 DEF List!Deleted
  <2> QED
    BY <1>0, <1>i, <1>10, <2>1
       DEF List!Deleted, List!Open,
           MadeOnce, KeepsItsList, ListIsShown, AnswerIsShown, Shown
<1>11. ASSUME NEW u \in List!Users, List!DeleteFails(u)
       PROVE  MadeOnce' /\ KeepsItsList' /\ ListIsShown' /\ AnswerIsShown'
  BY <1>0, <1>i, <1>11
     DEF List!DeleteFails, List!Open,
         MadeOnce, KeepsItsList, ListIsShown, AnswerIsShown, Shown
<1>12. ASSUME UNCHANGED listVars
       PROVE  MadeOnce' /\ KeepsItsList' /\ ListIsShown' /\ AnswerIsShown'
  BY <1>i, <1>12
     DEF listVars, List!Open, MadeOnce, KeepsItsList, ListIsShown, AnswerIsShown, Shown
<1> QED
  BY <1>1, <1>2, <1>3, <1>4, <1>5, <1>6, <1>7, <1>8, <1>9, <1>10, <1>11, <1>12
     DEF List!Next

-----------------------------------------------------------------------------
(* The page's socket.                                                      *)

SocketInv == Realtime!TypeOK /\ Realtime!NoOrphan /\ Realtime!ListenersKeepSocket

LEMMA SocketStart == Realtime!Init => SocketInv
BY PartsAssumption
   DEF PartsAssumption, Realtime!RealtimeAssumption, Realtime!Init, Realtime!None,
       SocketInv, Realtime!TypeOK, Realtime!NoOrphan, Realtime!Live,
       Realtime!ListenersKeepSocket

LEMMA SocketStep == SocketInv /\ [Realtime!Next]_socketVars => SocketInv'
<1> SUFFICES ASSUME SocketInv, [Realtime!Next]_socketVars PROVE SocketInv'
  OBVIOUS
<1> USE PartsAssumption
    DEF PartsAssumption, Realtime!RealtimeAssumption, SocketInv, Realtime!TypeOK,
        Realtime!NoOrphan, Realtime!Live, Realtime!ListenersKeepSocket
<1>1. ASSUME NEW c \in Callers, Realtime!Connect(c) PROVE SocketInv'
  <2>1. CASE socket # Realtime!None /\ Realtime!Live(socket)
    BY <1>1, <2>1 DEF Realtime!Connect
  <2>2. CASE ~(socket # Realtime!None /\ Realtime!Live(socket))
    <3>1. PICK s \in Sockets :
            /\ conn[s] = "unused" /\ socket' = s
            /\ conn' = [t \in Sockets |-> IF t = s THEN "connecting"
                                          ELSE IF t = socket THEN "closed" ELSE conn[t]]
            /\ attached' = (attached \ {socket}) \cup {s}
      BY <1>1, <2>2 DEF Realtime!Connect
    <3> QED
      BY <1>1, <2>2, <3>1 DEF Realtime!Connect
  <2> QED
    BY <2>1, <2>2
<1>2. ASSUME NEW c \in Callers, Realtime!Cleanup(c) PROVE SocketInv'
  BY <1>2 DEF Realtime!Cleanup, Realtime!None
<1>3. ASSUME NEW s \in Sockets, Realtime!Opens(s) \/ Realtime!Drops(s)
      PROVE  SocketInv'
  BY <1>3 DEF Realtime!Opens, Realtime!Drops
<1>4. ASSUME NEW s \in Sockets, Realtime!AttemptFails(s) \/ Realtime!GatewayEnds(s)
      PROVE  SocketInv'
  BY <1>4 DEF Realtime!AttemptFails, Realtime!GatewayEnds
<1>5. CASE Realtime!Sign \/ UNCHANGED socketVars
  BY <1>5 DEF Realtime!Sign, socketVars
<1> QED
  BY <1>1, <1>2, <1>3, <1>4, <1>5 DEF Realtime!Next

-----------------------------------------------------------------------------
(* Native callbacks.                                                       *)

\* A callback is settled when its code was exchanged, or when it is missed.
Settled == {u \in Urls : exchanged[u] > 0 \/ u \in missed}

\* The last URL handled is settled, and so is every one that came, unless it
\* is an event, or in the slot and about to be taken, or in the answer.
OnItsWay ==
    /\ seen # Native!None => seen \in Settled
    /\ \A u \in announced : u \in Settled \/ u \in Native!ToSet(events)
    /\ \A u \in delivered :
        \/ u \in Settled \/ u \in Native!ToSet(events)
        \/ u = slot /\ sub \in {"listening", "taking"}
        \/ u = taken /\ sub = "taken"

\* What the page knows of came.
KnowsWhatCame ==
    /\ Native!ToSet(events) \subseteq delivered
    /\ {slot, taken, seen} \subseteq delivered \cup {Native!None}
    /\ \A u \in Urls : exchanged[u] > 0 => u \in delivered

\* A URL that came alone was exchanged in past lives of the page once each,
\* and in this one only if it is the last it handled.
OnceInALife ==
    \A u \in Urls : (\A v \in delivered : v = u) =>
        exchanged[u] <= reloads + (IF seen = u THEN 1 ELSE 0)

NativeInv ==
    /\ Native!TypeOK /\ IsFiniteSet(delivered)
    /\ OnItsWay /\ KnowsWhatCame /\ OnceInALife

LEMMA FirstAndOthers ==
    ASSUME NEW k \in Seq(Urls), k # <<>>
    PROVE  /\ Head(k) \in Urls /\ Tail(k) \in Seq(Urls)
           /\ Native!ToSet(k) = {Head(k)} \cup Native!ToSet(Tail(k))
<1>1. Head(k) \in Urls /\ Tail(k) \in Seq(Urls)
  BY HeadTailProperties
<1>2. /\ Len(k) \in Nat \ {0} /\ Head(k) = k[1] /\ DOMAIN k = 1..Len(k)
      /\ Len(Tail(k)) = Len(k) - 1 /\ DOMAIN Tail(k) = 1..Len(Tail(k))
      /\ \A i \in 1..Len(Tail(k)) : Tail(k)[i] = k[i + 1]
  BY HeadTailProperties, LenProperties, EmptySeq
<1>3. \A i \in DOMAIN k : i = 1 \/ (i - 1 \in DOMAIN Tail(k) /\ Tail(k)[i - 1] = k[i])
  BY <1>2
<1>4. Native!ToSet(k) \subseteq {Head(k)} \cup Native!ToSet(Tail(k))
  BY <1>2, <1>3 DEF Native!ToSet
<1>5. {Head(k)} \cup Native!ToSet(Tail(k)) \subseteq Native!ToSet(k)
  BY <1>2 DEF Native!ToSet
<1> QED
  BY <1>1, <1>4, <1>5

LEMMA LastAndOthers ==
    ASSUME NEW k \in Seq(Urls), NEW u \in Urls
    PROVE  /\ Append(k, u) \in Seq(Urls)
           /\ Native!ToSet(Append(k, u)) = Native!ToSet(k) \cup {u}
<1>1. /\ Append(k, u) \in Seq(Urls) /\ DOMAIN k = 1..Len(k)
      /\ DOMAIN Append(k, u) = 1..(Len(k) + 1)
      /\ \A i \in 1..Len(k) : Append(k, u)[i] = k[i]
      /\ Append(k, u)[Len(k) + 1] = u /\ Len(k) \in Nat
  BY AppendProperties, LenProperties
<1>2. Native!ToSet(Append(k, u)) = Native!ToSet(k) \cup {u}
  BY <1>1 DEF Native!ToSet
<1> QED
  BY <1>1, <1>2

LEMMA NothingOnItsWay == Native!ToSet(<<>>) = {}
BY DEF Native!ToSet

LEMMA NativeCardinality ==
    ASSUME NEW S PROVE Native!Cardinality(S) = Cardinality(S)
BY DEF Native!Cardinality, Cardinality

LEMMA NativeStart == Native!Init => NativeInv
<1> SUFFICES ASSUME Native!Init PROVE NativeInv
  OBVIOUS
<1>1. /\ delivered = {} /\ slot = Native!None /\ announced = {} /\ events = <<>>
      /\ sub = "listening" /\ taken = Native!None /\ seen = Native!None /\ page = FALSE
      /\ exchanged = [u \in Urls |-> 0] /\ missed = {} /\ reloads = 0 /\ MaxReloads \in Nat
      /\ Native!ToSet(events) = {}
  BY PartsAssumption, NothingOnItsWay
     DEF PartsAssumption, Native!NativeAssumption, Native!Init
<1>2. Native!TypeOK
  <2>1. events \in Seq(Urls) /\ exchanged \in [Urls -> Nat] /\ reloads \in 0..MaxReloads
    BY <1>1
  <2> QED
    BY <1>1, <2>1 DEF Native!TypeOK
<1>3. OnItsWay /\ KnowsWhatCame /\ OnceInALife
  BY <1>1 DEF OnItsWay, KnowsWhatCame, OnceInALife
<1> QED
  BY <1>1, <1>2, <1>3, FS_EmptySet DEF NativeInv

\* The page handles a URL that came: it is settled then, and what was settled
\* stays so.
LEMMA Handled ==
    ASSUME NativeInv, NEW u \in delivered \cup {Native!None}, Native!Handle(u),
           UNCHANGED <<delivered, reloads>>
    PROVE  /\ seen' \in delivered \cup {Native!None} /\ page' \in BOOLEAN
           /\ exchanged' \in [Urls -> Nat] /\ missed' \subseteq Urls
           /\ \A v \in Urls : v \in Settled => v \in Settled'
           /\ u # Native!None => u \in Settled'
           /\ seen' # Native!None => seen' \in Settled'
           /\ \A v \in Urls : exchanged'[v] > 0 => v \in delivered
           /\ OnceInALife'
<1>0. /\ exchanged \in [Urls -> Nat] /\ missed \subseteq Urls /\ page \in BOOLEAN
      /\ delivered \subseteq Urls /\ reloads \in Nat /\ Native!None \notin Urls
      /\ seen \in delivered \cup {Native!None}
      /\ seen # Native!None => seen \in Settled
      /\ OnceInALife
      /\ \A v \in Urls : exchanged[v] > 0 => v \in delivered
  BY PartsAssumption
     DEF PartsAssumption, Native!NativeAssumption, NativeInv, Native!TypeOK, OnItsWay,
         KnowsWhatCame
<1>1. CASE u \in {Native!None, seen}
  BY <1>0, <1>1 DEF Native!Handle, OnceInALife, Settled
<1>2. CASE u \notin {Native!None, seen}
  <2>1. u \in delivered /\ u \in Urls /\ seen' = u /\ page' = TRUE
    BY <1>0, <1>2 DEF Native!Handle, Native!OnCode
  <2>2. CASE page
    <3>1. missed' = missed \cup {u} /\ exchanged' = exchanged
      BY <1>2, <2>2 DEF Native!Handle, Native!OnCode
    <3>2. OnceInALife'
      BY <1>0, <2>1, <3>1 DEF OnceInALife
    <3> QED
      BY <1>0, <2>1, <3>1, <3>2 DEF Settled
  <2>3. CASE ~page
    <3>1. missed' = missed /\ exchanged' = [exchanged EXCEPT ![u] = @ + 1]
      BY <1>2, <2>3 DEF Native!Handle, Native!OnCode
    <3>2. exchanged'[u] > 0 /\ \A v \in Urls \ {u} : exchanged'[v] = exchanged[v]
      BY <1>0, <2>1, <3>1
    <3>3. OnceInALife'
      <4> SUFFICES ASSUME NEW v \in Urls, \A w \in delivered : w = v
                   PROVE  exchanged'[v] <= reloads + (IF u = v THEN 1 ELSE 0)
        BY <2>1 DEF OnceInALife
      <4>1. v = u /\ seen = Native!None
        BY <1>0, <1>2, <2>1
      <4>2. exchanged[u] <= reloads + 0
        BY <1>0, <2>1, <4>1 DEF OnceInALife
      <4> QED
        BY <1>0, <2>1, <3>1, <4>1, <4>2
    <3>4. \A v \in Urls : v \in Settled => v \in Settled'
      BY <1>0, <3>1, <3>2 DEF Settled
    <3>5. u \in Settled' /\ seen' \in Settled'
      BY <2>1, <3>2 DEF Settled
    <3> QED
      BY <1>0, <2>1, <3>1, <3>2, <3>3, <3>4, <3>5
  <2> QED
    BY <2>2, <2>3
<1> QED
  BY <1>1, <1>2

LEMMA NativeStep == NativeInv /\ [Native!Next]_nativeVars => NativeInv'
<1> SUFFICES ASSUME NativeInv, [Native!Next]_nativeVars PROVE NativeInv'
  OBVIOUS
<1> USE PartsAssumption
    DEF PartsAssumption, Native!NativeAssumption
<1>0. /\ delivered \subseteq Urls /\ slot \in Urls \cup {Native!None}
      /\ announced \subseteq Urls /\ events \in Seq(Urls)
      /\ sub \in {"listening", "taking", "taken", "ready"}
      /\ taken \in Urls \cup {Native!None} /\ seen \in Urls \cup {Native!None}
      /\ page \in BOOLEAN /\ exchanged \in [Urls -> Nat] /\ missed \subseteq Urls
      /\ reloads \in 0..MaxReloads /\ IsFiniteSet(delivered)
      /\ OnItsWay /\ KnowsWhatCame /\ OnceInALife
  BY DEF NativeInv, Native!TypeOK
<1>1. ASSUME NEW u \in Urls, Native!Deliver(u) PROVE NativeInv'
  <2>0. /\ u \notin delivered /\ delivered' = delivered \cup {u} /\ slot' = u
        /\ missed' = missed \cup ({slot} \ (announced \cup {Native!None}))
        /\ UNCHANGED <<sub, taken, seen, page, exchanged, reloads>>
    BY <1>1 DEF Native!Deliver
  <2>1. /\ events' \in Seq(Urls) /\ announced' \subseteq Urls
        /\ Native!ToSet(events) \subseteq Native!ToSet(events)'
        /\ Native!ToSet(events)' \subseteq Native!ToSet(events) \cup {u}
        /\ sub # "listening" => u \in Native!ToSet(events)'
        /\ announced \subseteq announced'
        /\ \A v \in announced' : v \in announced \/ v \in Native!ToSet(events)'
    <3>1. CASE sub = "listening"
      BY <1>0, <1>1, <3>1 DEF Native!Deliver
    <3>2. CASE sub # "listening"
      <4>1. events' = Append(events, u) /\ announced' = announced \cup {u}
        BY <1>1, <3>2 DEF Native!Deliver
      <4>2. Native!ToSet(events)' = Native!ToSet(events) \cup {u} /\ events' \in Seq(Urls)
        BY <1>0, <4>1, LastAndOthers
      <4> QED
        BY <1>0, <4>1, <4>2
    <3> QED
      BY <3>1, <3>2
  <2>2. \A v \in Urls : v \in Settled => v \in Settled'
    BY <2>0 DEF Settled
  <2>3. Native!TypeOK'
    BY <1>0, <2>0, <2>1 DEF Native!TypeOK
  \* What the slot held was announced, and so is settled or an event.
  <2>4. \A v \in delivered : v = slot /\ sub \in {"listening", "taking"} =>
            v \in Settled' \/ v \in Native!ToSet(events)'
    <3>1. ASSUME slot \in Urls PROVE slot \in Settled' \/ slot \in Native!ToSet(events)'
      <4>1. CASE slot \in announced
        BY <1>0, <2>1, <2>2, <3>1, <4>1 DEF OnItsWay
      <4>2. CASE slot \notin announced
        BY <2>0, <3>1, <4>2 DEF Settled
      <4> QED
        BY <4>1, <4>2
    <3> QED
      BY <1>0, <3>1
  <2>5. OnItsWay'
    <3>1. seen' # Native!None => seen' \in Settled'
      BY <1>0, <2>0, <2>2 DEF OnItsWay
    <3>2. \A v \in announced' : v \in Settled' \/ v \in Native!ToSet(events)'
      BY <1>0, <2>1, <2>2 DEF OnItsWay
    <3>3. \A v \in delivered' :
            \/ v \in Settled' \/ v \in Native!ToSet(events)'
            \/ v = slot' /\ sub' \in {"listening", "taking"}
            \/ v = taken' /\ sub' = "taken"
      BY <1>0, <2>0, <2>1, <2>2, <2>4 DEF OnItsWay
    <3> QED
      BY <3>1, <3>2, <3>3 DEF OnItsWay
  <2>6. KnowsWhatCame'
    BY <1>0, <2>0, <2>1 DEF KnowsWhatCame
  <2>7. OnceInALife'
    BY <1>0, <2>0 DEF OnceInALife, KnowsWhatCame
  <2>8. IsFiniteSet(delivered')
    BY <1>0, <2>0, FS_AddElement
  <2> QED
    BY <2>3, <2>5, <2>6, <2>7, <2>8 DEF NativeInv
<1>2. CASE Native!Listens \/ Native!Leave
  <2>1. Native!TypeOK'
    BY <1>0, <1>2 DEF Native!Listens, Native!Leave, Native!shell, Native!TypeOK
  <2> QED
    BY <1>0, <1>2, <2>1
       DEF Native!Listens, Native!Leave, Native!shell, NativeInv, OnItsWay, Settled,
           KnowsWhatCame, OnceInALife
<1>7. CASE Native!Take
  <2>1. Native!TypeOK'
    BY <1>0, <1>7 DEF Native!Take, Native!TypeOK
  \* The slot holds what came.
  <2>2. slot \in delivered \cup {Native!None}
    BY <1>0 DEF KnowsWhatCame
  <2>3. OnItsWay'
    BY <1>0, <1>7 DEF Native!Take, OnItsWay, Settled
  <2>4. KnowsWhatCame' /\ OnceInALife'
    BY <1>0, <1>7, <2>2 DEF Native!Take, KnowsWhatCame, OnceInALife
  <2> QED
    BY <1>0, <1>7, <2>1, <2>3, <2>4 DEF Native!Take, NativeInv
<1>3. CASE Native!Answer
  <2>0. /\ sub = "taken" /\ sub' = "ready" /\ taken' = Native!None
        /\ Native!Handle(taken) /\ taken \in delivered \cup {Native!None}
        /\ UNCHANGED <<delivered, slot, announced, events, reloads>>
    BY <1>0, <1>3 DEF Native!Answer, Native!shell, KnowsWhatCame
  <2>1. /\ seen' \in delivered \cup {Native!None} /\ page' \in BOOLEAN
        /\ exchanged' \in [Urls -> Nat] /\ missed' \subseteq Urls
        /\ \A v \in Urls : v \in Settled => v \in Settled'
        /\ taken # Native!None => taken \in Settled'
        /\ seen' # Native!None => seen' \in Settled'
        /\ \A v \in Urls : exchanged'[v] > 0 => v \in delivered
        /\ OnceInALife'
    BY <2>0, Handled
  <2>2. OnItsWay'
    <3>1. \A v \in announced : v \in Settled' \/ v \in Native!ToSet(events)
      BY <1>0, <2>1 DEF OnItsWay
    <3>2. \A v \in delivered :
            \/ v \in Settled' \/ v \in Native!ToSet(events)
            \/ v = slot /\ sub' \in {"listening", "taking"}
      BY <1>0, <2>0, <2>1 DEF OnItsWay
    <3> QED
      BY <2>0, <2>1, <3>1, <3>2 DEF OnItsWay
  <2>3. Native!TypeOK'
    BY <1>0, <2>0, <2>1 DEF Native!TypeOK
  <2>4. KnowsWhatCame' /\ IsFiniteSet(delivered)'
    BY <1>0, <2>0, <2>1 DEF KnowsWhatCame
  <2> QED
    BY <2>1, <2>2, <2>3, <2>4 DEF NativeInv
<1>4. CASE Native!Event
  <2>0. /\ events # <<>> /\ events' = Tail(events) /\ Native!Handle(Head(events))
        /\ UNCHANGED <<delivered, slot, announced, sub, taken, reloads>>
    BY <1>4 DEF Native!Event, Native!shell
  <2>a. /\ Head(events) \in Urls /\ events' \in Seq(Urls)
        /\ Native!ToSet(events) = {Head(events)} \cup Native!ToSet(events')
    BY <1>0, <2>0, FirstAndOthers
  <2>b. Head(events) \in delivered /\ Head(events) # Native!None
    BY <1>0, <2>a DEF KnowsWhatCame
  <2>1. /\ seen' \in delivered \cup {Native!None} /\ page' \in BOOLEAN
        /\ exchanged' \in [Urls -> Nat] /\ missed' \subseteq Urls
        /\ \A v \in Urls : v \in Settled => v \in Settled'
        /\ Head(events) \in Settled'
        /\ seen' # Native!None => seen' \in Settled'
        /\ \A v \in Urls : exchanged'[v] > 0 => v \in delivered
        /\ OnceInALife'
    <3>1. PICK u \in delivered : u = Head(events)
      BY <2>b
    <3>2. Native!Handle(u) /\ u # Native!None
      BY <2>0, <2>b, <3>1
    <3>3. u \in Settled'
      BY <2>0, <3>2, Handled
    <3>4. Head(events) \in Settled'
      BY <3>1, <3>3
    <3> QED
      BY <2>0, <3>2, <3>4, Handled
  <2>2. OnItsWay'
    <3>1. \A v \in announced : v \in Settled' \/ v \in Native!ToSet(events')
      BY <1>0, <2>a, <2>1 DEF OnItsWay
    <3>2. \A v \in delivered :
            \/ v \in Settled' \/ v \in Native!ToSet(events')
            \/ v = slot /\ sub \in {"listening", "taking"}
            \/ v = taken /\ sub = "taken"
      BY <1>0, <2>a, <2>1 DEF OnItsWay
    <3> QED
      BY <2>0, <2>1, <3>1, <3>2 DEF OnItsWay
  <2>3. Native!TypeOK'
    BY <1>0, <2>0, <2>a, <2>1 DEF Native!TypeOK
  <2>4. KnowsWhatCame' /\ IsFiniteSet(delivered)'
    BY <1>0, <2>0, <2>a, <2>1 DEF KnowsWhatCame
  <2> QED
    BY <2>1, <2>2, <2>3, <2>4 DEF NativeInv
<1>5. CASE Native!Reload
  <2>0. /\ reloads < MaxReloads /\ reloads' = reloads + 1
        /\ sub' = "listening" /\ events' = <<>> /\ taken' = Native!None
        /\ seen' = Native!None /\ announced' = {}
        /\ missed' = missed \cup ((Native!ToSet(events) \cup {taken}) \ {slot, Native!None})
        /\ UNCHANGED <<delivered, slot, page, exchanged>>
    BY <1>5 DEF Native!Reload
  <2>1. Native!ToSet(events') = {} /\ Native!ToSet(events) \subseteq Urls
    BY <1>0, <2>0, NothingOnItsWay DEF KnowsWhatCame
  <2>2. Native!TypeOK'
    BY <1>0, <2>0, <2>1 DEF Native!TypeOK
  <2>3. OnItsWay'
    <3>1. \A v \in delivered : v \in Settled' \/ v = slot
      BY <1>0, <2>0 DEF OnItsWay, Settled
    <3> QED
      BY <1>0, <2>0, <3>1 DEF OnItsWay
  <2>4. KnowsWhatCame' /\ IsFiniteSet(delivered)'
    BY <1>0, <2>0, <2>1 DEF KnowsWhatCame
  <2>5. OnceInALife'
    <3>1. \A v \in Urls : (\A w \in delivered : w = v) => exchanged[v] <= reloads + 1
      <4>1. ASSUME NEW v \in Urls, \A w \in delivered : w = v
            PROVE  exchanged[v] <= reloads + 1
        <5>1. exchanged[v] <= reloads + (IF seen = v THEN 1 ELSE 0)
          BY <1>0, <4>1 DEF OnceInALife
        <5> QED
          BY <1>0, <5>1
      <4> QED
        BY <4>1
    <3> QED
      BY <1>0, <2>0, <3>1 DEF OnceInALife
  <2> QED
    BY <2>2, <2>3, <2>4, <2>5 DEF NativeInv
<1>6. CASE UNCHANGED nativeVars
  BY <1>0, <1>6
     DEF nativeVars, NativeInv, Native!TypeOK, OnItsWay, Settled, KnowsWhatCame,
         OnceInALife
<1> QED
  BY <1>1, <1>2, <1>3, <1>4, <1>5, <1>6, <1>7 DEF Native!Next

-----------------------------------------------------------------------------
(* The composition: each part's invariant beside the others'.              *)

AccountsInv == IInv /\ RInv /\ SignInInv /\ ListInv /\ SocketInv /\ NativeInv

LEMMA PartsStart == PartsInit => AccountsInv
BY InitIInv, InitReplay, SignInStart, ListStart, SocketStart, NativeStart
   DEF PartsInit, AccountsInv

LEMMA PartsStep == AccountsInv /\ [PartsNext]_partVars => AccountsInv'
<1> SUFFICES ASSUME AccountsInv, [PartsNext]_partVars PROVE AccountsInv'
  OBVIOUS
<1>1. /\ [Next]_vars /\ [SignIn!Next]_signInVars /\ [List!Next]_listVars
      /\ [Realtime!Next]_socketVars /\ [Native!Next]_nativeVars
  BY DEF PartsNext, partVars, pageVars, OnUsers, OnSignIn, OnList, OnRealtime, OnNative
<1> QED
  BY <1>1, StepIInv, StepReplay, SignInStep, ListStep, SocketStep, NativeStep
     DEF AccountsInv

LEMMA PartsInvariance == PartsSpec => []AccountsInv
BY PartsStart, PartsStep, PTL DEF PartsSpec

\* Every variable of the users, the sign-ins and the page keeps its type, and
\* a stored response is a created user's.
THEOREM TypesCorrect == PartsSpec => []TypesOK
<1>1. AccountsInv => TypesOK
  BY DEF AccountsInv, IInv, RInv, SignInInv, ListInv, SocketInv, NativeInv, TypesOK
<1> QED
  BY <1>1, PartsInvariance, PTL

\* A sign-in gets the tokens of an account its own identity made, and of the
\* exchanges of one code one gets as far as its secret.
THEOREM SignInsAreTheirOwn == PartsSpec => []TokensOfItsOwn
<1>1. AccountsInv => TokensOfItsOwn
  BY DEF AccountsInv, SignInInv, TokensOfItsOwn
<1> QED
  BY <1>1, PartsInvariance, PTL

LEMMA ListIsInStep == ListInv => List!ListInStep
<1> SUFFICES ASSUME ListInv, fetch = "none", List!Open = {}, deleting = {},
                    ~outdated, list.loaded
             PROVE  list.drafts = {} /\ list.users = server
  BY DEF List!ListInStep
<1>1. Shown(list.users) /\ list.drafts \subseteq List!Open
  BY DEF ListInv, ListIsShown
<1>2. \A u \in server : u \in list.users
  BY <1>1 DEF Shown, List!Open
<1>3. \A u \in list.users : u \in server
  BY <1>1 DEF Shown
<1> QED
  BY <1>1, <1>2, <1>3

LEMMA CallbacksArrive == NativeInv => Native!CodeArrives /\ Native!OncePerPage
<1> SUFFICES ASSUME NativeInv PROVE Native!CodeArrives /\ Native!OncePerPage
  OBVIOUS
<1>0. /\ exchanged \in [Urls -> Nat] /\ reloads \in Nat /\ delivered \subseteq Urls
      /\ IsFiniteSet(delivered) /\ OnItsWay /\ KnowsWhatCame /\ OnceInALife
  BY DEF NativeInv, Native!TypeOK
<1>1. Native!CodeArrives
  BY <1>0, NothingOnItsWay DEF OnItsWay, Settled, Native!CodeArrives
<1>2. Native!OncePerPage
  <2> SUFFICES ASSUME Cardinality(delivered) = 1, NEW u \in Urls
               PROVE  exchanged[u] <= 1 + reloads
    BY NativeCardinality DEF Native!OncePerPage
  <2>1. PICK v : delivered = {v}
    BY <1>0, FS_Singleton
  <2>2. CASE u = v
    <3>1. exchanged[u] <= reloads + (IF seen = u THEN 1 ELSE 0)
      BY <1>0, <2>1, <2>2 DEF OnceInALife
    <3> QED
      BY <1>0, <3>1
  <2>3. CASE u # v
    BY <1>0, <2>1, <2>3 DEF KnowsWhatCame
  <2> QED
    BY <2>2, <2>3
<1> QED
  BY <1>1, <1>2

\* What the page shows is what the service has: its list of users once nothing
\* is under way, its socket while anybody listens, and an exchange for every
\* callback that was not replaced, once in a life of the page.
THEOREM PageStaysInStep == PartsSpec => []PageInStep
<1>1. AccountsInv => PageInStep
  BY ListIsInStep, CallbacksArrive DEF AccountsInv, SocketInv, PageInStep
<1> QED
  BY <1>1, PartsInvariance, PTL

\* Beside the sign-ins and the page, the tenant keeps an active admin, an
\* address is one user's, and the events of a user give the user.
THEOREM UsersHoldBesideTheRest ==
    PartsSpec => [](KeepsAnAdmin /\ UniqueEmail /\ EventsReplay)
<1>1. AccountsInv => KeepsAnAdmin /\ UniqueEmail /\ EventsReplay
  BY DEF AccountsInv, IInv, RInv
<1> QED
  BY <1>1, PartsInvariance, PTL

=============================================================================
