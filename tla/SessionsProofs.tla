-------------------------- MODULE SessionsProofs ---------------------------
(***************************************************************************)
(* Proofs about Sessions, for any number of requests and pairs.  The       *)
(* invariant: every pair of a session carries the token version its login  *)
(* saw, a refresh on its way included, and a session's right to refresh is *)
(* in one place: a stored record or one request.                           *)
(***************************************************************************)
EXTENDS Sessions, TLAPS

\* Types, with the versions as natural numbers up to the account's own.
Types ==
    /\ status \in Statuses \cup {"deleted"}
    /\ version \in Nat /\ version <= MaxVersion
    /\ marker \in BOOLEAN
    /\ session \in [Pairs -> Pairs \cup {None}]
    /\ issuedAt \in [Pairs -> Nat]
    /\ \A i \in Pairs : issuedAt[i] <= version
    /\ refresh \subseteq Issued /\ revoked \subseteq Issued /\ expired \subseteq Issued
    /\ pc \in [Requests -> Calls]
    /\ from \in [Requests -> Pairs \cup {None}]
    /\ tv \in [Requests -> Nat]
    /\ \A r \in Requests : tv[r] <= version
    /\ said \in [Requests -> Statuses]

\* A session is named by a pair that was issued, at the version of all its
\* pairs.
SessionVersion ==
    \A i \in Issued : session[i] \in Issued /\ issuedAt[session[i]] = issuedAt[i]

\* A refresh holds an issued pair; past the deletion of its record, it holds
\* that pair's version.
RefreshVersion ==
    \A r \in Requests :
        /\ pc[r] \in {"delete", "user", "logout"} => from[r] \in Issued
        /\ pc[r] = "delete" /\ from[r] \in refresh => tv[r] = issuedAt[from[r]]
        /\ pc[r] = "user" => tv[r] = issuedAt[from[r]]
        /\ pc[r] = "issue" /\ from[r] # None =>
               from[r] \in Issued /\ tv[r] = issuedAt[from[r]]
        /\ pc[r] \in {"idle", "sync"} => from[r] = None

\* Has request r taken the record of a refresh token and not stored another?
Rotates(r) == pc[r] \in {"user", "issue"} /\ from[r] # None

\* The right to refresh a session is in one place.
OneRight ==
    /\ OneRefreshToken
    /\ \A r \in Requests, i \in refresh :
           Rotates(r) => session[from[r]] # session[i]
    /\ \A r, q \in Requests :
           Rotates(r) /\ Rotates(q) /\ session[from[r]] = session[from[q]] => r = q

IInv == Types /\ SessionVersion /\ RefreshVersion /\ OneRight

LEMMA InitInv == Init => IInv
<1> SUFFICES ASSUME Init PROVE IInv
    OBVIOUS
<1> USE DEF Init, Issued
<1>1. Types
    <2>1. version \in Nat /\ version <= MaxVersion
        BY VersionAssumption DEF VersionAssumption
    <2>2. \A i \in Pairs : issuedAt[i] <= version
        OBVIOUS
    <2>3. ASSUME NEW r \in Requests PROVE tv[r] <= version
        <3>1. tv[r] = 0 /\ version = 0
            OBVIOUS
        <3> QED BY <3>1
    <2>4. session \in [Pairs -> Pairs \cup {None}] /\ issuedAt \in [Pairs -> Nat]
        OBVIOUS
    <2>5. /\ pc \in [Requests -> Calls]
          /\ from \in [Requests -> Pairs \cup {None}]
          /\ tv \in [Requests -> Nat]
          /\ said \in [Requests -> Statuses]
        BY DEF Calls, Statuses
    <2> QED BY <2>1, <2>2, <2>3, <2>4, <2>5 DEF Types, Statuses
<1>2. SessionVersion /\ RefreshVersion /\ OneRight
    BY DEF SessionVersion, RefreshVersion, OneRight, Rotates, OneRefreshToken
<1> QED BY <1>1, <1>2 DEF IInv

\* Every step keeps the types.
LEMMA TypesStep == IInv /\ [Next]_vars => Types'
<1> SUFFICES ASSUME IInv, [Next]_vars PROVE Types'
    OBVIOUS
<1> USE VersionAssumption, NamesAssumption
    DEF VersionAssumption, NamesAssumption, IInv, Types, Issued, Statuses, Calls, Done, account, tokens, requests
<1>1. ASSUME NEW r \in Requests, Login(r) PROVE Types'
    BY <1>1 DEF Login
<1>2. ASSUME NEW r \in Requests, Issue(r) PROVE Types'
    BY <1>2 DEF Issue, RefreshVersion
<1>3. ASSUME NEW r \in Requests, RefreshGet(r) PROVE Types'
    BY <1>3 DEF RefreshGet, StoredVersion
<1>4. ASSUME NEW r \in Requests, RefreshDelete(r) PROVE Types'
    BY <1>4 DEF RefreshDelete
<1>5. ASSUME NEW r \in Requests, RefreshUser(r) PROVE Types'
    BY <1>5 DEF RefreshUser
<1>6. ASSUME NEW r \in Requests, LogoutRevoke(r) PROVE Types'
    BY <1>6 DEF LogoutRevoke
<1>7. ASSUME NEW r \in Requests, LogoutDelete(r) PROVE Types'
    BY <1>7 DEF LogoutDelete
<1>8. ASSUME NEW r \in Requests, Update(r) PROVE Types'
    BY <1>8 DEF Update, EndSessions
<1>9. ASSUME NEW r \in Requests, SyncMarker(r) PROVE Types'
    BY <1>9 DEF SyncMarker
<1>10. ASSUME NEW r \in Requests, Fail(r) PROVE Types'
    BY <1>10 DEF Fail
<1>11. ASSUME UpdateRoles PROVE Types'
    BY <1>11 DEF UpdateRoles, EndSessions
<1>12. ASSUME Delete PROVE Types'
    BY <1>12 DEF Delete
<1>13. ASSUME NEW i \in Pairs, AccessExpires(i) PROVE Types'
    BY <1>13 DEF AccessExpires
<1>14. ASSUME NEW i \in Pairs, RevocationExpires(i) PROVE Types'
    BY <1>14 DEF RevocationExpires
<1>15. ASSUME NEW i \in Pairs, RefreshExpires(i) PROVE Types'
    BY <1>15 DEF RefreshExpires
<1>16. ASSUME MarkerExpires PROVE Types'
    BY <1>16 DEF MarkerExpires
<1>17. CASE UNCHANGED vars
    BY <1>17 DEF vars
<1> QED BY <1>1, <1>2, <1>3, <1>4, <1>5, <1>6, <1>7, <1>8, <1>9, <1>10, <1>11,
           <1>12, <1>13, <1>14, <1>15, <1>16, <1>17 DEF Next

\* The part of a step that the other three invariants depend on.
chains == <<session, issuedAt, refresh, pc, from, tv>>

\* A step changes pairs, records and refreshes by an action of a request, by
\* an expiry, or not at all.
LEMMA StepCases ==
    ASSUME IInv, [Next]_vars
    PROVE  \/ \E r \in Requests :
                 \/ Login(r) \/ Issue(r) \/ RefreshGet(r) \/ RefreshDelete(r)
                 \/ RefreshUser(r) \/ LogoutRevoke(r) \/ LogoutDelete(r)
                 \/ Update(r) \/ SyncMarker(r) \/ Fail(r)
           \/ \E i \in Pairs : RefreshExpires(i)
           \/ UNCHANGED chains
BY DEF Next, vars, chains, tokens, requests, account, UpdateRoles, Delete,
       AccessExpires, RevocationExpires, MarkerExpires

LEMMA SessionVersionStep == IInv /\ [Next]_vars => SessionVersion'
<1> SUFFICES ASSUME IInv, [Next]_vars PROVE SessionVersion'
    OBVIOUS
<1> USE NamesAssumption DEF NamesAssumption, IInv, Types, SessionVersion, Issued
<1>1. ASSUME NEW r \in Requests, Issue(r) PROVE SessionVersion'
    <2>1. PICK i \in Pairs \ Issued :
              /\ session' = [session EXCEPT ![i] =
                                IF from[r] = None THEN i ELSE session[from[r]]]
              /\ issuedAt' = [issuedAt EXCEPT ![i] = tv[r]]
        BY <1>1 DEF Issue
    <2>2. CASE from[r] = None
        BY <2>1, <2>2
    <2>3. CASE from[r] # None
        <3>1. from[r] \in Issued /\ tv[r] = issuedAt[from[r]]
            BY <1>1, <2>3 DEF Issue, RefreshVersion
        <3> QED BY <2>1, <2>3, <3>1
    <2> QED BY <2>2, <2>3
<1>2. CASE UNCHANGED <<session, issuedAt>>
    BY <1>2
<1> QED BY <1>1, <1>2, StepCases
       DEF chains, Login, RefreshGet, RefreshDelete, RefreshUser, LogoutRevoke,
           LogoutDelete, Update, SyncMarker, Fail, RefreshExpires, tokens

LEMMA RefreshVersionStep == IInv /\ [Next]_vars => RefreshVersion'
<1> SUFFICES ASSUME IInv, [Next]_vars PROVE RefreshVersion'
    OBVIOUS
<1> USE NamesAssumption
    DEF NamesAssumption, IInv, Types, RefreshVersion, Issued, Done, tokens, Calls
<1>1. ASSUME NEW r \in Requests, Login(r) PROVE RefreshVersion'
    BY <1>1 DEF Login
<1>2. ASSUME NEW r \in Requests, Issue(r) PROVE RefreshVersion'
    BY <1>2 DEF Issue
<1>3. ASSUME NEW r \in Requests, RefreshGet(r) PROVE RefreshVersion'
    BY <1>3 DEF RefreshGet, StoredVersion
<1>4. ASSUME NEW r \in Requests, RefreshDelete(r) PROVE RefreshVersion'
    BY <1>4 DEF RefreshDelete
<1>5. ASSUME NEW r \in Requests, RefreshUser(r) PROVE RefreshVersion'
    BY <1>5 DEF RefreshUser
<1>6. ASSUME NEW r \in Requests, LogoutRevoke(r) PROVE RefreshVersion'
    BY <1>6 DEF LogoutRevoke
<1>7. ASSUME NEW r \in Requests, LogoutDelete(r) PROVE RefreshVersion'
    BY <1>7 DEF LogoutDelete
<1>8. ASSUME NEW r \in Requests, Update(r) PROVE RefreshVersion'
    BY <1>8 DEF Update
<1>9. ASSUME NEW r \in Requests, SyncMarker(r) PROVE RefreshVersion'
    BY <1>9 DEF SyncMarker
<1>10. ASSUME NEW r \in Requests, Fail(r) PROVE RefreshVersion'
    BY <1>10 DEF Fail
<1>11. ASSUME NEW i \in Pairs, RefreshExpires(i) PROVE RefreshVersion'
    BY <1>11 DEF RefreshExpires, requests
<1>12. CASE UNCHANGED chains
    BY <1>12 DEF chains
<1> QED BY <1>1, <1>2, <1>3, <1>4, <1>5, <1>6, <1>7, <1>8, <1>9, <1>10, <1>11,
           <1>12, StepCases

LEMMA OneRightStep == IInv /\ [Next]_vars => OneRight'
<1> SUFFICES ASSUME IInv, [Next]_vars PROVE OneRight'
    OBVIOUS
<1> USE NamesAssumption
    DEF NamesAssumption, IInv, Types, OneRight, OneRefreshToken, Rotates, Issued,
        Done, tokens, Calls
<1>1. ASSUME NEW r \in Requests, Login(r) PROVE OneRight'
    BY <1>1 DEF Login, RefreshVersion
<1>2. ASSUME NEW r \in Requests, Issue(r) PROVE OneRight'
    BY <1>2 DEF Issue, SessionVersion, RefreshVersion
<1>3. ASSUME NEW r \in Requests, RefreshGet(r) PROVE OneRight'
    BY <1>3 DEF RefreshGet
<1>4. ASSUME NEW r \in Requests, RefreshDelete(r) PROVE OneRight'
    BY <1>4 DEF RefreshDelete
<1>5. ASSUME NEW r \in Requests, RefreshUser(r) PROVE OneRight'
    BY <1>5 DEF RefreshUser
<1>6. ASSUME NEW r \in Requests, LogoutRevoke(r) PROVE OneRight'
    BY <1>6 DEF LogoutRevoke
<1>7. ASSUME NEW r \in Requests, LogoutDelete(r) PROVE OneRight'
    BY <1>7 DEF LogoutDelete
<1>8. ASSUME NEW r \in Requests, Update(r) PROVE OneRight'
    BY <1>8 DEF Update
<1>9. ASSUME NEW r \in Requests, SyncMarker(r) PROVE OneRight'
    BY <1>9 DEF SyncMarker
<1>10. ASSUME NEW r \in Requests, Fail(r) PROVE OneRight'
    BY <1>10 DEF Fail
<1>11. ASSUME NEW i \in Pairs, RefreshExpires(i) PROVE OneRight'
    BY <1>11 DEF RefreshExpires, requests
<1>12. CASE UNCHANGED chains
    BY <1>12 DEF chains
<1> QED BY <1>1, <1>2, <1>3, <1>4, <1>5, <1>6, <1>7, <1>8, <1>9, <1>10, <1>11,
           <1>12, StepCases

LEMMA Invariance == Spec => []IInv
<1>1. IInv /\ [Next]_vars => IInv'
    BY TypesStep, SessionVersionStep, RefreshVersionStep, OneRightStep DEF IInv
<1> QED BY InitInv, <1>1, PTL DEF Spec

-----------------------------------------------------------------------------

\* Every variable of the session model keeps its type, and no token is ahead
\* of the account.
THEOREM TypeCorrect == Spec => []TypeOK
<1>1. IInv => TypeOK
    BY VersionAssumption DEF VersionAssumption, IInv, Types, TypeOK
<1> QED BY <1>1, Invariance, PTL

\* A password, email, role or status change ends every session that began
\* before it, however refreshes and changes interleave.
THEOREM ChangesEndSessions == Spec => []SessionsEndOnChange
<1>1. IInv => SessionsEndOnChange
    BY DEF IInv, Types, SessionVersion, SessionsEndOnChange, Accepts, Refreshes, Issued
<1> QED BY <1>1, Invariance, PTL

\* A session never has two refresh tokens, however many requests refresh at
\* once.
THEOREM RotationIsExclusive == Spec => []OneRefreshToken
<1>1. IInv => OneRefreshToken
    BY DEF IInv, OneRight
<1> QED BY <1>1, Invariance, PTL

\* An access token that a logout, a change, a suspension or a deletion ended
\* is never accepted again.
THEOREM EndedForGood == Spec => DeadStaysDead
<1>1. IInv /\ [Next]_vars => [\A i \in Issued : Dead(i) => Dead(i)']_vars
    <2> SUFFICES ASSUME IInv, Next, NEW i \in Issued, Dead(i) PROVE Dead(i)'
        BY DEF Dead, vars, account, tokens
    <2> USE DEF Dead
    <2>1. Types' /\ Types
        BY TypesStep DEF IInv
    <2>2. CASE i \in revoked \cup expired
        BY <2>2
           DEF Next, Login, Issue, RefreshGet, RefreshDelete, RefreshUser,
               LogoutRevoke, LogoutDelete, Update, SyncMarker, Fail, UpdateRoles,
               Delete, AccessExpires, RevocationExpires, RefreshExpires,
               MarkerExpires, tokens
    <2>3. issuedAt'[i] = issuedAt[i]
        BY DEF Issued, Types, IInv, Next, Login, Issue, RefreshGet, RefreshDelete,
               RefreshUser, LogoutRevoke, LogoutDelete, Update, SyncMarker, Fail,
               UpdateRoles, Delete, AccessExpires, RevocationExpires,
               RefreshExpires, MarkerExpires, tokens
    <2>4. \/ status' = status /\ version' = version
          \/ status # "deleted" /\ version' = version + 1
          \/ status' = status /\ version' = version + 1
          \/ status' = "deleted"
        BY DEF Next, Login, Issue, RefreshGet, RefreshDelete, RefreshUser,
               LogoutRevoke, LogoutDelete, Update, SyncMarker, Fail, UpdateRoles,
               Delete, AccessExpires, RevocationExpires, RefreshExpires,
               MarkerExpires, EndSessions, account
    <2>5. issuedAt[i] <= version /\ issuedAt[i] \in Nat /\ version \in Nat
        BY <2>1 DEF Types, Issued
    <2> QED BY <2>2, <2>3, <2>4, <2>5
<1> QED BY <1>1, Invariance, PTL DEF Spec, DeadStaysDead

=============================================================================
