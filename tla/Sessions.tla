------------------------------ MODULE Sessions ------------------------------
(***************************************************************************)
(* The sessions of one account: login, refresh and logout                  *)
(* (auth.service.ts), the check of an access token                         *)
(* (token-verifier.service.ts), and the account changes that end sessions  *)
(* (the user commands, user.repository.ts, user.service.ts).               *)
(*                                                                         *)
(* A Pair is an access token and the refresh token issued with it; both    *)
(* carry the account's token version.  The pairs that descend from one     *)
(* login by refreshes form its session, named by the login's pair.         *)
(* Requests run at the same time, each in the store calls the code awaits; *)
(* a request may fail or die between any two.                              *)
(*                                                                         *)
(* Abstracted: signatures and hashes, the tenant's own status, the         *)
(* lockout, the last-admin check (a refused request changes nothing here), *)
(* and the SESSION_KEY record, which nothing decides with.  Whoever once   *)
(* received a token may present it at any time, several times.             *)
(***************************************************************************)
EXTENDS Integers

LOCAL INSTANCE TLC

CONSTANTS Requests, Pairs,
    MaxVersion,         \* bounds the changes that end sessions
    RequestsFail        \* may a request stop half-way?

ASSUME VersionAssumption == MaxVersion \in Nat
ASSUME FailAssumption == RequestsFail \in BOOLEAN

None == "none"
ASSUME NamesAssumption == None \notin Pairs

\* Requests are interchangeable, and so are pairs.
SessionSymmetry == Permutations(Requests) \cup Permutations(Pairs)

VARIABLES
    status,     \* "active", "inactive" or, once deletedAt is set, "deleted"
    version,    \* tokenVersion
    marker,     \* is ACCOUNT_SUSPENDED_KEY set?
    session,    \* per pair: its session, or None before it is issued
    issuedAt,   \* per pair: the tv in its access token and refresh record
    refresh,    \* the pairs with a REFRESH_TOKEN_KEY record
    revoked,    \* the pairs with a TOKEN_REVOKED_KEY
    expired,    \* the pairs whose access token is past its exp
    pc,         \* per request: the store call it makes next
    from,       \* per request: the pair it was given, or None
    tv,         \* per request: the token version it has read
    said        \* per request: the status its update answered with

account == <<status, version>>
tokens == <<session, issuedAt, refresh, revoked, expired>>
requests == <<pc, from, tv, said>>
vars == <<account, marker, tokens, requests>>

Statuses == {"active", "inactive"}
Calls == {"idle", "delete", "user", "issue", "logout", "sync"}

Init ==
    /\ status = "active" /\ version = 0 /\ marker = FALSE
    /\ session = [i \in Pairs |-> None]
    /\ issuedAt = [i \in Pairs |-> 0]
    /\ refresh = {} /\ revoked = {} /\ expired = {}
    /\ pc = [r \in Requests |-> "idle"]
    /\ from = [r \in Requests |-> None]
    /\ tv = [r \in Requests |-> 0]
    /\ said = [r \in Requests |-> "active"]

Issued == {i \in Pairs : session[i] # None}

\* What the verifier answers for the access token of pair i.  It reads the
\* four stores at once, not atomically; by DeadStaysDead a token it accepts
\* was good when the first read ran, but for the marker.
Accepts(i) ==
    /\ i \in Issued \ (revoked \cup expired)
    /\ ~marker
    /\ status = "active" /\ issuedAt[i] = version

-----------------------------------------------------------------------------
(* Requests of the auth endpoints.                                         *)

\* The request is over.
Done(r) ==
    /\ pc' = [pc EXCEPT ![r] = "idle"]
    /\ from' = [from EXCEPT ![r] = None]
    /\ tv' = [tv EXCEPT ![r] = 0]
    /\ said' = [said EXCEPT ![r] = "active"]

\* authenticate: the password is right and the account active.
Login(r) ==
    /\ pc[r] = "idle"
    /\ status = "active"
    /\ tv' = [tv EXCEPT ![r] = version]
    /\ pc' = [pc EXCEPT ![r] = "issue"]
    /\ UNCHANGED <<account, marker, tokens, from, said>>

\* issueTokenPair: sign the access token, store the refresh token's record.
\* A refreshed pair continues the session of the old one.
Issue(r) ==
    /\ pc[r] = "issue"
    /\ \E i \in Pairs \ Issued :
           /\ session' = [session EXCEPT ![i] =
                             IF from[r] = None THEN i ELSE session[from[r]]]
           /\ issuedAt' = [issuedAt EXCEPT ![i] = tv[r]]
           /\ refresh' = refresh \cup {i}
    /\ Done(r)
    /\ UNCHANGED <<account, marker, revoked, expired>>

StoredVersion(i) == IF i \in refresh THEN issuedAt[i] ELSE 0

\* refresh: read the record,
RefreshGet(r) ==
    /\ pc[r] = "idle"
    /\ \E i \in Issued :
           /\ from' = [from EXCEPT ![r] = i]
           /\ tv' = [tv EXCEPT ![r] = StoredVersion(i)]
    /\ pc' = [pc EXCEPT ![r] = "delete"]
    /\ UNCHANGED <<account, marker, tokens, said>>

\* Bug: rotation does not look at what del() reported.
BugRefreshDeleteAnyway(r) ==
    /\ pc[r] = "delete"
    /\ refresh' = refresh \ {from[r]}
    /\ pc' = [pc EXCEPT ![r] = "user"]
    /\ UNCHANGED <<account, marker, session, issuedAt, revoked, expired, from, tv, said>>

\* delete it, and stop if it was not there any more,
RefreshDelete(r) ==
    /\ pc[r] = "delete"
    /\ IF from[r] \in refresh
         THEN /\ refresh' = refresh \ {from[r]}
              /\ pc' = [pc EXCEPT ![r] = "user"]
              /\ UNCHANGED <<from, tv, said>>
         ELSE Done(r) /\ UNCHANGED refresh
    /\ UNCHANGED <<account, marker, session, issuedAt, revoked, expired>>

\* Bug: the record's version is not compared; the new pair gets the current one.
BugRefreshUserAnyVersion(r) ==
    /\ pc[r] = "user"
    /\ IF status = "active"
         THEN /\ pc' = [pc EXCEPT ![r] = "issue"]
              /\ tv' = [tv EXCEPT ![r] = version]
              /\ UNCHANGED <<from, said>>
         ELSE Done(r)
    /\ UNCHANGED <<account, marker, tokens>>

\* then read the account, which must be active and still at that version.
RefreshUser(r) ==
    /\ pc[r] = "user"
    /\ IF status = "active" /\ tv[r] = version
         THEN pc' = [pc EXCEPT ![r] = "issue"] /\ UNCHANGED <<from, tv, said>>
         ELSE Done(r)
    /\ UNCHANGED <<account, marker, tokens>>

\* logout: revoke the access token, if one came along, verified (some time
\* before) and has not expired,
LogoutRevoke(r) ==
    /\ pc[r] = "idle"
    /\ \E i \in Issued :
           /\ from' = [from EXCEPT ![r] = i]
           /\ \/ UNCHANGED revoked
              \/ \E a \in Issued \ expired : revoked' = revoked \cup {a}
    /\ pc' = [pc EXCEPT ![r] = "logout"]
    /\ UNCHANGED <<account, marker, session, issuedAt, refresh, expired, tv, said>>

\* then delete the refresh token's record.
LogoutDelete(r) ==
    /\ pc[r] = "logout"
    /\ refresh' = refresh \ {from[r]}
    /\ Done(r)
    /\ UNCHANGED <<account, marker, session, issuedAt, revoked, expired>>

-----------------------------------------------------------------------------
(* Changes of the account.                                                 *)

\* $inc tokenVersion, below the bound.
EndSessions == version < MaxVersion /\ version' = version + 1

\* Bug: a status change does not end the sessions.
BugUpdateStatusKeeps(r) ==
    /\ pc[r] = "idle"
    /\ status # "deleted"
    /\ \E s \in Statuses, credentials \in BOOLEAN :
           /\ status' = s
           /\ IF credentials THEN EndSessions ELSE UNCHANGED version
           /\ said' = [said EXCEPT ![r] = s]
    /\ pc' = [pc EXCEPT ![r] = "sync"]
    /\ UNCHANGED <<marker, tokens, from, tv>>

\* UpdateUserHandler's transaction: a patch that may change the credentials
\* (password or email), the status, or neither.
Update(r) ==
    /\ pc[r] = "idle"
    /\ status # "deleted"
    /\ \E s \in Statuses, credentials \in BOOLEAN :
           /\ status' = s
           /\ IF credentials \/ s # status THEN EndSessions ELSE UNCHANGED version
           /\ said' = [said EXCEPT ![r] = s]
    /\ pc' = [pc EXCEPT ![r] = "sync"]
    /\ UNCHANGED <<marker, tokens, from, tv>>

\* syncSuspensionMarker, from the update's answer.
SyncMarker(r) ==
    /\ pc[r] = "sync"
    /\ marker' = (said[r] # "active")
    /\ Done(r)
    /\ UNCHANGED <<account, tokens>>

\* UpdateRolesHandler.
UpdateRoles ==
    /\ status # "deleted"
    /\ EndSessions
    /\ UNCHANGED <<status, marker, tokens, requests>>

\* DeleteUserHandler.
Delete ==
    /\ status # "deleted"
    /\ status' = "deleted"
    /\ UNCHANGED <<version, marker, tokens, requests>>

-----------------------------------------------------------------------------
(* Failures and time.                                                      *)

\* A store call fails or the process dies: the request goes no further.
Fail(r) ==
    /\ RequestsFail
    /\ pc[r] # "idle"
    /\ Done(r)
    /\ UNCHANGED <<account, marker, tokens>>

AccessExpires(i) ==
    /\ i \in Issued \ expired
    /\ expired' = expired \cup {i}
    /\ UNCHANGED <<account, marker, session, issuedAt, refresh, revoked, requests>>

\* "Rounded up so the revocation never ends before the token."
RevocationExpires(i) ==
    /\ i \in revoked \cap expired
    /\ revoked' = revoked \ {i}
    /\ UNCHANGED <<account, marker, session, issuedAt, refresh, expired, requests>>

RefreshExpires(i) ==
    /\ i \in refresh
    /\ refresh' = refresh \ {i}
    /\ UNCHANGED <<account, marker, session, issuedAt, revoked, expired, requests>>

MarkerExpires ==
    /\ marker
    /\ marker' = FALSE
    /\ UNCHANGED <<account, tokens, requests>>

-----------------------------------------------------------------------------

Next ==
    \/ \E r \in Requests :
           \/ Login(r) \/ Issue(r)
           \/ RefreshGet(r) \/ RefreshDelete(r) \/ RefreshUser(r)
           \/ LogoutRevoke(r) \/ LogoutDelete(r)
           \/ Update(r) \/ SyncMarker(r)
           \/ Fail(r)
    \/ UpdateRoles \/ Delete
    \/ \E i \in Pairs :
           AccessExpires(i) \/ RevocationExpires(i) \/ RefreshExpires(i)
    \/ MarkerExpires

Spec == Init /\ [][Next]_vars

-----------------------------------------------------------------------------
(* The properties.                                                         *)

\* Every variable holds a value the code can give it; no token is ahead of
\* the account's token version.
TypeOK ==
    /\ status \in Statuses \cup {"deleted"}
    /\ version \in 0..MaxVersion
    /\ marker \in BOOLEAN
    /\ session \in [Pairs -> Pairs \cup {None}]
    /\ issuedAt \in [Pairs -> 0..version]
    /\ refresh \subseteq Issued /\ revoked \subseteq Issued /\ expired \subseteq Issued
    /\ pc \in [Requests -> Calls]
    /\ from \in [Requests -> Pairs \cup {None}]
    /\ tv \in [Requests -> 0..version]
    /\ said \in [Requests -> Statuses]

\* Can the refresh token of pair i be traded for a new pair?
Refreshes(i) == status = "active" /\ i \in refresh /\ issuedAt[i] = version

\* "A password, email, role or status change ends every earlier session": a
\* token that still opens anything belongs to a session whose login saw the
\* account as it is now.
SessionsEndOnChange ==
    \A i \in Issued :
        Accepts(i) \/ Refreshes(i) => issuedAt[session[i]] = version

\* "Two concurrent refreshes cannot both succeed": a session never has two
\* refresh tokens.
OneRefreshToken ==
    \A i, j \in refresh : session[i] = session[j] => i = j

\* Does pair i's access token fail for good reason (not for a stale marker)?
Dead(i) ==
    \/ i \in revoked \cup expired
    \/ status # "active"
    \/ issuedAt[i] # version

\* A logout, a suspension, a deletion and a change of credentials or roles are
\* final for the access tokens they end: no later step, a reactivation
\* included, brings one back.
DeadStaysDead == [][\A i \in Issued : Dead(i) => Dead(i)']_vars

\* "Keeps the account-suspended marker in step with the record": once no
\* update is on its way, an account that is marked is not active.
MarkerInStep ==
    (\A r \in Requests : pc[r] # "sync") => (marker => status # "active")

=============================================================================
