------------------------------ MODULE Accounts ------------------------------
(* The accounts of a tenant, the sign-ins that make and use them and the   *)
(* page that shows them, in one model: a behaviour is one part's and the   *)
(* others rest in their initial states.                                    *)
EXTENDS Users

CONSTANTS
    Identities, Addresses, Callbacks, Exchanges, MaxUsers,      \* OAuthSignIn
    Old, New, MaxFaults,                                        \* UserList
    Callers, Sockets, MaxTries,                                 \* RealtimeClient
    Urls, MaxReloads                                            \* NativeCallback

VARIABLES
    part,
    \* OAuthSignIn
    made, acct, active, callbackPc, who, mail, user, code, at, of, right, result,
    \* UserList
    server, list, fetch, answer, creating, prev, muddled, deleting, outdated, late, failures,
    \* RealtimeClient
    listeners, socket, conn, tries, attached, signedIn,
    \* NativeCallback
    delivered, slot, announced, events, sub, taken, seen, page, exchanged, missed, reloads

SignIn == INSTANCE OAuthSignIn WITH Emails <- Addresses, pc <- callbackPc

List == INSTANCE UserList WITH stale <- outdated, faults <- failures

Realtime == INSTANCE RealtimeClient

Native == INSTANCE NativeCallback

ASSUME PartsAssumption ==
    /\ SignIn!SignInAssumption /\ List!ListAssumption
    /\ Realtime!RealtimeAssumption /\ Native!NativeAssumption

signInVars == <<made, acct, active, callbackPc, who, mail, user, code, at, of, right, result>>
listVars == <<server, list, fetch, answer, creating, prev, muddled, deleting, outdated, late,
              failures>>
socketVars == <<listeners, socket, conn, tries, attached, signedIn>>
nativeVars == <<delivered, slot, announced, events, sub, taken, seen, page, exchanged, missed,
                reloads>>
pageVars == <<listVars, socketVars, nativeVars>>
partVars == <<part, vars, signInVars, pageVars>>

PartsInit ==
    /\ part \in {"users", "signIn", "list", "realtime", "native"}
    /\ Init /\ SignIn!Init /\ List!Init /\ Realtime!Init /\ Native!Init

OnUsers(A) == part = "users" /\ A /\ UNCHANGED <<part, signInVars, pageVars>>
OnSignIn(A) == part = "signIn" /\ A /\ UNCHANGED <<part, vars, pageVars>>
OnList(A) ==
    part = "list" /\ A /\ UNCHANGED <<part, vars, signInVars, socketVars, nativeVars>>
OnRealtime(A) ==
    part = "realtime" /\ A /\ UNCHANGED <<part, vars, signInVars, listVars, nativeVars>>
OnNative(A) ==
    part = "native" /\ A /\ UNCHANGED <<part, vars, signInVars, listVars, socketVars>>

PartsNext ==
    \/ OnUsers(Next) \/ OnSignIn(SignIn!Next)
    \/ OnList(List!Next) \/ OnRealtime(Realtime!Next) \/ OnNative(Native!Next)

PartsSpec == PartsInit /\ [][PartsNext]_partVars

-----------------------------------------------------------------------------
(* The properties of the instances, by the names they have there.          *)

\* The type invariants; and a stored response is a created user's.
TypesOK ==
    /\ TypeOK /\ StoredWasCreated /\ SignIn!TypeOK
    /\ List!TypeOK /\ Realtime!TypeOK /\ Native!TypeOK
\* The tokens of a sign-in are those of an account its identity made, and one
\* exchange of a code gets as far as the comparison.
TokensOfItsOwn == SignIn!TokensOfItsOwn /\ SignIn!OneAttempt
\* The page's list shows the users there are, its socket serves those who
\* listen and nobody else, and a callback that comes is exchanged.
PageInStep ==
    /\ List!ListInStep
    /\ Realtime!NoOrphan /\ Realtime!ListenersKeepSocket
    /\ Native!CodeArrives /\ Native!OncePerPage

=============================================================================
