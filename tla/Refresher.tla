----------------------------- MODULE Refresher -----------------------------
(***************************************************************************)
(* The client's half of a session (packages/sdk: createRefresher, the      *)
(* token store and the logout of createApi): the tabs of one browser that  *)
(* share the refresh cookie, or the windows of a native shell that share   *)
(* its secure store, against an endpoint that rotates the refresh token    *)
(* (auth.controller.ts).                                                   *)
(*                                                                         *)
(* Each step is the code between two awaits.  A request may be served      *)
(* after its timer aborted it, an answer may never arrive, a tab may be    *)
(* reloaded anywhere, and the secure store may fail.  Calls of one tab     *)
(* that wait for the same refresh are one here.                            *)
(*                                                                         *)
(* Abstracted: the access tokens but for being held, and the steps of a    *)
(* rotation (module Sessions has them).  The session begins with a login   *)
(* before the first step.                                                  *)
(***************************************************************************)
EXTENDS Integers

CONSTANTS
    Tabs,
    MaxRefreshes    \* bound on refreshes started

None == 0           \* no token
Nobody == "nobody"

RefresherAssumption == Nobody \notin Tabs /\ MaxRefreshes \in Nat

VARIABLES
    native,     \* is there a SecureTokenStore?
    locks,      \* does the Web Locks API exist?
    records,    \* refresh tokens the server has a record of
    jar,        \* the token in the cookie or the store, or None
    access,     \* tabs that hold an access token
    holder,     \* the tab that holds the lock, or Nobody
    pc,         \* per tab: "idle", "lock", "send", "answer", "body", "keep",
                \*   "end"
    sent,       \* per tab: the token its request presents
    answer,     \* per tab: "none", "ok", "empty", "refused", "error"
    fresh,      \* per tab: the token its answer carries
    orphans,    \* tokens of requests given up before they were served
    logout,     \* per tab: its logout: "idle", "sent", "served"
    revoke,     \* the token the logout names
    told,       \* tabs the 'logout' message is on its way to
    ended,      \* has the server answered a logout?
    raced,      \* ... while a refresh had its request out
    lost,       \* was a request or answer lost, or the server failing?
    broken,     \* did the secure store fail?
    starts      \* refreshes started

setting == <<native, locks>>
refresh == <<holder, pc, sent, answer, fresh>>
logouts == <<logout, revoke, told, ended, raced>>
faults == <<lost, broken>>
vars == <<setting, records, jar, access, refresh, orphans, logouts, faults, starts>>

Init ==
    /\ native \in BOOLEAN /\ locks \in BOOLEAN
    /\ records = {1} /\ jar = 1 /\ access = {}
    /\ holder = Nobody
    /\ pc = [t \in Tabs |-> "idle"]
    /\ sent = [t \in Tabs |-> None]
    /\ answer = [t \in Tabs |-> "none"]
    /\ fresh = [t \in Tabs |-> None]
    /\ orphans = {}
    /\ logout = [t \in Tabs |-> "idle"] /\ revoke = None /\ told = {}
    /\ ended = FALSE /\ raced = FALSE
    /\ lost = FALSE /\ broken = FALSE
    /\ starts = 0

Go(t, where) == pc' = [pc EXCEPT ![t] = where]

\* The promise settles: inFlight is cleared and the lock is free.
Settle(t) ==
    /\ Go(t, "idle")
    /\ holder' = IF holder = t THEN Nobody ELSE holder
    /\ sent' = [sent EXCEPT ![t] = None]
    /\ answer' = [answer EXCEPT ![t] = "none"]
    /\ fresh' = [fresh EXCEPT ![t] = None]

-----------------------------------------------------------------------------
(* A refresh.                                                              *)

\* After a 401, or at the start of the app (restoreSession).
Refresh(t) ==
    /\ pc[t] = "idle" /\ starts < MaxRefreshes
    /\ starts' = starts + 1
    /\ Go(t, IF locks THEN "lock" ELSE "send")
    /\ UNCHANGED <<setting, records, jar, access, holder, sent, answer, fresh,
                   orphans, logouts, faults>>

\* Bug: no lock; each tab has a single flight of its own.
BugLockNone(t) ==
    /\ pc[t] = "lock"
    /\ Go(t, "send")
    /\ UNCHANGED <<setting, records, jar, access, holder, sent, answer, fresh,
                   orphans, logouts, faults, starts>>

\* locks.request
Lock(t) ==
    /\ pc[t] = "lock" /\ holder = Nobody
    /\ holder' = t
    /\ Go(t, "send")
    /\ UNCHANGED <<setting, records, jar, access, sent, answer, fresh, orphans,
                   logouts, faults, starts>>

\* The request leaves with the cookie, or with what store.get answered; a
\* store that fails counts as one that holds nothing.
Send(t) ==
    /\ pc[t] = "send"
    /\ \/ /\ ~native \/ jar # None
          /\ sent' = [sent EXCEPT ![t] = jar]
          /\ Go(t, "answer")
          /\ UNCHANGED broken
       \/ /\ native /\ jar = None
          /\ Go(t, "end")
          /\ UNCHANGED <<sent, broken>>
       \/ /\ native
          /\ Go(t, "end")
          /\ broken' = TRUE
          /\ UNCHANGED sent
    /\ UNCHANGED <<setting, records, jar, access, holder, answer, fresh, orphans,
                   logouts, lost, starts>>

\* The endpoint rotates a token it has a record of.
Serve(t) ==
    /\ pc[t] = "answer" /\ answer[t] = "none"
    /\ IF sent[t] \in records
         THEN /\ fresh' = [fresh EXCEPT ![t] = starts + 1]
              /\ records' = (records \ {sent[t]}) \cup {fresh'[t]}
              /\ answer' = [answer EXCEPT ![t] = "ok"]
         ELSE /\ answer' = [answer EXCEPT ![t] = IF sent[t] = None THEN "empty" ELSE "refused"]
              /\ UNCHANGED <<fresh, records>>
    /\ UNCHANGED <<setting, jar, access, holder, pc, sent, orphans, logouts, faults, starts>>

\* A store of the server is out, before or after the record was deleted.
ServeFails(t) ==
    /\ pc[t] = "answer" /\ answer[t] = "none"
    /\ answer' = [answer EXCEPT ![t] = "error"]
    /\ records' \in {records, records \ {sent[t]}}
    /\ lost' = TRUE
    /\ UNCHANGED <<setting, jar, access, holder, pc, sent, fresh, orphans, logouts,
                   broken, starts>>

\* A request nobody waits for is served all the same.
ServeOrphan ==
    /\ \E token \in orphans :
           /\ orphans' = orphans \ {token}
           /\ records' = records \ {token}
    /\ UNCHANGED <<setting, jar, access, refresh, logouts, faults, starts>>

\* The headers arrive: the browser keeps the cookie or, of a 401, drops it.
Arrive(t) ==
    /\ pc[t] = "answer" /\ answer[t] # "none"
    /\ jar' = IF native THEN jar
              ELSE CASE answer[t] = "ok" -> fresh[t]
                     [] answer[t] = "refused" -> None
                     [] OTHER -> jar
    /\ CASE answer[t] = "ok" -> Go(t, "body") /\ UNCHANGED <<holder, sent, answer, fresh>>
         [] answer[t] = "error" -> Settle(t)
         [] OTHER -> Go(t, "end") /\ UNCHANGED <<holder, sent, answer, fresh>>
    /\ UNCHANGED <<setting, records, access, orphans, logouts, faults, starts>>

GivenUp(t) == IF answer[t] = "none" THEN orphans \cup {sent[t]} ELSE orphans

\* The timer aborts the fetch; the session may still be valid.
Abort(t) ==
    /\ pc[t] = "answer"
    /\ orphans' = GivenUp(t)
    /\ lost' = TRUE
    /\ Settle(t)
    /\ UNCHANGED <<setting, records, jar, access, logouts, broken, starts>>

\* The body, which no timer watches: post() cleared its own when the headers
\* came.  A body that breaks off reads as one without a token.
BodyArrives(t) ==
    /\ pc[t] = "body"
    /\ Go(t, "keep")
    /\ UNCHANGED <<setting, records, jar, access, holder, sent, answer, fresh,
                   orphans, logouts, faults, starts>>

BodyFails(t) ==
    /\ pc[t] = "body"
    /\ Go(t, "end")
    /\ lost' = TRUE
    /\ UNCHANGED <<setting, records, jar, access, holder, sent, answer, fresh,
                   orphans, logouts, broken, starts>>

Body(t) == BodyArrives(t) \/ BodyFails(t)

\* Bug: a token that cannot be stored is returned all the same.
BugKeepUnstored(t) ==
    /\ pc[t] = "keep"
    /\ access' = access \cup {t}
    /\ Settle(t)
    /\ \/ native /\ jar' = fresh[t] /\ UNCHANGED broken
       \/ ~native /\ UNCHANGED <<jar, broken>>
       \/ native /\ broken' = TRUE /\ UNCHANGED jar
    /\ UNCHANGED <<setting, records, orphans, logouts, lost, starts>>

\* store.set, when there is a store, then setToken.
Keep(t) ==
    /\ pc[t] = "keep"
    /\ \/ /\ jar' = IF native THEN fresh[t] ELSE jar
          /\ access' = access \cup {t}
          /\ Settle(t)
          /\ UNCHANGED broken
       \/ /\ native
          /\ broken' = TRUE
          /\ Go(t, "end")
          /\ UNCHANGED <<jar, access, holder, sent, answer, fresh>>
    /\ UNCHANGED <<setting, records, orphans, logouts, lost, starts>>

\* endSession
End(t) ==
    /\ pc[t] = "end"
    /\ \/ jar' = (IF native THEN None ELSE jar) /\ UNCHANGED broken
       \/ native /\ broken' = TRUE /\ UNCHANGED jar
    /\ access' = access \ {t}
    /\ Settle(t)
    /\ UNCHANGED <<setting, records, orphans, logouts, lost, starts>>

\* The tab is reloaded or closed in the middle.
Reload(t) ==
    /\ pc[t] # "idle"
    /\ orphans' = IF pc[t] = "answer" THEN GivenUp(t) ELSE orphans
    /\ lost' = (lost \/ pc[t] \in {"answer", "body", "keep"})
    /\ access' = access \ {t}
    /\ told' = told \ {t}
    /\ logout' = [logout EXCEPT ![t] = "idle"]
    /\ Settle(t)
    /\ UNCHANGED <<setting, records, jar, revoke, ended, raced, broken, starts>>

-----------------------------------------------------------------------------
(* logout of api.ts, once.                                                 *)

LogOut(t) ==
    /\ logout[t] = "idle" /\ revoke = None /\ jar # None
    /\ logout' = [logout EXCEPT ![t] = "sent"]
    /\ revoke' = jar
    /\ UNCHANGED <<setting, records, jar, access, refresh, orphans, told, ended, raced,
                   faults, starts>>

LogOutServed(t) ==
    /\ logout[t] = "sent"
    /\ logout' = [logout EXCEPT ![t] = "served"]
    /\ records' = records \ {revoke}
    /\ UNCHANGED <<setting, jar, access, refresh, orphans, revoke, told, ended, raced,
                   faults, starts>>

Cleared(t) ==
    /\ access' = access \ {t}
    /\ told' = Tabs \ {t}
    /\ logout' = [logout EXCEPT ![t] = "idle"]

\* The answer clears the cookie; a store is cleared, if it can be.
LoggedOut(t) ==
    /\ logout[t] = "served"
    /\ \/ jar' = None /\ UNCHANGED broken
       \/ native /\ broken' = TRUE /\ UNCHANGED jar
    /\ Cleared(t)
    /\ ended' = TRUE
    /\ raced' = \E u \in Tabs : pc[u] \in {"answer", "body", "keep"}
    /\ UNCHANGED <<setting, records, refresh, orphans, revoke, lost, starts>>

\* No answer: the tab forgets its token, and the cookie stays.
LogOutFails(t) ==
    /\ logout[t] # "idle"
    /\ jar' \in {jar} \cup (IF native THEN {None} ELSE {})
    /\ Cleared(t)
    /\ lost' = TRUE
    /\ UNCHANGED <<setting, records, refresh, orphans, revoke, ended, raced, broken, starts>>

\* The message arrives: clearToken.
Told(t) ==
    /\ t \in told
    /\ told' = told \ {t}
    /\ access' = access \ {t}
    /\ UNCHANGED <<setting, records, jar, refresh, orphans, logout, revoke, ended, raced,
                   faults, starts>>

-----------------------------------------------------------------------------

Run(t) == Lock(t) \/ Send(t) \/ Arrive(t) \/ Abort(t) \/ Keep(t) \/ End(t)

LoggingOut(t) ==
    LogOut(t) \/ LogOutServed(t) \/ LoggedOut(t) \/ LogOutFails(t) \/ Told(t)

Next ==
    \/ ServeOrphan
    \/ \E t \in Tabs :
           \/ Refresh(t) \/ Run(t) \/ Body(t)
           \/ Serve(t) \/ ServeFails(t) \/ Reload(t) \/ LoggingOut(t)

\* Calls of the store settle and timers fire; the server need not answer, and
\* a body need not end.
Fairness == \A t \in Tabs : WF_vars(Run(t))

Spec == Init /\ [][Next]_vars /\ Fairness

-----------------------------------------------------------------------------
(* The properties.                                                         *)

\* Every variable holds a value the code can give it: the lock is held by a
\* tab inside run(), and by nobody else.
TypeOK ==
    /\ native \in BOOLEAN /\ locks \in BOOLEAN
    /\ records \subseteq 1..MaxRefreshes + 1 /\ jar \in 0..MaxRefreshes + 1
    /\ access \subseteq Tabs /\ told \subseteq Tabs
    /\ holder \in Tabs \cup {Nobody}
    /\ pc \in [Tabs -> {"idle", "lock", "send", "answer", "body", "keep", "end"}]
    /\ \A t \in Tabs : holder = t => locks /\ pc[t] \notin {"idle", "lock"}
    /\ sent \in [Tabs -> 0..MaxRefreshes + 1] /\ fresh \in [Tabs -> 0..MaxRefreshes + 1]
    /\ answer \in [Tabs -> {"none", "ok", "empty", "refused", "error"}]
    /\ orphans \subseteq 0..MaxRefreshes + 1
    /\ logout \in [Tabs -> {"idle", "sent", "served"}]
    /\ {ended, raced, lost, broken} \subseteq BOOLEAN
    /\ starts \in 0..MaxRefreshes

\* "Two tabs never present the same rotating cookie at once": with the lock,
\* no overlap of refreshes in any number of tabs ends the session.
SessionSurvives ==
    locks /\ ~lost /\ ~broken /\ revoke = None => \A t \in Tabs : pc[t] # "end"

\* A refresh that gives its tab an access token leaves the browser with a
\* refresh token the server knows, so the next one can succeed, also when the
\* secure store fails.
GivenIsRefreshable ==
    [][\A t \in Tabs :
           t \in access' \ access /\ locks /\ ~lost' /\ revoke' = None
               => jar' \in records']_vars

Idle(t) == pc[t] = "idle"
\* Waits for a body, or for the lock of a tab that does.
Stuck(t) ==
    \/ pc[t] = "body"
    \/ pc[t] = "lock" /\ holder # Nobody /\ pc[holder] = "body"

\* "Abort a refresh that does not answer, so the cross-tab lock is released":
\* every call of the refresher answers, and no tab waits for the lock of another
\* forever, but for answers whose headers came and whose body never ends.
RefreshAnswers == \A t \in Tabs : []<>(Idle(t) \/ Stuck(t))

Gone == access = {} /\ jar \notin records

\* "Revokes the session server-side, then clears it locally and in other
\* tabs": once the message is out, if no refresh had its request out then.
LogoutEndsSession == ended /\ told = {} /\ ~raced /\ ~broken => Gone

\* The same of any logout the server answered, in a browser.
LogoutFinal == ended /\ told = {} /\ ~native => Gone

=============================================================================
