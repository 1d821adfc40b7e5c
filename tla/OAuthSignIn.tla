---------------------------- MODULE OAuthSignIn ----------------------------
(***************************************************************************)
(* The sign-in through a provider (oauth.service.ts): callbacks that find  *)
(* or create the account of a provider identity and leave a one-time code  *)
(* in the KV store, and exchanges that trade a code for tokens; against    *)
(* password sign-ups, deactivations and deletions of the same accounts.    *)
(*                                                                         *)
(* Each step is one call to a store.  The create-user command is one step  *)
(* here (module Users): it makes the account or answers that the e-mail is *)
(* taken.  An identity's e-mail is what the provider says at the time.     *)
(*                                                                         *)
(* Abstracted: the tenant's own status, the sign-up policy, the signed     *)
(* state of the redirect, and what a verifier and a challenge are.         *)
(***************************************************************************)
EXTENDS Integers, FiniteSets

CONSTANTS
    Identities,     \* accounts at the provider
    Emails,         \* as the user schema stores and looks them up
    Callbacks,      \* sign-ins that reach the provider's callback
    Exchanges,      \* requests that present a code
    MaxUsers        \* bound on accounts made

UserIds == 1..MaxUsers
Nobody == 0
Password == "password"

SignInAssumption == MaxUsers \in Nat

VARIABLES
    made,       \* per account: who made it, an identity or Password
    acct,       \* per e-mail: the live account that holds it, or Nobody
    active,     \* accounts whose status is ACTIVE
    pc,         \* per callback: "idle", or the call it makes next, or "done"
    who,        \* per callback: the identity of its profile
    mail,       \* per callback: the e-mail of its profile
    user,       \* per callback: the account it signs in, or Nobody
    code,       \* per callback: its code: "none", "live", "gone"
    at,         \* per exchange: "idle", "get", "del", "check", "user", "done"
    of,         \* per exchange: the callback whose code it presents
    right,      \* exchanges whose verifier and client match the code
    result      \* per exchange: "none", "refused", "wrong", "tokens"

accounts == <<made, acct, active>>
callback == <<pc, who, mail, user>>
exchange == <<at, of, right, result>>
vars == <<accounts, callback, code, exchange>>

Init ==
    /\ made = << >> /\ acct = [e \in Emails |-> Nobody] /\ active = {}
    /\ pc = [c \in Callbacks |-> "idle"]
    /\ who \in [Callbacks -> Identities] /\ mail \in [Callbacks -> Emails]
    /\ user = [c \in Callbacks |-> Nobody]
    /\ code = [c \in Callbacks |-> "none"]
    /\ at = [x \in Exchanges |-> "idle"]
    /\ of \in [Exchanges -> Callbacks] /\ right \in SUBSET Exchanges
    /\ result = [x \in Exchanges |-> "none"]

Live(id) == \E e \in Emails : acct[e] = id

\* The create-user command, with a free e-mail.
Make(e, by) ==
    /\ DOMAIN made # UserIds
    /\ LET id == Cardinality(DOMAIN made) + 1
       IN  /\ made' = [i \in 1..id |-> IF i = id THEN by ELSE made[i]]
           /\ acct' = [acct EXCEPT ![e] = id]
           /\ active' = active \cup {id}

-----------------------------------------------------------------------------
(* findOrCreate and signIn.                                                *)

Go(c, where) == pc' = [pc EXCEPT ![c] = where]

Redirected(c) ==
    /\ pc[c] = "idle"
    /\ Go(c, "find")
    /\ UNCHANGED <<accounts, who, mail, user, code, exchange>>

\* findByProvider; an inactive account is refused.
Find(c) ==
    /\ pc[c] = "find"
    /\ LET mine == {id \in DOMAIN made : made[id] = who[c] /\ Live(id)}
       IN  IF mine = {} THEN Go(c, "email") /\ UNCHANGED user
           ELSE \E id \in mine :
                    IF id \in active
                      THEN Go(c, "code") /\ user' = [user EXCEPT ![c] = id]
                      ELSE Go(c, "done") /\ UNCHANGED user
    /\ UNCHANGED <<accounts, who, mail, code, exchange>>

\* findByEmailWithPassword: any account refuses the sign-in.
FindEmail(c) ==
    /\ pc[c] = "email"
    /\ Go(c, IF acct[mail[c]] = Nobody THEN "create" ELSE "done")
    /\ UNCHANGED <<accounts, who, mail, user, code, exchange>>

\* Bug: the account that has the e-mail by now is signed in.
BugCreateLinks(c) ==
    /\ pc[c] = "create"
    /\ IF acct[mail[c]] = Nobody
         THEN Make(mail[c], who[c]) /\ user' = [user EXCEPT ![c] = acct'[mail[c]]]
         ELSE user' = [user EXCEPT ![c] = acct[mail[c]]] /\ UNCHANGED accounts
    /\ Go(c, "code")
    /\ UNCHANGED <<who, mail, code, exchange>>

\* signUpWithProvider: the account is made, or the e-mail is taken by now.
Create(c) ==
    /\ pc[c] = "create"
    /\ IF acct[mail[c]] = Nobody
         THEN /\ Make(mail[c], who[c])
              /\ user' = [user EXCEPT ![c] = acct'[mail[c]]]
              /\ Go(c, "created")
         ELSE Go(c, "done") /\ UNCHANGED <<accounts, user>>
    /\ UNCHANGED <<who, mail, code, exchange>>

\* It is read again: deleted or inactive by now, it is refused.
ReadCreated(c) ==
    /\ pc[c] = "created"
    /\ Go(c, IF Live(user[c]) /\ user[c] \in active THEN "code" ELSE "done")
    /\ UNCHANGED <<accounts, who, mail, user, code, exchange>>

\* signIn stores the code.
MakeCode(c) ==
    /\ pc[c] = "code"
    /\ code' = [code EXCEPT ![c] = "live"]
    /\ Go(c, "done")
    /\ UNCHANGED <<accounts, who, mail, user, exchange>>

CodeExpires(c) ==
    /\ code[c] = "live"
    /\ code' = [code EXCEPT ![c] = "gone"]
    /\ UNCHANGED <<accounts, callback, exchange>>

-----------------------------------------------------------------------------
(* exchange.                                                               *)

To(x, where) == at' = [at EXCEPT ![x] = where]

Ends(x, how) == To(x, "done") /\ result' = [result EXCEPT ![x] = how]

Present(x) ==
    /\ at[x] = "idle" /\ code[of[x]] # "none"
    /\ To(x, "get")
    /\ UNCHANGED <<accounts, callback, code, of, right, result>>

\* kv.get
Get(x) ==
    /\ at[x] = "get"
    /\ IF code[of[x]] = "live" THEN To(x, "del") /\ UNCHANGED result ELSE Ends(x, "refused")
    /\ UNCHANGED <<accounts, callback, code, of, right>>

\* kv.del, which says whether it deleted the code.
Del(x) ==
    /\ at[x] = "del"
    /\ IF code[of[x]] = "live" THEN To(x, "check") /\ UNCHANGED result ELSE Ends(x, "refused")
    /\ code' = [code EXCEPT ![of[x]] = "gone"]
    /\ UNCHANGED <<accounts, callback, of, right>>

\* The verifier and the client are compared with the code's.
Check(x) ==
    /\ at[x] = "check"
    /\ IF x \in right THEN To(x, "user") /\ UNCHANGED result ELSE Ends(x, "wrong")
    /\ UNCHANGED <<accounts, callback, code, of, right>>

\* findByIdForAuth: a live and active account is issued its tokens.
ReadUser(x) ==
    /\ at[x] = "user"
    /\ IF Live(user[of[x]]) /\ user[of[x]] \in active
         THEN Ends(x, "tokens") ELSE Ends(x, "refused")
    /\ UNCHANGED <<accounts, callback, code, of, right>>

-----------------------------------------------------------------------------
(* The other users of the tenant.                                          *)

SignUp(e) ==
    /\ acct[e] = Nobody
    /\ Make(e, Password)
    /\ UNCHANGED <<callback, code, exchange>>

Deactivate(id) ==
    /\ id \in active
    /\ active' = active \ {id}
    /\ UNCHANGED <<made, acct, callback, code, exchange>>

Delete(e) ==
    /\ acct[e] # Nobody
    /\ acct' = [acct EXCEPT ![e] = Nobody]
    /\ UNCHANGED <<made, active, callback, code, exchange>>

-----------------------------------------------------------------------------

Callback(c) ==
    \/ Redirected(c) \/ Find(c) \/ FindEmail(c) \/ Create(c) \/ ReadCreated(c)
    \/ MakeCode(c) \/ CodeExpires(c)

Exchange(x) == Present(x) \/ Get(x) \/ Del(x) \/ Check(x) \/ ReadUser(x)

Next ==
    \/ \E c \in Callbacks : Callback(c)
    \/ \E x \in Exchanges : Exchange(x)
    \/ \E e \in Emails : SignUp(e) \/ Delete(e)
    \/ \E id \in UserIds : Deactivate(id)

Spec == Init /\ [][Next]_vars

-----------------------------------------------------------------------------
(* The properties.                                                         *)

\* Every variable holds a value the code can give it; a code stands for an
\* account, and nobody gets past the look-up of a code that was never made.
TypeOK ==
    /\ \E n \in 0..MaxUsers : made \in [1..n -> Identities \cup {Password}]
    /\ acct \in [Emails -> {Nobody} \cup DOMAIN made] /\ active \subseteq DOMAIN made
    /\ pc \in [Callbacks ->
                 {"idle", "find", "email", "create", "created", "code", "done"}]
    /\ who \in [Callbacks -> Identities] /\ mail \in [Callbacks -> Emails]
    /\ user \in [Callbacks -> {Nobody} \cup DOMAIN made]
    /\ code \in [Callbacks -> {"none", "live", "gone"}]
    /\ \A c \in Callbacks : code[c] # "none" => user[c] # Nobody
    /\ at \in [Exchanges -> {"idle", "get", "del", "check", "user", "done"}]
    /\ of \in [Exchanges -> Callbacks] /\ right \subseteq Exchanges
    /\ result \in [Exchanges -> {"none", "refused", "wrong", "tokens"}]
    /\ \A x \in Exchanges : at[x] = "done" <=> result[x] # "none"

\* "Linking would hand the account to whoever registered the address first":
\* whatever happens to the e-mail between the look-ups and the creation, the
\* tokens of a sign-in are those of an account its own identity made.
TokensOfItsOwn ==
    \A x \in Exchanges : result[x] = "tokens" => made[user[of[x]]] = who[of[x]]

\* "Trades a sign-in code, once", and "spent by the first attempt, right or
\* wrong, so its verifier cannot be guessed": of any number of exchanges of a
\* code at once, one gets as far as the comparison.
Compared(x) == at[x] \in {"check", "user"} \/ result[x] \in {"wrong", "tokens"}

OneAttempt ==
    \A x, y \in Exchanges : Compared(x) /\ Compared(y) /\ of[x] = of[y] => x = y

=============================================================================
