----------------------------- MODULE VaultToken -----------------------------
(***************************************************************************)
(* The Vault token of a process: VaultSecretsAdapter                       *)
(* (vault-secrets.adapter.ts), which logs in with an AppRole or takes a    *)
(* static token, extends the lease on an interval of a third of it, and    *)
(* logs in again when an AppRole's renewal fails, every 30 s until it has  *)
(* a client.                                                               *)
(*                                                                         *)
(* A token lives for its lease, which a renewal extends to RENEW_INCREMENT *)
(* or to what the token's maximum TTL leaves of it: near the maximum the   *)
(* leases get shorter than any interval (infra/vault/init.sh: token_ttl    *)
(* 1 h, token_max_ttl 4 h).  A request is answered or times out after 5 s, *)
(* so it is over before the next tick, and a timer fires on its tick.      *)
(*                                                                         *)
(* Abstracted: tokens without an end, and leases Vault does not report.  A *)
(* call in flight at onModuleDestroy may arm a timer after it, here as in  *)
(* the code.                                                               *)
(***************************************************************************)
EXTENDS Integers

CONSTANTS
    LoginLeases,    \* leases Vault grants with a login (token_ttl)
    StaticLeases,   \* what a static token has left when the process starts
    Lives,          \* maximum TTLs (token_max_ttl)
    Increment,      \* RENEW_INCREMENT
    Floor,          \* the shortest renewal interval, VAULT_RELOGIN_INTERVAL_MS
    MaxFaults       \* bound on outages and on refused calls

\* A new lease and an hour are longer than 30 s.
VaultAssumption ==
    /\ Floor \in Nat \ {0}
    /\ LoginLeases \cup {Increment} \subseteq {lease \in Nat : lease > Floor}
    /\ StaticLeases \cup Lives \subseteq Nat \ {0}
    /\ MaxFaults \in Nat

\* renewIntervalFor: a third of the lease, at least 30 s.
IntervalFor(lease) == IF lease \div 3 > Floor THEN lease \div 3 ELSE Floor

VARIABLES
    appRole,    \* is an AppRole configured, or a static token?
    up,         \* does Vault answer?
    client,     \* is there a client with a token?
    left,       \* what is left of the token's lease
    life,       \* what is left of its maximum TTL
    known,      \* was the lease granted to this adapter?
    every,      \* the interval of the renewals
    renewal,    \* the time to the next renewal
    relogin,    \* the time to the next login
    call,       \* the request in flight
    closed,     \* did onModuleDestroy run?
    faults

token == <<left, life, known>>
vars == <<appRole, up, client, token, every, renewal, relogin, call, closed, faults>>

Unarmed == -1
ReloginInterval == Floor

Smaller(a, b) == IF a < b THEN a ELSE b

Init ==
    /\ appRole \in BOOLEAN /\ up = TRUE
    /\ client = FALSE
    /\ life \in IF appRole THEN {0} ELSE Lives
    /\ left \in {Smaller(time, life) : time \in IF appRole THEN {0} ELSE StaticLeases}
    /\ known = FALSE
    /\ every = 0 /\ renewal = Unarmed /\ relogin = Unarmed
    /\ call = "login"
    /\ closed = FALSE /\ faults = 0

Schedule(interval) == every' = interval /\ renewal' = interval

Fault == faults < MaxFaults /\ faults' = faults + 1

\* Vault goes down, or comes back.
Outage == up /\ Fault /\ up' = FALSE
          /\ UNCHANGED <<appRole, client, token, every, renewal, relogin, call, closed>>
Restore == ~up /\ up' = TRUE
           /\ UNCHANGED <<appRole, client, token, every, renewal, relogin, call, closed, faults>>

Tick ==
    LET Down(t) == IF t > 0 THEN t - 1 ELSE t
    IN  /\ call = "none" /\ renewal # 0 /\ relogin # 0
        /\ left' = Down(left) /\ life' = Down(life)
        /\ renewal' = Down(renewal) /\ relogin' = Down(relogin)
        /\ UNCHANGED <<appRole, up, client, known, every, call, closed, faults>>

\* A call fails: nobody answers, or Vault refuses it.
Unanswered == (~up /\ UNCHANGED faults) \/ Fault

\* authenticate: the client is there with the granted lease, or with what the
\* static token has left, and its renewals are scheduled.
LoginSucceeds ==
    /\ call = "login" /\ up
    /\ client' = TRUE
    /\ IF appRole
         THEN /\ life' \in Lives
              /\ left' \in {Smaller(time, life') : time \in LoginLeases}
              /\ known' = TRUE
              /\ Schedule(IntervalFor(left'))
         ELSE UNCHANGED token /\ Schedule(IntervalFor(Increment))
    /\ call' = "none"
    /\ UNCHANGED <<appRole, up, relogin, closed, faults>>

\* connect's catch: no client, and another try later.
LoginFails ==
    /\ call = "login" /\ Unanswered
    /\ client' = FALSE
    /\ renewal' = Unarmed
    /\ relogin' = ReloginInterval
    /\ call' = "none"
    /\ UNCHANGED <<appRole, up, token, every, closed>>

ReloginFires ==
    /\ relogin = 0
    /\ relogin' = Unarmed
    /\ call' = "login"
    /\ UNCHANGED <<appRole, up, client, token, every, renewal, closed, faults>>

\* The interval fires; without a client renew returns at once.
RenewalFires ==
    /\ renewal = 0 /\ call = "none"
    /\ renewal' = every
    /\ call' = IF client THEN "renew" ELSE "none"
    /\ UNCHANGED <<appRole, up, client, token, every, relogin, closed, faults>>

\* Bug: the interval of the login stays.
BugRenewKeepsInterval ==
    /\ call = "renew" /\ up /\ left > 0
    /\ left' = Smaller(Increment, life) /\ known' = TRUE
    /\ call' = "none"
    /\ UNCHANGED <<appRole, up, client, life, every, renewal, relogin, closed, faults>>

\* renewSelf: the lease is RENEW_INCREMENT or what the token's maximum
\* allows, and the interval follows it.
RenewSucceeds ==
    /\ call = "renew" /\ up /\ left > 0
    /\ left' = Smaller(Increment, life) /\ known' = TRUE
    /\ IF IntervalFor(left') # every THEN Schedule(IntervalFor(left'))
                                     ELSE UNCHANGED <<every, renewal>>
    /\ call' = "none"
    /\ UNCHANGED <<appRole, up, client, life, relogin, closed, faults>>

\* An expired token cannot be renewed.  An AppRole logs in again; a static
\* token waits for the next interval.
RenewFails ==
    /\ call = "renew"
    /\ (left = 0 /\ UNCHANGED faults) \/ Unanswered
    /\ call' = IF appRole THEN "login" ELSE "none"
    /\ UNCHANGED <<appRole, up, client, token, every, renewal, relogin, closed>>

\* onModuleDestroy.
Destroy ==
    /\ ~closed
    /\ closed' = TRUE
    /\ renewal' = Unarmed /\ relogin' = Unarmed
    /\ UNCHANGED <<appRole, up, client, token, every, call, faults>>

Answered == LoginSucceeds \/ LoginFails \/ RenewSucceeds \/ RenewFails

Adapter == Answered \/ ReloginFires \/ RenewalFires \/ Tick

Next == Adapter \/ Outage \/ Restore \/ Destroy

\* Requests end, timers fire, time passes and outages are over some day.
Fairness == WF_vars(Adapter) /\ WF_vars(Restore)

Spec == Init /\ [][Next]_vars /\ Fairness

-----------------------------------------------------------------------------
(* The properties.                                                         *)

\* Every variable holds a value the code can give it.  Between calls an open
\* adapter waits for exactly one timer: the renewal of its client, or, without
\* one, the next login.
TypeOK ==
    /\ appRole \in BOOLEAN /\ up \in BOOLEAN /\ client \in BOOLEAN
    /\ life \in Nat /\ left \in 0..life /\ known \in BOOLEAN /\ every \in Nat
    /\ {renewal, relogin} \subseteq Nat \cup {Unarmed}
    /\ call \in {"none", "login", "renew"}
    /\ closed \in BOOLEAN /\ faults \in 0..MaxFaults
    /\ ~closed /\ call = "none" =>
           /\ (renewal # Unarmed) = client
           /\ (relogin # Unarmed) = ~client

\* "Clamped so we always renew well before expiry": while Vault answers, the
\* token runs out only with its maximum TTL, whatever the leases of its login and
\* of its renewals, and then an AppRole has another one within the shortest
\* interval.  Not so the lease a static token came with, which no call reported.
TokenLives ==
    client /\ ~closed /\ faults = 0 /\ known /\ left = 0 =>
        life = 0 /\ (appRole => call # "none" \/ renewal < Floor)

Usable == ~appRole \/ closed \/ (client /\ left > 0)

\* "The adapter recovers once Vault is back": an AppRole has a live token
\* again and again, however its logins and renewals failed and its token ran
\* out, until the adapter is destroyed.
Recovers == []<>Usable

=============================================================================
