------------------------------ MODULE Requests ------------------------------
(* The parts that guard a request and those that keep the process that     *)
(* serves it, in one model: a behaviour is one part's and the others rest  *)
(* in their initial states.                                                *)
EXTENDS CircuitBreaker

CONSTANTS
    MaxFaults,                                                      \* of several parts
    Logins, Keys, KeysOf, Limit, Window, MaxLogins, MaxLateCalls,   \* LoginLockout
    Sockets, Concurrency, MaxOutages,                               \* Gateway
    Tabs, MaxRefreshes,                                             \* Refresher
    LoginLeases, StaticLeases, Lives, Increment, Floor,             \* VaultToken
    Queues, ReconnectInterval, RetryMax, MaxFailures,               \* TemporalWorkers
    Tiers, Conns, MaxStreams,                                       \* RoleLifecycle
    Jobs, First, Entries, Operators, Attempts, MaxReplays,          \* JobQueue
    TTL, MaxLoad,                                                   \* the caches
    Processes,                                                      \* TenantDirectory
    Callers, CacheTicks, ProbeTimeout,                              \* HealthProbes
    Events, Readers,                                                \* Analytics
    Delay, Margin, MaxAttempts, MaxDeliveries                       \* Onboarding

VARIABLES
    part,
    \* LoginLockout
    count, window, marker, loginPc, calls, locked, due, excused, logins, loginFaults,
    \* Gateway
    conn, at, session, timers, online, expired, ended, sweep, todo, checking, outages,
    \* Refresher
    native, locks, records, jar, access, holder, refreshPc, sent, answer, fresh,
    orphans, logout, revoke, told, loggedOut, raced, lost, broken, starts,
    \* VaultToken
    appRole, vaultUp, vault, left, life, known, every, renewal, relogin, request, destroyed,
    vaultFaults,
    \* TemporalWorkers
    temporalUp, temporal, attempt, wait, link, late, overtook, workerPc, worker, failed,
    timer, stop, workerFaults,
    \* RoleLifecycle
    opening, opened, listeners, listening, closing, pushed, attached, phase, awaited,
    timedOut, early, tcp, port, h2, inFlight, cut,
    \* JobQueue
    jobState, made, stalled, emails, copying, entry, uncopied, replaying, source, replayPc,
    picks, acted, repeated, jobFaults,
    \* TenantDirectory
    tenant, since, deleting, cached, cacheLeft, flightPc, value, deadline,
    \* HealthProbes
    healthy, changed, probed, age, probe, probeLeft, joined, reply, begun, gap,
    \* Analytics
    recorded, storedAge, busting, stats, statsLeft, readPc, counted, readLeft,
    \* Onboarding
    passes, startCalls, run, runLeft, runAt, runTimer, tries, workerUp, adrift, mailed, extra,
    idle, runFaults

Lockout == INSTANCE LoginLockout WITH
    Attempts <- Logins, MaxFaults <- MaxLateCalls, pc <- loginPc, faults <- loginFaults

Realtime == INSTANCE Gateway

Client == INSTANCE Refresher WITH pc <- refreshPc, ended <- loggedOut

Vault == INSTANCE VaultToken WITH
    up <- vaultUp, client <- vault, call <- request, closed <- destroyed,
    faults <- vaultFaults

Workers == INSTANCE TemporalWorkers WITH
    up <- temporalUp, client <- temporal, pc <- workerPc, state <- worker,
    failures <- failed, faults <- workerFaults

Lifecycle == INSTANCE RoleLifecycle WITH
    conn <- tcp, at <- port, calls <- inFlight

Queue == INSTANCE JobQueue WITH
    state <- jobState, sent <- emails, lost <- uncopied, pc <- replayPc,
    excused <- repeated, faults <- jobFaults

Directory == INSTANCE TenantDirectory WITH
    record <- tenant, left <- cacheLeft, pc <- flightPc

Probes == INSTANCE HealthProbes WITH
    up <- healthy, cached <- probed, left <- probeLeft, waiting <- joined, answer <- reply

Stats == INSTANCE Analytics WITH
    event <- recorded, age <- storedAge, cached <- stats, left <- statsLeft,
    pc <- readPc, value <- counted, deadline <- readLeft

FollowUp == INSTANCE Onboarding WITH
    calls <- startCalls, left <- runLeft, at <- runAt, timer <- runTimer, attempt <- tries,
    worker <- workerUp, sent <- mailed, repeats <- extra, faults <- runFaults

ASSUME PartsAssumption ==
    /\ FailureThresholdAssumption
    /\ Lockout!LockoutAssumption /\ Realtime!GatewayAssumption /\ Client!RefresherAssumption
    /\ Vault!VaultAssumption /\ Workers!WorkersAssumption /\ Lifecycle!RoleAssumption
    /\ Queue!QueueAssumption /\ Directory!DirectoryAssumption /\ Probes!ProbesAssumption
    /\ Stats!AnalyticsAssumption /\ FollowUp!OnboardingAssumption

lockoutVars == <<count, window, marker, loginPc, calls, locked, due, excused, logins,
                 loginFaults>>
socketVars == <<conn, at, session, timers, online, expired, ended, sweep, todo, checking,
                outages>>
clientVars == <<native, locks, records, jar, access, holder, refreshPc, sent, answer,
                fresh, orphans, logout, revoke, told, loggedOut, raced, lost, broken, starts>>
vaultVars == <<appRole, vaultUp, vault, left, life, known, every, renewal, relogin, request,
               destroyed, vaultFaults>>
workerVars == <<temporalUp, temporal, attempt, wait, link, late, overtook, workerPc, worker,
                failed, timer, stop, workerFaults>>
roleVars == <<opening, opened, listeners, listening, closing, pushed, attached, phase,
              awaited, timedOut, early, tcp, port, h2, inFlight, cut>>
queueVars == <<jobState, made, stalled, emails, copying, entry, uncopied, replaying, source,
               replayPc, picks, acted, repeated, jobFaults>>
directoryVars == <<tenant, since, deleting, cached, cacheLeft, flightPc, value, deadline>>
probeVars == <<healthy, changed, probed, age, probe, probeLeft, joined, reply, begun, gap>>
statsVars == <<recorded, storedAge, busting, stats, statsLeft, readPc, counted, readLeft>>
followUpVars == <<passes, startCalls, run, runLeft, runAt, runTimer, tries, workerUp, adrift,
                  mailed, extra, idle, runFaults>>
readVars == <<directoryVars, probeVars, statsVars>>
guardVars == <<lockoutVars, socketVars, clientVars>>
sideVars == <<queueVars, readVars, followUpVars>>
processVars == <<vaultVars, workerVars, roleVars, sideVars>>
partVars == <<part, vars, guardVars, processVars>>

PartsInit ==
    /\ part \in {"breaker", "lockout", "sockets", "client", "vault", "workers", "role",
                "queue", "directory", "probes", "stats", "followUp"}
    /\ Init /\ Lockout!Init /\ Realtime!Init /\ Client!Init
    /\ Vault!Init /\ Workers!Init /\ Lifecycle!Init /\ Queue!Init /\ Directory!Init
    /\ Probes!Init /\ Stats!Init /\ FollowUp!Init

OnBreaker(A) ==
    /\ part = "breaker" /\ A
    /\ UNCHANGED <<part, guardVars, processVars>>
OnLockout(A) ==
    /\ part = "lockout" /\ A
    /\ UNCHANGED <<part, vars, socketVars, clientVars, processVars>>
OnSockets(A) ==
    /\ part = "sockets" /\ A
    /\ UNCHANGED <<part, vars, lockoutVars, clientVars, processVars>>
OnClient(A) ==
    /\ part = "client" /\ A
    /\ UNCHANGED <<part, vars, lockoutVars, socketVars, processVars>>
OnVault(A) ==
    /\ part = "vault" /\ A
    /\ UNCHANGED <<part, vars, guardVars, workerVars, roleVars, sideVars>>
OnWorkers(A) ==
    /\ part = "workers" /\ A
    /\ UNCHANGED <<part, vars, guardVars, vaultVars, roleVars, sideVars>>
OnRole(A) ==
    /\ part = "role" /\ A
    /\ UNCHANGED <<part, vars, guardVars, vaultVars, workerVars, sideVars>>
OnQueue(A) ==
    /\ part = "queue" /\ A
    /\ UNCHANGED <<part, vars, guardVars, vaultVars, workerVars, roleVars, readVars,
                   followUpVars>>
OnDirectory(A) ==
    /\ part = "directory" /\ A
    /\ UNCHANGED <<part, vars, guardVars, vaultVars, workerVars, roleVars, queueVars,
                   probeVars, statsVars, followUpVars>>
OnProbes(A) ==
    /\ part = "probes" /\ A
    /\ UNCHANGED <<part, vars, guardVars, vaultVars, workerVars, roleVars, queueVars,
                   directoryVars, statsVars, followUpVars>>
OnStats(A) ==
    /\ part = "stats" /\ A
    /\ UNCHANGED <<part, vars, guardVars, vaultVars, workerVars, roleVars, queueVars,
                   directoryVars, probeVars, followUpVars>>
OnFollowUp(A) ==
    /\ part = "followUp" /\ A
    /\ UNCHANGED <<part, vars, guardVars, vaultVars, workerVars, roleVars, queueVars,
                   readVars>>

PartsNext ==
    \/ OnBreaker(Next) \/ OnLockout(Lockout!Next)
    \/ OnSockets(Realtime!Next) \/ OnClient(Client!Next)
    \/ OnVault(Vault!Next) \/ OnWorkers(Workers!Next) \/ OnRole(Lifecycle!Next)
    \/ OnQueue(Queue!Next) \/ OnDirectory(Directory!Next)
    \/ OnProbes(Probes!Next) \/ OnStats(Stats!Next)
    \/ OnFollowUp(FollowUp!Next)

PartsSpec == PartsInit /\ [][PartsNext]_partVars

-----------------------------------------------------------------------------
(* The properties of the instances, by the names they have there.          *)

\* The type invariants of the parts.
TypesOK ==
    /\ TypeOK /\ Lockout!TypeOK /\ Realtime!TypeOK /\ Client!TypeOK
    /\ Vault!TypeOK /\ Workers!TypeOK /\ Lifecycle!TypeOK /\ Queue!TypeOK /\ Directory!TypeOK
    /\ Probes!TypeOK /\ Stats!TypeOK /\ FollowUp!TypeOK
\* However logins overlap, a window has a bounded number of failures; however
\* readers overlap, a tenant's record, a tenant's statistics and a probe's
\* result are stale for a bounded time, and a probe begins once in a window.
Bounded ==
    /\ Lockout!FailuresBounded
    /\ Directory!StaleIsBounded /\ Stats!StatsAreRecent
    /\ Probes!UpIsRecent /\ Probes!ProbesApart
\* A socket that is gone leaves no timer and no count behind, a worker service
\* that was destroyed no worker and no timer, nor a connection but that of a start
\* it overtook, and a job that failed its dead letter.
NothingLeftBehind ==
    Realtime!NothingLeftBehind /\ Workers!NothingLeftBehind /\ Queue!FailedIsKept
\* A refresh that answers a token leaves one for the next refresh.
GivenIsRefreshable == Client!GivenIsRefreshable
\* With the lock, overlapping refreshes do not end the session; a logout ends it
\* in every tab.
EndsByLogout == Client!SessionSurvives /\ Client!LogoutEndsSession
\* So does one that a refresh races.
LogoutFinal == Client!LogoutFinal
\* No connection is ended under a request, no token runs out before its maximum and no
\* follow-up's run under its attempts; a job or a follow-up that was sent is not
\* sent again.
NothingCutOff ==
    /\ Lifecycle!NothingCutOff /\ Vault!TokenLives /\ FollowUp!MarginCovers
    /\ Queue!SentOnce /\ FollowUp!FollowedUpOnce

=============================================================================
