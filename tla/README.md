# Tropis: TLA+ models and proofs

This directory holds TLA+ specifications of the parts of Tropis whose
correctness depends on the order in which things happen: several backend
instances, workers, browsers and requests over shared stores, with processes
that stop, calls that fail and messages that come late or twice. TLC checks each
specification on small instances; TLAPS proves the theorems in the `*Proofs`
modules for every value of the constants.

Paths below are relative to the repository; `backend/` stands for
`apps/backend/src/`, `infra/` for `apps/backend/src/infrastructure/` and `sdk/`
for `packages/sdk/src/`.

Contents: [the system](#1-the-system) · [the modules](#2-the-modules) ·
[the runs](#3-the-runs) · [bounds](#4-bounds) · [fairness](#5-fairness) ·
[the proofs](#6-the-proofs) · [disagreements found](#7-where-code-and-documentation-disagree) ·
[not modelled](#8-what-is-not-modelled) · [the plan](#9-the-plan) ·
[running it](#10-running-it)

## 1. The system

Tropis is a multi-tenant web platform. A NestJS backend (`apps/backend`) runs
in several processes (API instances, workers); its *capabilities* (`infra/`)
wrap the stores: MongoDB documents, Aerospike (KV), Redis (cache, locks, dedup,
rate limits, BullMQ jobs), Pulsar or Kafka messaging, Vault, Temporal, search,
OLAP, graph, vectors and object storage. `packages/sdk` is the browser client,
`apps/frontend/helm` the dashboard, which a desktop shell may host;
`services/rust/signing` signs and verifies; `services/flink` copies events to
ClickHouse.

A user command writes the user, an event-store entry and an **outbox** row in
one transaction. **Relays** publish the rows, one aggregate at a time, under a
**lease**. **Consumers** handle each event once by claiming a **dedup** marker,
and project it to search, cache, the membership graph, mail and onboarding.
**Sessions** hang on the same user record: a change bumps `tokenVersion` and the
token verifier refuses the older tokens.

```
 page (list, tracker, socket, callback) ── SDK (refresh, logout) ── lockout, breaker, verifier
                                                                        │
 command ──tx──> user + event store + outbox row + head  <── OAuth sign-in, sessions
                                          │
            lease (Redis) <── relay ──────┤   sweep, operator (redrive / skip)
                                │
                             broker ── at least once ──> consumer ── claim/extend/release (Redis)
                                │                           │
                        dead letters ── redrive      copies, graph, OLAP rows, jobs ── dead-letter jobs

 process: boot ── readiness, probes ── Vault token, Temporal workers ── drain ── stop
```

### Components

| Component | State it keeps | What is hard | What makes it correct | Module |
|---|---|---|---|---|
| Circuit breaker (`backend/common/circuit-breaker`) | state, failures, probe flag | overlapping calls settle in any order | one probe; never stuck | `CircuitBreaker` |
| Transactional outbox (`infra/outbox`) | rows, one head per aggregate | relays, operators, writes and the sweep between each other's reads and writes; late publishes; crashes | order per aggregate, at least once, no row and no aggregate waits for ever | `Outbox`, `RelayPoll`, `OrderedDelivery` |
| Leases (`infra/lock`) | a key, a token, a time to live | late replies and heartbeats | one publisher at a time | `RelayLease` |
| Event consumers and dedup (`event-consumer.ts`, `infra/dedup`) | a marker per event | duplicates at once, dying workers, partial pipelines | no event lost; handled once while its marker lasts | `EventConsumer` |
| Subscription lifecycle and the Pulsar adapter | subscription, loop, held nacks, retry | close during connect, a loop that ends by itself | one loop; nothing left after close; messages settle | `Subscription` |
| Kafka adapter | group offset, sessions, pins | rebalance during a retry, a claim that outlives its holder's session | no record passed but under a claim; in order | `KafkaConsumer` |
| Dead letters of messages (`messaging-dlq.ts`) | the dead-letter topic | positions, not names; a failing skip | kept until published | `Redrive` |
| Auth sessions (`backend/modules/auth`) | refresh records, revocations, marker | rotation races, a change between a read and the issue | ended tokens stay ended; one refresh token per session | `Sessions` |
| OAuth sign-in | accounts, one-time codes | two callbacks of an identity, two exchanges of a code | a code is compared once; tokens are the identity's | `OAuthSignIn` |
| Login lockout | counters, windows, markers | attempts under way when the marker is set | a bounded number per window; nobody locked for ever | `LoginLockout` |
| User commands and event store (`backend/modules/user`) | users, events, claims, responses | write skew, races on e-mail and versions | never without an admin; e-mails unique; events replay | `Users` |
| Projection and profile cache | copies, welcome job, cached profile | redelivery after later events, slow loads | copies never go back, and converge | `Profile` |
| Membership graph | user and membership nodes | two handlers, write by write | removal is terminal | `MembershipGraph` |
| Tracking (`sdk/tracking`, ingest, sink) | buffer, seen markers, rows | coinciding flush triggers, failed publishes, partial batches | one row per event; none forgotten | `Tracking` |
| Analytics | event log, cached statistics | a reader fills the cache after its deletion | statistics are recent | `Analytics` |
| Job queues (`infra/jobs`) | job, dead-letter copies | copying from a listener, replays at once | a failed job is kept; sent once | `JobQueue` |
| Realtime gateway (`backend/modules/websocket`) | sockets, timers, online count | leaving between awaits, sweep and expiry | nothing left; an ended session's socket closes | `Gateway` |
| SDK refresh and logout | token, cookie or secure store | several tabs, lost answers, reloads | a session survives refreshes, ends at logout | `Refresher` |
| SDK realtime client | one shared socket | last cleanup, ended socket | no orphan; listeners keep a socket | `RealtimeClient` |
| Dashboard list (`useUsersQuery.ts`) | cached list, drafts | optimistic rows against refetches | list in step with the users | `UserList` |
| Native callback (`oauth.rs`, `native.ts`) | pending URL, subscription | announced before the page listens, reloads | every callback exchanged, once | `NativeCallback` |
| Vault secrets | token, two timers | outage over a renewal, leases that shrink near the maximum TTL | the token is renewed or replaced in time, and comes back | `VaultToken` |
| Temporal workers | worker per queue, shared client | stop during a start, backoff | all come up; nothing left after stop but what a start opens late | `TemporalWorkers` |
| Role lifecycle, RPC listeners | listeners, connections, phase | a signal at any point of the boot, drain | no request cut off; shutdown ends | `RoleLifecycle` |
| Health probes | cached results | joined probes, timeouts | one probe per window; results recent | `HealthProbes` |
| Tenant directory | cached record | delete against a slow load | stale for a bounded time | `TenantDirectory` |
| Onboarding workflow | a run per user in Temporal | redelivered start, attempts that hang, both timeouts | one mail per start; the margin covers the attempts | `Onboarding` |
| Mail and push, adapters without state, RPC/REST surface, signing, observability, Flink, frontends, infrastructure | – | single calls, conversions, configuration | – | section 8 |

`PROJECT.json` lists every component with its sources and status, and the
hazards at their lines with the properties that cover them, or the reason why
none does. Hazards of lesser weight, which no property states:

- `outbox.service.ts:148`: a head deleted and created again starts over at
  `v = 1`, so a relay that outlived its lease may delete the head of an open
  row. The sweep repairs it (`RowIsSettled`).
- `tracking.processor.ts:70`: a batch acked after its ack timeout acks items
  its second delivery still works on (`EventConsumer` with `SlowWork`).
- `redis-dedup.adapter.ts:69`: the unconditional DEL of a late error path takes
  the next attempt's claim (`LateDrop`).
- `pulsar-messaging.adapter.ts`: `receive()` may resolve once more after
  `running = false`; `Subscription` has it, and nothing is lost by it.
- `notification.gateway.ts:208`: a token that runs out during the handshake
  leaves the socket's id counted until its disconnect. `NothingLeftBehind`
  excepts exactly that.
- `rpc-listener.ts:71`: a second `stop()` returns while the first still waits.
- `ops-server.ts:116`: a probe under way when the drain begins answers 200.
- `vault-secrets.adapter.ts`: a call in flight at `onModuleDestroy` arms a timer
  afterwards; a static token of less than twenty minutes expires before its
  first renewal. `TokenLives` excepts the lease a static token came with.
- `messaging-dlq.ts:139`: overlapping redrives drop a message neither published;
  `KeptOrPublished` excepts overlapping runs.
- `useUsersQuery.ts:80`: a rollback restores the drafts of others;
  `useUsersQuery.ts:129`: a deletion does not cancel a fetch that read before
  it. `ListInStep` excepts both.
- `OAuthCallback.tsx:37`: a second callback is dropped while the page is shown;
  `oauth.rs:45`: an announced URL stays pending and is taken again after a
  reload.
- `realtime/index.ts:48` (SDK): a socket the gateway ended does not reconnect
  until the next `connectRealtime`.
- `analytics.service.ts:85`: a cache that fails its deletion fails a recorded
  creation.
- `outbox.service.ts:147`: a relay that finds no row left while a writer adds one
  leaves the head where it is in the line; only writers that did so at every
  head of a window could hold up the others. `RelayPoll` bounds it.
- `onboarding.activities.ts:38`: an attempt that hangs past its minute goes on
  and may mail once more than its retry (`repeats` counts it).

## 2. The modules

| Module | Models | Part of |
|---|---|---|
| `CircuitBreaker`, `LoginLockout`, `Gateway`, `Refresher`, `VaultToken`, `TemporalWorkers`, `RoleLifecycle`, `JobQueue`, `TenantDirectory`, `HealthProbes`, `Analytics`, `Onboarding` | what guards a request and keeps the process that serves it | `Requests` |
| `RelayLease`, `KafkaConsumer`, `Subscription`, `Tracking`, `Redrive` | what carries a message | `Messaging` |
| `Users`, `OAuthSignIn`, `UserList`, `RealtimeClient`, `NativeCallback` | a tenant's accounts and the page that shows them | `Accounts` |
| `Profile`, `MembershipGraph` | what follows a user's record | `Projections` |
| `Outbox` | `outbox.service.ts` and `outbox.relay.ts` for one aggregate; implements `OrderedDelivery` | `MCEventConsumer` (liveness) |
| `OrderedDelivery` | what the outbox promises to consumers | abstract specification |
| `RelayPoll` | the relay's poll over many aggregates | `MCEventConsumer` |
| `EventConsumer` | consumer, dedup and the broker's contract together | `MCEventConsumer` |
| `Sessions` | `auth.service.ts`, `token-verifier.service.ts` and the commands that end sessions, together | – |
| `*Proofs` | theorems and proofs | TLAPS |

`Requests`, `Messaging`, `Accounts` and `Projections` put several components
side by side, for any size of each. Their variables are disjoint and `part` says
whose behaviour it is: the others rest in their initial states, so the states of
a run are the sum of the parts' and not the product. A property of such a module
is the conjunction of the parts', or, for liveness, `[]<>(part = "x" => ...)` for
each. The comment on each says which properties of which module it gathers; the
modules state and explain each. The theorems are about these modules.
`MCRequests`, `MCMessaging`, `MCUsers` and `MCProfile` extend them with the sizes
TLC checks and with fairness; they leave the choice of an initial state to the
part that moves, and `focus` in `MCProfile` checks readers and failures of the
copies apart. `Outbox` (but for its liveness) and `Sessions` are checked as they
stand.

An operator whose name begins with `Bug` changes the definition after it the
way a plausible mistake in that code would; no specification uses one. They
show that each property can fail.

In every module a step is the code between two awaits, or one call to a store
where the code awaits each call. What the sections below name is what is not
obvious from the module's own header.

### CircuitBreaker

`fire()` runs without yielding up to `await fn()` and from its settlement to
its end, so a call is two steps. `FireClosed`, `FireProbe` and `FireRejected`
are the three ways into or out of `fire`, `Succeed` and `Fail` are `onSuccess`
and `onFailure` with the `finally` that clears the probe flag. The clock is the
one bit the code computes from it: has the reset timeout elapsed.

### Outbox

State: `rows`, `head` (`v`, `dueAt`), `lease`, and for each relay where it is
and what it has read (`pc`, `cur`, `seen`, `found`, `sent`). Each database,
lease or broker call is one step, so anything may happen between the reply of
one and the start of the next. Steps of a relay, in the code's order:

    dueAggregates → Acquire → headOf → renew → publish → markDispatched | markFailed
                       ↑                                     │
                    release ← settleHead (read head, read row, write or delete)

`settleHead` is three steps because its compare-and-set on `v` exists to guard
the gap between them. `Arrive` and `Lost` decide what became of a message whose
publish timed out: it may arrive long after the attempt was recorded as failed.
`Operator` is `redrive` or `skip` in its two writes (rows, then `requeue`),
`Repair` is `repairHeads` in its five. `Broken` and `OpFails` are a crash or a
failed call at any point; `LeaseExpires` ends leases. With
`Pauses = FALSE` a holder's lease does not end while it works, which is what
`RelayLease` establishes for publishing; with `TRUE` a process may stall
anywhere and two relays may work on one aggregate.

`OrderedDelivery` is the promise alone: an event is handed to the broker only
when every earlier one is delivered or given up, and closed as dispatched only
once the broker has it. The refinement maps a row's status to its fate:
`dispatched`, `skipped`, or `open` for everything else.

### RelayPoll

`Outbox` has one aggregate, since rows, heads and leases are keyed by it. What
aggregates share is the relays' time: `line` holds those that are due by
`dueAt`, a poll takes a window of it, shuffles the window if a batch is smaller,
and works through its candidates, past those whose lease another relay holds.
The work on one is a single step with any of the ends `Outbox` gives it: no row
left, one that is due (the head goes to the back), one that waits, or a head
that was not settled.

### RelayLease

Time passes in ticks. The relay is punctual in two things only: it acts on
the reply of `lease.renew` within `ReplyDelay`, and its publish timer fires
after `PublishTimeout`. Database calls take any time, every heartbeat may fail,
and a process may stop anywhere. The assumption
`ReplyDelay + PublishTimeout < LeaseTTL` is the code's "the lease outlives the
publish timeout", with the delay the comment leaves out.

### EventConsumer

A message carries one dedup key, or one per item of a batch. A worker goes
through the calls the code awaits: `Claim` (`claimMany`), the work, `Extend` or
`Release`, then ack or nack; it may be killed between any two. `ClaimFails`
covers both failures of the Redis pipeline: `exec` rejects, and the claims are
released by their owner; or a command's reply is an error, and `Drop` deletes
the keys that were won whoever holds them by then. The broker follows
`messaging.port.ts`: redelivery after a nack or an ack timeout, up to
`MaxRedeliveries`, then the dead-letter topic. Three constants say what the
environment may do: `SlowWork` (a live attempt outlasts the ack timeout),
`ReleaseFails` (a release leaves claims behind), `LateDrop` (that DEL reaches
Redis after the claim has expired).

### Subscription, KafkaConsumer

`Subscription` is `RunningConsumer` over the Pulsar adapter. Its attempts,
subscriptions and `close()` interleave at every await; nacks are held back by a
timer, and a consumer that closes gives its unacked messages back.
`KafkaConsumer` is the other adapter under the same claims as `EventConsumer`:
members pin a new group to the end of the topic (`FetchOffsets`, `FetchEnds`, `Pin`), join,
retry in the handler with heartbeats between, dead-letter, and commit; the group
coordinator is external and drops a member after `SessionTimeout`, and its claim
may outlast that by the `Overhang` `ClaimTTL + HeartbeatInterval -
SessionTimeout`: the adapter leaves kafkajs's session of 30 s and heartbeat of
3 s, and a claim lasts 30 s, so the code's overhang is 3 s. `presumed` are the
records a member passed as duplicates while another's claim stood.

### Tracking, Redrive, JobQueue, Analytics

`Tracking` follows an event from `track()` in the page to its row: the flush
triggers, the post, `ingest` with claim, publish and extend or release, and the
processor's `onceEach`. A post may be lost on either side of the server, and a
repeated post stands for a client that sends one again. `doubtful` are the
events whose insert took effect without the processor knowing, or whose marker
could not be written: at-least-once is all the code claims for those.
`Redrive` is the operators' command over a topic that names positions.
`JobQueue` is the worker's listener and the replay's four calls; `excused`
marks work that failed after its effect, or that was replayed again.
`Analytics` is the same read-through cache as `TenantDirectory` without single
flight, fed by the outbox's own path.

### Sessions

One account. A `Pair` is an access token and the refresh token issued with it;
pairs descending from one login form its session. Requests run at the same time
in their store calls: `RefreshGet`, `RefreshDelete` (the `del` whose answer
decides who rotates), `RefreshUser` and `Issue`; `LogoutRevoke` and
`LogoutDelete`; `Update` and `SyncMarker` (the account-suspended marker is
written after the transaction); `UpdateRoles` and `Delete`. `Accepts` is what
the verifier answers. It reads four stores without a snapshot; the model
evaluates it at one moment, which `DeadStaysDead` justifies: a token that is
good when the last read runs was good at all of them, the marker aside.

### Users, OAuthSignIn

A command runs in a snapshot transaction: `view` is the store at its first
read, `dirty` what it wrote, `stale` what another wrote since, on which the
driver runs the callback again or gives up. Removing the `touchOtherAdmins` of
the code from the model lets TLC find two admins demoting each other. A create
goes through its claim, the stored response, the check, the transaction and the
release. E-mails are in the spelling they were typed in; `Lower` is the schema's
`lowercase: true`, which mongoose applies to what it writes and to the filters
of its queries, while the payload of an event stays as it was typed.
`OAuthSignIn` takes the create command as one step and looks at what
can happen around it: the account found, made or taken in the meantime, and the
code's `get`, `del` and comparison.

### Profile, MembershipGraph

The contents of one record are numbered and a copy holds a content's number.
An event's handler reads the record first and writes sink after sink; each may
fail; the broker may take the delivery from it, and its outstanding writes land
later or never (`StrayLands`). The profile cache is filled by readers between a
load and a set, dropped by commands and consumer, and expires.
`MembershipGraph` has the graph's writes one by one for two handlers.

### LoginLockout, Gateway, Refresher, TenantDirectory, HealthProbes

`LoginLockout` keeps counters and markers in different stores, as the code
does; `excused` counts successful logins and failed calls, which loosen the
bound. `Gateway` has the handshake await by await, the expiry timer and the sweep
with its workers. `Refresher` has the lock, the timer, the endpoint's rotation
and the answer as separate steps, `native` and `locks` being the two kinds of
client; a request may be served after it was aborted. The answer's headers and
its body are two awaits: the timer watches the first only, so a body may come,
break off or never end (`Stuck`). `TenantDirectory` and
`HealthProbes` count time in ticks: their properties are about how old an
answer may be.

### VaultToken, TemporalWorkers, RoleLifecycle

`VaultToken` counts in ticks and lets leases, maximum TTLs, outages and refusals
decide between renewal and re-login: a renewal grants `RENEW_INCREMENT` or what
the maximum leaves (`life`), whichever is less. `known` says that the lease was
granted by a call and not brought along by a static token. `TemporalWorkers` has
one worker per queue over the shared client holder and connection, with
`onModuleDestroy` at any await. `link` is the connection it closes; `late` is one
that a start opens after the service took `link`, which it does when
`onModuleDestroy` overtook it in its wait for the client (`overtook`). `RoleLifecycle` boots, receives its signal anywhere, and drains its two
listeners and their connections; a connection has not yet said which protocol
it speaks, or is HTTP/1.1 or HTTP/2.

### Onboarding

The event handler's call is not awaited (`Deliver`, then `Starts` or
`StartFails`); Temporal refuses a second open run of an id and accepts it once
the run has closed. The workflow sleeps, has its activity scheduled, and each
attempt mails and then pushes. An attempt ends by its call, by its minute, or
with its worker; one that was given up while it mails is `adrift`. `idle` is the
time a run waited for a worker.

### UserList, RealtimeClient, NativeCallback

What the page keeps: the query cache's list with its optimistic drafts, the one
socket its listeners share, and the callback URL the desktop shell hands over.
TanStack Query, socket.io and the deep-link plugin are external and modelled by
what the code relies on: a cancelled fetch's answer is dropped, a socket the
server ended stays down, an event is lost on a page that does not listen.
`missed` and `muddled` say which cases the code gives up.

## 3. The runs

| Run | States | What it shows |
|---|---|---|
| `outbox_timely` | 0.86 M | Two relays, the sweep, an operator and one failure, holders keep their lease: first deliveries are in order, an open row has its head, every failure counts towards DEAD, and the outbox implements `OrderedDelivery`. |
| `consumer` | 0.32 M | An event published twice, once within a batch; workers fail, die, lose claims: no event lost, no two attempts at work under valid claims, a handled event is marked until its marker expires, every message is acked or dead-lettered. Polls: among three aggregates whose writers never stop, none starves. Outbox: relays that may outlive their lease, the sweep and one failure anywhere, no operator: every row settles unless a DEAD one waits ahead of it. |
| `sessions` | 2.7 M | Two concurrent requests, three pairs, changes of every kind, requests that stop half-way: a change ends every earlier session, one refresh token per session, dead tokens stay dead. |
| `users` | 1.84 M | Two commands of any kind at once: an admin stays, e-mails are unique in whichever case they are typed, events replay to the users once their e-mail is lower-cased. Sign-ins: a code is compared once and gives its identity's tokens. The page: its list, socket and callback stay in step. |
| `profile` | 1.63 M | A user created, changed, deleted while events come in any order, sinks fail and deliveries are lost: copies never go back, an acked event shows, copies and cache converge, one welcome mail. The graph: removal is terminal, an acked event is applied. |
| `messaging` | 0.42 M | Lease: one publisher, freed when it dies. Kafka, at the code's times: no record is passed unless it was handled or dead-lettered or the claim of a dropped member stood over it, in order, all settle, close ends. Pulsar: one loop, quiet once closed, subscribed again until then. Tracking: one row per event, none forgotten. Dead letters: kept until published. |
| `requests` | 0.43 M | Breaker, lockout, gateway, refresher, Vault, Temporal, role lifecycle, jobs, tenant directory, probes, statistics and onboarding: the properties below, and the progress of each. |

Five more runs reproduce disagreements between the code and what it says of
itself (section 7): `outbox_stuck`, `sessions_marker`, `users_repeat`,
`kafka_skips`, `refresh_logout`.

What the gathered properties stand for:

| Property | Is |
|---|---|
| `requests`: `Bounded` | a bounded number of failed logins in a window (`FailuresBounded`); tenant records and statistics are stale for a bounded time (`StaleIsBounded`, `StatsAreRecent`); a dependency that went down is not reported up for longer than a window and a probe, and is probed once in a window (`UpIsRecent`, `ProbesApart`) |
| `requests`: `NothingLeftBehind` | a socket that left has no timer and no count; a destroyed worker service no worker, timer or connection, but for the one a start opens that it overtook in its wait for the client; a failed job its dead letter (`FailedIsKept`), unless the copy was lost |
| `requests`: `NothingCutOff` | a drain ends no connection under a request; while Vault answers, a token whose lease a call granted ends only with its maximum TTL, and an AppRole's is then replaced within the shortest interval (`TokenLives`); an onboarding run that timed out waited for a worker longer than its margin leaves (`MarginCovers`); a job's or a follow-up's mail is not sent twice (`SentOnce`, `FollowedUpOnce`) |
| `requests`: `EndsByLogout`, `GivenIsRefreshable` | of `Refresher`, `SessionSurvives` and `LogoutEndsSession`: with the lock, refreshes do not end the session; a logout does, in every tab; a token that was answered has its successor in store |
| `requests`: `Progress` | breaker lets through again, lockout ends, ended sockets close, refreshes answer unless a body never ends, readiness calls answer, Vault and Temporal come back, a shutdown and a job end |
| `messaging`: `NothingLost` | `LostOnlyUnderClaim` (Kafka), `KeptOrPublished` (dead letters), `BatchedOnce`, `SeenIsPublished`, `AckedIsStored` (tracking) |
| `messaging`: `NothingTwice` | `OneLoop`, `ClosedIsQuiet` (Pulsar), `OneRow` (tracking) |
| `messaging`: `MessagesSettle`, `GoesOn` | every record, message and batch settles; a dead relay's lease comes free, a consumer is subscribed again, `close()` ends |
| `users`: `TokensOfItsOwn` | with `OneAttempt`: one exchange of a code reaches the comparison |
| `users`: `PageInStep` | `ListInStep`; `NoOrphan`, `ListenersKeepSocket`; `CodeArrives`, `OncePerPage` |
| `profile`: `AckedIsApplied`, `NothingComesBack` | `AckedShows` and `NeverBack` of the copies, `AckedIsApplied` and `RemovalIsTerminal` of the graph |
| `TypesOK` | the parts' type invariants, which hold more than types where a module says so (each event in one place, a stored response names a created user, claims match timers) |

## 4. Bounds

- `outbox_*`: two rows are the least that can come out of order, two relays the
  least that can meet. `MaxAttempts` 2 gives FAILED and DEAD; `MaxOps` 1 is one
  redrive or skip; `MaxFaults` 1 counts crashes, failed calls, lost leases and
  expiries under a holder. `RowsPerAggregate` 2 lets a relay stop because of it
  and because of an empty head. For liveness, which the run `consumer` checks, the
  operator and the second attempt are traded for both rows, both relays, stalls
  and the sweep: the liveness graph is the expensive part. Order and the refinement do not rest on these bounds,
  nor on timely leases: they are proved.
- `consumer`: a claim of 2 ticks that may come 1 tick after its delivery, ack
  timeout 3: equality in `ClaimDelay + ClaimTTL <= AckTimeout`. A handled
  event stays marked for 2 ticks: a redelivery after a lost ack can still meet
  the marker, and can come after it. Two messages
  sharing a key, one of them a batch; one redelivery before the dead letter.
  Of two idle workers `v` is handed the message (`FirstToV`): an idle worker
  carries nothing from its last attempt.
  The outbox's polls have three aggregates, a window of two and batches of one:
  the least that leaves one out of the window and one of the window out of the
  batch; `MaxFaults` is 1 as in the outbox.
- `sessions`: three pairs are a login, its refresh and a rival; two requests
  are a race; `MaxVersion` 2 is a deactivation and a reactivation. Requests and
  pairs are interchangeable, so symmetry is sound for these safety properties.
- `users`: two admins are the least that write skew needs, a third id is the
  user a create makes, two e-mails let it collide or not, and one of them is
  typed in two ways; five events bound how
  many commands succeed. Sign-in: one identity and one e-mail, two callbacks and
  two exchanges, two users. Page: two creations on an empty list and one failed
  request; two listeners and three sockets (one kept, one ended, one more); two
  callback URLs and one reload.
- `profile`: three contents (created, changed, changed or deleted), each event
  redelivered once, one lost delivery, one evicted job, one reader. Readers and
  lost deliveries act on different copies of the record and so are checked
  apart. The graph has two handlers: more than two cannot hold deliveries at
  once before the third has to come after the first.
- `messaging`: the lease has the tightest times its assumption allows
  (1 + 3 < 5) and three relays. Kafka has two members, two records, one retry,
  one fault, and a session as long as a claim with a heartbeat of one: the code's
  30 s, 30 s and 3 s in ticks, so a claim outlives its holder's session by one
  tick. Pulsar has two messages, three subscriptions and one failure
  of each kind. Tracking has two events, two posts and a repeat, batches of two,
  one redelivery, one fault. Dead letters: two, two operators, one fault.
- `requests`: four callers and threshold 2 let two calls from before the
  opening settle around two probes. Two logins with a limit of 2 and one failing
  call; two sockets and one outage; two tabs and two refreshes; leases of
  3 and 10 ticks (static: 2 and 5), maximum TTLs of 3 and 13 and an increment of
  9 against a shortest interval of 2, so that leases are cut by the maximum and
  get shorter than any interval, and two faults; two queues whose backoff reaches
  its maximum (`RetryMax` 2, counted up to `MaxFailures` 2); two listeners and two connections; two jobs (the first and one
  replayed), two entries, two operators, two attempts; two processes and a TTL
  of 3 with a load of 1; a probe window of 2 and a timeout of 2; one event, two
  readers; a follow-up delay of two minutes, the code's margin and five attempts,
  two starts and two faults. Where a counter could run on, it saturates past the value the
  properties compare it with.
- Deadlock is checked in `outbox_*` and `consumer`. In the other runs a
  behaviour may really end: ids, pairs, versions, events or failures are used
  up, a process has shut down, a page has nothing left to do.

## 5. Fairness

- Outbox: weak fairness of each relay's next step and of the sweep's (each call
  has a driver timeout, and the relay's loop and the scheduled job re-arm), of
  lease expiry and backoffs (clocks), and of an operator command that has begun.
  Strong fairness of `Acquire`: a relay that polls a free lease again and again
  gets it in the end. Writes, operators and failures may never come.
  Polls: the relays go on and leases expire, and a shuffle puts each aggregate
  that keeps being a candidate first again and again (strong fairness: the
  shuffle is uniform, `outbox.relay.ts:61`).
- Consumer: time, the broker's hand-out of a queued message, and the next step
  of a live worker. Nothing has to be published and no worker has to die.
- Profile: the broker hands out what is queued, a handler's calls end, a
  reader's calls end, strays land, the cache entry expires, the job after the
  deletion runs.
- Lease: time and the two punctual steps above. Kafka: time, calls of a live
  member, the coordinator's assignment and eviction. Pulsar: calls end, timers
  fire, an open consumer receives, the ack timeout. Tracking: the flush timer,
  calls end, a message is handled.
- Breaker: the timer runs out, calls of `fn()` settle (the policy client aborts
  them after two seconds), and somebody keeps calling. Lockout: time, calls of
  an attempt. Gateway: timers, the sweep's interval, verification ends.
  Refresher: calls answer or are aborted by their timer; nothing makes a body
  end. Vault and Temporal:
  timers and calls end, and an outage is over in the end. Role: requests are
  answered, ended connections close, teardown goes on. Jobs: the worker takes
  and ends jobs. Probes: time, the timeout, answers are given.
- No user, operator, crash or failing call is ever bound to come, except that
  somebody calls an open breaker.

In `MCRequests`, `MCMessaging` and `MCEventConsumer` one fairness condition ranges over one action
of each part. Only one part moves in a behaviour, so the condition is the one
that part's module states. Two kinds of action of `Subscription` share one;
what subscriptions can do there is finite, so nothing is asked beyond its own.
The consumers' steps share one: there messages are finite and so are their
deliveries, so a consumer that stopped before the end would break it.
`Sessions`, `Users`, `OAuthSignIn`, `MembershipGraph`, `TenantDirectory`,
`Analytics`, `Redrive`, `Onboarding` and the page's modules have safety properties only.

## 6. The proofs

All theorems hold for every value of the constants under the modules' named
assumptions: any number of relays, workers, members, tabs, operators, records or
attempts, and any bound.

| Theorem | Statement |
|---|---|
| `OutboxProofs!TypeCorrect`, `DeliveryOrder`, `OpenRowsBlock`, `MarkedWasDelivered`, `ClosedForGood`, `Implementation` | types; `FirstDeliveryInOrder`; `NothingOvertakes`; `DispatchedIsDelivered`; `TerminalIsFinal`; `Spec => ImplementsOrderedDelivery` |
| `OutboxProofs!HeadIsKept`, `FailuresCount` | `OpenHasHead`; `EveryFailureCounts`; both for `Pauses = FALSE` |
| `EventConsumerProofs!TypeCorrect`, `NothingLost`, `WorkIsExclusive`, `HandledIsMarked` | types; `NoEventLost` unless `SlowWork` or `ReleaseFails`; `NoConcurrentWork` and `HandledStaysMarked` unless `LateDrop` |
| `SessionsProofs!TypeCorrect`, `ChangesEndSessions`, `RotationIsExclusive`, `EndedForGood` | types; `SessionsEndOnChange`; `OneRefreshToken`; `DeadStaysDead` |
| `UsersProofs!UsersTypeCorrect`, `TenantKeepsAnAdmin`, `EmailIsUnique`, `EventsGiveTheUsers` | of `Users`: types; `KeepsAnAdmin`; `UniqueEmail`; `EventsReplay` |
| `UsersProofs!TypesCorrect`, `SignInsAreTheirOwn`, `PageStaysInStep`, `UsersHoldBesideTheRest` | of `Accounts`: `TypesOK`; `TokensOfItsOwn`; `PageInStep`; the three of `Users` |
| `ProfileProofs!TypesCorrect`, `AckedEventsAreApplied`, `NoEventUndoes` | of `Projections`: `TypesOK`; `AckedIsApplied`; `NothingComesBack` |
| `KafkaConsumerProofs!TypeCorrect`, `RecordsKept`, `WorkedInOrder` | types; `LostOnlyUnderClaim`; `PartitionInOrder`; at all times of claim, session and heartbeat |
| `MessagingProofs!LeaseTypeCorrect`, `LeaseCoversPublish`, `MutualExclusion` | of `RelayLease`: types; `PublisherHoldsLease`; `OnePublisher` |
| `MessagingProofs!TypesCorrect`, `NothingIsLost`, `NothingIsTwice`, `OneRelayPublishes`, `PartitionWorkedInOrder` | of `Messaging`: `TypesOK`; `NothingLost`; `NothingTwice`; `OnePublisher`; `PartitionInOrder` |
| `RequestsProofs!TypesCorrect`, `ProbeExclusive`, `ThresholdKept`, `BoundsHold` | of `Requests`: `TypesOK`; `OneProbe`; `HalfOpenHasProbe` and `ClosedBelowThreshold`; `Bounded` |
| `RequestsProofs!NothingStaysBehind`, `SessionsEndByLogout`, `GivenStaysRefreshable`, `NothingIsCutOff` | of `Requests`: `NothingLeftBehind`; `EndsByLogout`; `GivenIsRefreshable`; `NothingCutOff` |

Between them they state every safety property the passing runs check.

In a composition one part moves and the others keep their initial states, so
`PartsInv` is the conjunction of the parts' invariants: each is kept by the steps
of its own part, for the reason below, and by the others' because nothing it
names changes.

**Outbox.** `IInv` joins the types to `CurrentRow` (the row a relay took from
`headOf` still has only closed rows before it: closed rows never open again,
whoever else moved meanwhile), `TransitIsUndelivered`, and the three
properties. That is why order needs neither the lease nor the head: `headOf`
refuses every row behind an open one, and this stays true however long ago it
was read. Leases protect from duplicates, not from disorder. `Implementation`
maps each action to a step of `OrderedDelivery` or to a stutter under the same
invariant.

`OpenHasHead` and `EveryFailureCounts` do need the lease, and with it what only
its holder knows (`Steady`): nobody but the holder works on the aggregate
(`LeaseKept`); a `settleHead` that read a head and saw no row retires it only if
no version was written since, so a row that was added meanwhile is either in its
view or makes the compare-and-set miss (`SettleInView`); the attempts of the row
at hand are those the relay read, with the failures it has recorded (`Counted`);
and a FAILED row has attempts left (`FailedMayRetry`).

**Consumer.** `Base` relates programs, messages and claims. `Marked`, for
`~LateDrop`: a worker holds its claims or has outlived them (`HoldsOrLapsed`),
a held claim has as much time as its holder counts on (`HeldIsFresh`), and
`HandledStaysMarked`. `Kept`, for punctual work and releases that take effect:
a worker's delivery is the message's current one (`Current`); a claim, and the
claim of a worker that died, ends before the delivery it belongs to is handed
out again (`ClaimEndsFirst`, `OrphanEndsFirst`); and every unhandled key is
carried by some message: one that is queued or dead-lettered, one whose
delivery outlasts the claim of its dead worker, or one whose worker has the key
or is about to give the message back (`Carried`). `NoEventLost` alone is not
inductive: a message out with a worker whose claim was refused is about to be
acked, and only `Carried` says that the key is then someone else's.

**Sessions.** Every pair has the version of the pair that names its session
(`SessionVersion`), a refresh under way carries the version of the pair it was
given (`RefreshVersion`), and a session has at most one *right to
continue*: a refresh record, or one request that deleted it (`OneRight`).

**Users.** `KeepsAnAdmin` is about a store that no transaction sees whole. The
invariant says what a transaction's snapshot is worth while it runs: no two
transactions have written one document, none has written what another committed
since, and what it sees of the rest is still so (`Isolated`). So one that is
about to take an active admin away still has another active admin among the
documents it has touched (`Guarded`), and nobody else can take that one before
it commits. An address about to be given is free among the users and among what
other transactions are about to write (`Reserved`), which gives `UniqueEmail`.

The events of a user are kept in a function of any length. `Announced` ties a
transaction about to commit to the event it appends, and `LastIsThere` gives each
field that was ever set its last event; the commit then makes the new event the
last for the fields it sets and leaves the others' last ones, which is
`EventsReplay`; of the schema's lower-casing it needs only that the document has
what `Lower` makes of the e-mail in the event.

**Sign-in and page.** A callback carries an account only if its own identity made
it (`OwnAccounts`), and a code is gone once one exchange deleted it
(`CodesAreSpent`, `AskedWasMade`). The list: a creation that is not muddled is
alone and keeps the list as it was without its user (`KeepsItsList`), and the
list and the answer of a fetch differ from the users there are by the changes
under way only (`ListIsShown`, `AnswerIsShown`). Callbacks: every URL that came is
exchanged or missed, or still in the event queue, the slot or the answer the page
waits for (`OnItsWay`), and one that came alone is exchanged once in a life of
the page (`OnceInALife`).

**Projection and graph.** Every event is queued, out, acked or parked, never two
of these (`OnePlace`); the handler that writes has read the latest content any
copy or stray write shows (`ReadIsLatest`), and what it wrote without a failure
shows (`WrittenShows`). A second welcome mail needs an evicted job
(`MailsAreEvicted`). In the graph, only the handler with the delivery works until
one is taken from it, and past its read the user is not removed (`HolderWorks`),
so what was acked stays applied (`GraphKeeps`).

**Kafka.** Everything between the group's offset and a member's place is settled
(`BehindIsSettled`): handled, dead-lettered or presumed. For how long a record may
be passed under a claim one needs to know whose claim it is: the partition's
owner's, or one of an owner who was killed, and then it ends at most an overhang
after the owner's session (`ClaimEnds`). No assumption relates the times: where
there is no overhang nothing is ever presumed, and the code has one of 3 s. Nobody
joins before the group is pinned, so no record is skipped at the start
(`PinnedFirst`).

**Lease.** `OnePublisher` is not inductive: one has to know that a publisher's
lease outlasts its timer (`PublisherHoldsLease`), and before that, while it
waits for the renewal's reply, that the lease outlasts reply and publish
together (`RenewedInTime`). The assumption on the times carries the first into
the second.

**Pulsar, tracking, dead letters.** Only the last subscription lives, what was
closed or stopped is quiet, and `RunningConsumer` subscribes again only when the
last one is over (`OnlyLastLives`, `StoppedIsQuiet`, `RunnerPlaces`). A tracked
event is in one place of the page (`OnePlace`); past it, a marker tells whether
its row is there (`MarkTells`), and an event that was published has its row or a
message that still carries it (`Live`). Of redrives that do not overlap, one at a
time holds the oldest message, and has published it when it drops it
(`OldestIsHeld`).

**What guards a request.** Breaker: `OneProbe` is inductive with the type
invariant, and so are `HalfOpenHasProbe` and `ClosedBelowThreshold` together.
Lockout: the count of a key is bounded by what is under way. Before the marker
is there, each failure past the limit is of an attempt that has still to set it
(`Marking`); after, each attempt past its look may fail once more (`PastLook`);
and a login, a failed call or a late one gives every attempt one failure more
(`Room`). Refresher: with the lock, one tab refreshes at a time (`OneByOne`), what
it presents is known (`PresentsKnown`), and what it was answered is known until
its body is read and it is kept (`CarriesKnown`); after a logout no tab has or gets a token
(`NoneLeft`). Caches and probes: what is in a cache, or is being fetched for it,
is no older than its time to live and the load, or it is still right.

**What keeps the process.** Gateway: a socket that is counted is past the first
step of its handshake (`SocketsInv`). Vault: the token of an open adapter
outlives the time to its next renewal, or it is as old as its maximum TTL lets it
get and the next renewal is at most the shortest interval away (`Covered` in
`VaultInv`); assumed is only that a login's lease and `RENEW_INCREMENT` exceed
30 s, not what the maximum leaves of them. Workers: once the service stops,
nothing is armed or started, and only a start that waited for the client when it
stopped opens a connection late. Role: a boot that has pushed its stop has every listener
(`BootFits`), so a drain that did not come before awaits them all and, unless its
time ran out, leaves no connection (`DrainFits`). Jobs: the work is in one place, a job that runs or is
being copied or an entry nobody has replayed (`OneToken`), and a failed job has an
entry no replay is about to remove (`LettersKept`). Onboarding: the time a run has
spent is its attempts, the waits between them and its wait for a worker
(`Spends`).

**Model-checked only.** Liveness is out of the prover's reach:
`RowIsSettled`, `NoneStarves`, `MessagesSettle` (of the
consumer and of `messaging`), `Converge`, `GoesOn` and `Progress` stay with TLC.
So do the five disagreements of section 7, which are counterexamples. The type
invariants of `Outbox`, `EventConsumer` and `Sessions` are proved only, and
`RelayPoll`, whose one property is liveness, has no theorem.

## 7. Where code and documentation disagree

| Run | Code | What it does |
|---|---|---|
| `outbox_stuck` | `outbox.service.ts:203` | `repairHeads` compares a due time taken later with the `now` it took first, so a PENDING row behind a head with `dueAt: null` is never put back in line. A redrive racing `settleHead`, or one that stops before `requeue`, leaves such a head. |
| `sessions_marker` | `user.service.ts:245` | Marker writes follow their transactions in any order: a reactivated account can stay marked as suspended, and every request of it is refused. |
| `users_repeat` | `create-user.command.ts:106` | A repeat that comes before the first request's response is stored runs the create too. If it wins, the first one's release frees the key the repeat's response is stored under, and the next repeat is answered 409. |
| `kafka_skips` | `kafka-messaging.adapter.ts:233` | The consumer is made without a session timeout: kafkajs's 30 s and heartbeats of 3 s against claims of 30 s. A member killed right after its claim leaves a claim that outlives its place in the group; the next owner takes its record for a duplicate and the offset passes it, against `:121-123` ("the message is redelivered to another member") and `event-consumer.ts:24-27`. |
| `refresh_logout` | `sdk/api.ts:432` | A logout neither takes the refresh lock nor waits for a refresh in flight: an answer that comes after the logout's signs the tab in again. |

`RowIsSettled` of the run `consumer` and `outbox_stuck` fit together: the first
has no operator action, and a head that a stalled relay retired is *missing*, which
the sweep does repair; the second needs a head that exists with `dueAt: null`.

Seen while modelling, without a run of their own:

- `event-consumer.ts:218`: a release that fails leaves the claim; the redelivery
  comes before it expires and is acked as a duplicate, against `:104-106`.
  `EventConsumer` has it as `ReleaseFails`, under which `NothingLost` is not
  claimed. `:212` leaves out keys another attempt has merely claimed, though
  `:179` and `:195` call the left-out ones done.
- `circuit-breaker.ts:75`: a call from before the opening that succeeds closes
  the breaker inside its reset timeout (`:5` says it stays open that long).
- `outbox.relay.ts:340`: a row that went DEAD by publish timeouts and was
  skipped may still arrive (`outbox.service.ts:328`).
- `user-projection.service.ts:114`: the welcome job's fixed id keeps a second
  mail away only while BullMQ keeps the job, the last hundred of its queue.
- `user-event-store.schema.ts:9` says to replay a user's rows "to rebuild current
  state". The rows have the e-mail as it was typed (`create-user.command.ts:167-171`,
  `update-user.command.ts:82`, `:117`), the user has it in lower case
  (`user.schema.ts:32`): a replay that does not lower-case it rebuilds another
  e-mail. `EventsReplay` is about one that does. The `UserCreated` row of the
  outbox has the typed spelling too.
- `refresh.ts:94-96` clears the abort timer when the headers are there and `:137`
  awaits the body: one that never ends leaves the refresh unsettled and its Web
  Lock held, so every tab waits, against `:31` ("so the cross-tab lock is
  released"). `Progress` names the tab that is stuck so (`Stuck`).
- `temporal-worker.service.ts:84-86`: `onModuleDestroy` forgets the connection it
  closes; a start that it overtook while it waited for the client opens another
  one in `connect()`, looks whether the service stops only once its worker is
  made, and nobody closes the connection. `NothingLeftBehind` names this one
  (`late`, `overtook`).
- `vault-secrets.adapter.ts:199` ("never get close to expiry") and `:205` ("always
  renew well before expiry"): near its maximum TTL (`infra/vault/init.sh:92-94`
  sets one of 4 h over leases of 1 h) a token is granted ever shorter leases, down
  to less than the 30 s of the shortest interval, and runs out with Vault up. An
  AppRole logs in again at the next renewal, so the gap is shorter than 30 s;
  `TokenLives` says so. A static token cannot be replaced.
- `bootstrap.ts:187`: a signal that comes while a surface opens tears modules down
  under its calls, against `docs/architecture.md:200-209`; `NothingCutOff` names the
  case (`early`).
- `bullmq` jobs: a stop or an error between a job's last failure and its copy loses
  the copy (`lost`), and a second replay of an entry may send its job again
  (`excused`); the properties name both.
- `tracking.constants.ts` and `tracking.service.ts:60-64`, `:80-82` speak of an
  SDK that retries a failed batch; `sdk/tracking/index.ts:196-200` clears its
  buffer before it sends and never retries, and the controller has answered 202.
- `jobs-dlq.ts:9-11` and `architecture.md:491` say a copy is enqueued again when
  BullMQ no longer holds its job; `:93-104` does so too for a job it holds that
  did not fail.
- `tenant-directory.service.ts:29-33` and `analytics.service.ts:97` bound
  staleness by the TTL alone; a flight's time comes on top.

## 8. What is not modelled

Inside the modelled components:

- **Clocks of different hosts.** Rows are ordered by `createdAt`, which each
  instance takes from its own clock; `Outbox` appends rows in commit order.
- **Outbox.** Retention, metrics and gauges; how long a poll takes.
- **A broker that is quicker than its ack timeout.** `NoEventLost` needs
  `ClaimDelay + ClaimTTL <= AckTimeout`, live attempts that answer within it,
  and releases that take effect. `KafkaConsumer` has Kafka's session timeout in
  place of the ack timeout, and takes any times; the releases take effect there, too.
- **Users.** What `trim` and the other conversions of the schema do to fields no
  property is about.
- **Sessions.** The tenant's own status, the `SESSION_KEY` record (nothing
  decides with it), signatures, hashes, and the access-only login: one account
  is modelled, and a refused request changes nothing there.
- **Sign-in.** The provider's calls and the signed state of the redirect.
- **Rate limits.** The RPC login limit, a single counter.
- **The mobile shells**, whose launch URL follows the desktop's scheme.

Outside, by component, with the reason in `PROJECT.json`: event handlers after the commit
(best-effort copies of what `Profile` models), mail and push, tenant scoping (a
filter on each query), adapters that keep no state, capability selection, the
RPC and REST surface with guards and interceptors, signing (pure functions),
observability, shared packages and generated code, the Flink job (library
operators), the rest of the frontends, and infrastructure.

Most of the repository's lines are of these kinds: components of a user
interface, messages and DTOs with their conversions, configuration, generated
protocol code and adapters that pass a call on. They have no order of steps that
a property could be about, so the share of lines `map` names stays small; what
it names are the places where the order of steps decides.

## 9. The plan

Done: everything in the table of section 1 with a module; a theorem for every
safety property the runs check.

Next:

1. The pipeline: `Outbox` feeding `EventConsumer`, to state at the level of
   events what the two promise together, and `Refresher` over `Sessions`, whose
   server is for now the part of it that a client can tell.
2. `Profile` as a refinement: each copy implements a register that moves forward
   along the contents of the record.
3. What a logout leaves in the page's caches.

## 10. Running it

    tlc -workers 2 -config OutboxTimely.cfg Outbox.tla
    tlc -workers 2 -config EventConsumer.cfg MCEventConsumer.tla
    tlapm OutboxProofs.tla

No run takes more than about four minutes with two workers.

`PROJECT.json` names each run's module, configuration and expected result, the
source lines behind each definition (`map`), and for each property a mutated
definition under which TLC finds it violated (`mutants`).
