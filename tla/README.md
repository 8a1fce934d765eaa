# Formal models of grest-ts

TLA+ models of the concurrent parts of grest-ts, checked with TLC on small
instances and, where a theorem is stated, proved with TLAPS for every value of
the constants. `PROJECT.json` lists for every definition the lines it models,
for every run what it checks, and for every property of a passing run a mutation
of the code that it catches.

## The system

grest-ts is a TypeScript monorepo: `packages/` (schema, HTTP, WebSocket,
discovery, IPC, runtime, configuration, logging, ...), `packages-libs/` (auth,
locks, jobs, events, databases, documentation generators) and
`packages-tooling/`. Most of its lines validate, parse and format, and do so as
pure functions. What follows is the inventory of the parts with state.

| Component | State it keeps | Operations | Interacts with | Hard part | Correct when |
|---|---|---|---|---|---|
| Lease lock: `withLock`, `GGInstanceLock`, `GGDynamoDbLock` | the lease row (owner, until); per call of `withLock`: `renewedAt`, `renewing`, `lost`, `done`, the heartbeat | `acquire`, `renew`, `release`; heartbeat, hold | store over the network; `fn` of the caller | renewals lost or late, crashes, skewed clocks | two un-aborted runs never overlap; a hold is a cooldown; a dead holder frees the lock |
| Job runner: `GGJobRunner` | `running`, `timer`, `lastConfig`, `stopped` | `tick`, `runNow`, `stop` | `withLock`, settings | stop or a lost lock between any two awaits, instances that check at their own times | one scheduled run per interval over all instances, nothing runs after stop |
| Connection pool: `GGSocketPool` | `sockets`, `pendingSockets`, `poolRefCounts` per key | `acquirePooled`, `release`, `onClose` | connectors, sockets | a close event after the key was reused, shared opens | a shared socket lives exactly as long as somebody holds it |
| Connector: `createConnector` | `socket`, `opening`, `reconnectTimer`, `reconnectAttempt`, `hasOpened`, `finallyClosed` | `connect`, `disconnect`, `close`, `forceReconnect`, retry timer, close event | pool or `connect`, the user's `setup` | every await may be overtaken by a close, a drop or a timer | one connection, none after a close, a lost one comes back or is reported |
| Broadcast: `GGSocketBroadcast` | `live`, `seeding` (connection to queue), `watched` | `join`, `out`, close event | connections, the user's `seed` | broadcasts while a seed runs, seeds that supersede or fail | members miss nothing and never see an old snapshot |
| Socket server: `GGSocketServer` | `activeSockets`, gauges, upgrade registry | connection, handshake, teardown | HTTP server, middlewares | a close or teardown during the handshake | every connection is tracked until it closes, teardown closes all |
| Sockets: `GGSocket`, `GGRawSocket`, `PendingRequestsMap`, heartbeat | pending requests, `isActive`, `lastActivity` | send, respond, ping, teardown | adapters | late responses, watchdog | a request ends once |
| Browser session: `GGAuthSessionBase` | token pair, derived tokens, in-flight refresh | refresh, logout, select, cross-tab events | Web Locks, shared storage, server | logout during refresh, tabs | one refresh per token, logout is final |
| Refresh tokens: `GGAuthRefreshToken` | records: family, spent, expiry | issue, refresh, revoke | store | reuse, revocation in between | a revoked family stays revoked |
| OAuth server: `GGOAuthServer`, `GGOAuthStore` | rows: Grant, Session, codes, refresh tokens | consent, redemption, `revokeGrant`, `revokeAll` | oidc-provider, the store | a redemption or a consent in flight while its grant is revoked | a revoked grant buys nothing, a token is redeemed once |
| Discovery and IPC: `GGLocalDiscoveryServer`, `...ResilientClient`, `SocketHandler` | routes by owner, clients by runtime | register, unregister, yield, elect | processes on one port | leader death, reconnects | a live service stays routed |
| Runtime: `GGRuntime`, locator | lifecycle state, services | start, teardown, signals | all services | signals during start, starts that fail, services that hang | layers start from below and stop from above, a signal ends the process |
| Kubernetes discovery: `GGKubernetesServiceDiscovery` | one ConfigMap for all services | register, unregister, discover | the API server | unconditional and conditional writes that cross | a registered API is found |
| Authorization engine: `GGAuthz` | policies and role bindings of a tenant | decide, list, grant | the store of bindings | two evaluators, missing facts, delegation | lists agree with decisions, no escalation |
| HTTP, configuration, events, the rest | mostly caches | | | | see `components` in `PROJECT.json` |

Components with status `not_modelled` carry their reason there. The hazards of
the code, with their lines, are under `hazards`.

## Modules

| Module | Models | Extended by |
|---|---|---|
| `ExclusiveRun` | abstract: what `withLock` promises | instanced by `WithLock` |
| `WithLock` | `withLock.ts`, with the store as in `GGInstanceLock.ts` and `GGDynamoDbLock.ts` | `MCWithLock`, `WithLockProofs` |
| `SocketPool` | `GGSocketPool.ts`, one key | `MCSocketPool`, `WebSocketClientProofs` |
| `ReconnectConnector` | `reconnectConnector.ts`, clients that own their socket | `MCReconnectConnector`, `WebSocketClientProofs` |
| `SocketBroadcast` | `GGSocketBroadcast.ts` | `MCSocketBroadcast`, `SocketBroadcastProofs` |
| `SocketServer` | `GGSocketServer.ts` with `GGSocket.ts`, `PendingRequestsMap.ts` and the heartbeat | `MCSocketServer`, `SocketServerProofs` |
| `AuthSession` | the root token of `GGAuthSessionBase.ts`, with `webLocksLock.ts` and `localStorageCache.ts` | `MCAuthSession`, `RefreshTokensProofs` |
| `DerivedTokens` | the derived tokens of `GGAuthSessionBase.ts` | `MCDerivedTokens` |
| `RefreshTokens` | `GGAuthRefreshToken.ts` over `InMemoryRefreshTokenStore.ts` | `MCRefreshTokens`, `RefreshTokensProofs` |
| `OAuthGrants` | grants and tokens of `GGOAuthServer.ts` and its stores | `MCOAuthGrants`, `OAuthGrantsProofs` |
| `LocalDiscovery` | `GGLocalDiscoveryServer.ts`, `...Client.ts`, `...ResilientClient.ts`, `bin/discovery-local.ts`, over IPC | `MCLocalDiscovery`, `LocalDiscoveryProofs` |
| `Authz` | the decisions, list plans and grants of `GGAuthz.ts`, with `conditions.ts` and `applyPlan.ts` | `MCAuthz`, `AuthzProofs` |
| `JobRunner` | `GGJobRunner.ts` on several instances | `MCJobRunner`, `WithLockProofs` |
| `RuntimeLifecycle` | `GGRuntime.ts`: start, its cleanup, teardown by signals | `MCRuntimeLifecycle` |
| `KubernetesDiscovery` | `GGKubernetesServiceDiscovery.ts` | `MCKubernetesDiscovery` |

Operators whose comment starts with "Mutant:" are the mutations. They are no
part of any specification; each stands before the definition that it mutates.

Several modules have a Boolean variable that `Init` chooses and no step changes:
`setupFails` (pool), `reconnect`, `retryInitial` and `noticesDrop`
(connector), `calm` (session), `overlap` (derived tokens), `oneInstance` (jobs).
These are options of the code, or circumstances in which a
property is claimed; a run covers all their values at once, and a property that
needs one names it.

Where an interleaving does break a promise, the property does not assume it
away. A history variable, which no action reads, records that this interleaving
has happened, and to what; the property excepts just that, and claims the
rest of every behaviour, before and after: `mislaid` and `orphans` (pool), `early`
and `late` (server), `reborn` (refresh tokens), `returned` and `resumed` (OAuth),
`spoilt` and `struck` (jobs). Beside each stands the same property without the
exception, which fails; known deviations, below, list them.

### WithLock and ExclusiveRun

One lock id. A *run* is one call of `withLock`; `pc` is `acquiring` until the
first answer, `running` while `fn` runs, `settling` while a hold waits for the
renew in flight, and `freeing` while the hold or the release is awaited. The
calls of `GGLock` are records in `calls` that travel: the caller reads its clock
when it sends (`at`, the `:now` of the conditional write), the store applies the
call at any later moment (`ServeAcquire`, `ServeRenew`, `ServeRelease`), and the
reply travels too. `CallFails` is a rejected promise; with `FailedCallsLand` the
call itself may still be applied later. `Crash` kills the process.

`GGInstanceLock` is the case in which the store applies a call in the instant
it is sent, so the runs cover it. An expired row and no row are the same to
every call, which is why `NoLease` is a lease of nobody until 0.

Time is an integer and a third of the TTL (the heartbeat period) a constant.
`Tick` lets a heartbeat be late by at most `Late`, and an `acquire` that
succeeds be awaited for at most `AcquireMax`. Neither is a bound the code
enforces. They are what the safety of the lease rests on:

    Timing == AcquireMax + 2 * Late + MaxSkew < Third

A run that stalls for longer may overlap another one until its heartbeat
notices; the README of the job package says as much. Renews may take any time.

With exact timers a single renew that fails already loses the lock: it is sent
a third of a TTL after the success before it, and the beat after it finds two
thirds gone. The guard `if (renewing) return` then never matters.

`CooldownKept` compares the row with the history `cooldown`: the `holdUntil` of the
latest hold that the store granted, until a call that `Strays` changes the row. A call
strays when nobody waits for it (it failed, or its run is over), or when it is a renew
that was sent so long ago that its TTL is over when it lands. The code cannot know of
such a call, and it may shorten a hold: of its own run, or, where runs share one owner,
of a later run. The property says that nothing else does, which is what the
wait for `renewing` is for (`withLock.ts:68`).

`OwnerOf` gives each run its owner. `DistinctOwners` is an assumption of
`LiveRunHoldsLease` and `ImplementsExclusiveRun` only; a `GGJobRunner` has one
owner for all its runs, and what its late calls do is in `JobRunner`.

`ExclusiveRun` is the promise without leases or time: a run waits, works beside
no other, and is done. Under the refinement mapping `Stage` a run waits until its
acquire is answered and works while it is `Live`, which ends with `fn`, with the
loss of the lock or with a crash.

### SocketPool

One key. `pooled`, `pending` and `refs` are the three maps at that key. A
client (a connector of `createClient`) is `waiting` for an open, has `looked` up
its socket while the `await` before the count resumes, and is `holding` it from
the count on. `Settled` says that no such microtask is due, and guards whatever
starts with a new event: JavaScript drains microtasks first. `Release` is the
closure that `acquirePooled` returns, which acts on whatever socket is pooled
*now*; `Closed` is the pool's `onClose` handler, which does not ask whether the
socket that closed is the pooled one, together with the connectors' handlers.

Clients may acquire at any time, also while an old socket drains. What that does is
recorded: `mislaid` says that the last close event came when clients held another
socket, whose count it zeroed, and `orphans` are the open sockets it took out of the
pool. `TornDownOnlyUnheld` is about clients that acquired a socket, which is from the
count on. A client between the lookup (`:171`) and the count (`:173`) is not spared: a
release of another client in between takes its socket down, as
`OvertakenHoldsOn` shows.

### ReconnectConnector

`phase` and `cur` are the `openOnce` in progress. `manualWaits` says that a
`connect()` started it, and `timerWaits` counts the retry timers that await it:
when it fails, each of them runs `retryOrGiveUp`, and the `connect()` does so
with `retryInitialConnect`. A `connect()` that finds `opening` set only waits
for it and changes nothing. `timers` counts armed timers, and `tracked` says
whether `reconnectTimer` refers to one of them, because an overwritten timer
stays armed and can no longer be cancelled. `wired` is the `onClose` listener of a
socket, with its `setupPhase`. `noticesDrop` says that the user's setup throws
when its socket closed under it.

`connect()` is also guarded by `MaxTimers`, a bound on armed timers that keeps
the model finite.

### SocketBroadcast

Broadcasts are numbered, and stand for the changes of the application's state;
a seed is a call that reads the state (`SeedReads`), sends it as a snapshot
(`SeedSends`) and then returns or throws. `received` is what each connection
was sent. A send on a closed connection has no effect: it rejects, and the
rejection is logged, or is the seed's own. `watched` are the connections whose
close callback will run: `GGSocket.onClose` never runs a callback that was
registered after the close event. `since` is a history variable, what was
broadcast before the connection became a member without a seed. `MayThrow`
excludes seeds that throw after they superseded another, unless
`LateSeedsThrow`.

### SocketServer

A connection goes from `awaited` (upgrade accepted, `HANDSHAKE` awaited) over
`auth` (middlewares awaited) to `open` or `rejected`. `ws` is the `readyState`,
`listening` whether the `GGSocket` was there when the ws closed: after the close
event `onClose` registers a listener nobody calls. `Open` asks neither whether the
ws is still open nor whether the server is being torn down. `cleaned` is
`isCleanedUp`. `Reap` is the watchdog; a heartbeat is assumed to be on, as by
default. `teardown` is where `GGSocket.teardown()` of a connection is, and each
of its waits has a timeout. An `Answer` to a request that timed out throws in the
message handler, which changes nothing.

### AuthSession

Token mode. A pair stands for an access and a refresh token; pairs are numbered
in the order the server makes them, and `near`, `dead` and `gone` are how far in
that order the access tokens are within the lead time or expired and the refresh
tokens expired. `cache` is localStorage, and `events` the storage events on their
way to each tab. `refresh` is `waiting` in `withLock("auth-refresh")` and `asking`
while the server is awaited, in the critical section. `calm` is the world in
which the lock exists, answers get through, and events and answers arrive before
a token ages; otherwise none of that holds, as without `navigator.locks`.
Of the server, `Redeem` keeps what `RefreshTokens` shows of the strict policy.

Left out: cookie mode, listeners, and a request of a tab that reloaded or
failed which reaches the server later.

### DerivedTokens

One tab and one derived key. A token is known by the organisation and the user it
was minted for; `pool`, `active`, `flight` and `wire` are `entry.pool`,
`entry.active`, `inflightDerivedMint` and the key's value. With `overlap` the
application may ask for anything while a mint is in flight.

### RefreshTokens

Each call of `refresh()` is a sequence of steps between its awaits. A store
method acts when it is called. `held` and `found` are the token it was called
with and the record it read; `lost` is the loser of `markSpent`, and `failed` a
call about to save the record as it was found. `grace` is `reuseGraceMs`, 0 for
the strict policy. A token that is stored no longer keeps its last record, for
the properties. `ended`, `survivors` and `reborn` are history: whether a family was
logged out or revoked, which calls were under way for it when it was revoked, and
whether one of these has saved a token of it since. A family that is revoked again
(by reuse detection, or `revokeAll`) is no longer `reborn`.

### OAuthGrants

One account. oidc-provider's own steps are modelled from the hooks and the store
methods it calls here: an authorization reads a grant, saves it, saves a code and
the session; a redemption finds its token and grant, runs `rotateRefreshToken`,
consumes, runs `extraTokenClaims` and saves the new refresh token. Access tokens
live out their TTL, as the comment at `revokeGrant` says, and are left out. Both
stores are covered: `consume` is one conditional write in either. `revokeAll` lists the
grants while it destroys the sessions, and then removes the rows (`RevokeRows`) and
the Grant (`DestroyGrant`) of each, in any order, each once. An authorization under way
while anything is revoked is `overtaken`; what it saves is recorded in `returned`
(grants) and `resumed` (the session) until it is revoked again.

### LocalDiscovery

Every runtime registers the route of one API; replicas share theirs. `join` is
where `becomeLeaderOrFollower` or `connectToLeader` is, `start` where
`register()` is, `stop` where the teardown is. `conn` is the `IPCClient`:
`lost` when the router is gone and the close event has not arrived, and `leaving`
are closes the router has not heard. `wired` are the connections with the
`onClose` handler that `connectToLeader` adds at its end. Closing events of one
connection arrive after what was sent on it. `promoted` and `unjoined` are history
variables that two properties use.

The parallel connects of one client count as one connection, because they end at
one router; request timeouts and the 100 attempts of the standalone router are
left out; the 20 retries of `ensureConnected` are `StartGivesUp`, at any moment at
which a retry would be refused.

### Authz

A decision reads policies and bindings and writes nothing, so the module is
mostly operators; its actions are the two that change what later decisions
see. `Tested` is the three-valued outcome of facts and conditions, `Decides` is
`decideWith`, with `bindingsOnly` for what `canGrant` asks of the grantor.
`ListAllowed` and `ApplyPlan` are the other evaluator: a plan that is made
before the rows are known, of filters that hold a scope and the tests that
remain. Glob patterns become sets of resources. A test asks for a fact (`when`,
`unless`), compares an attribute, or asks whether it is `present` or `absent`. It finds a
value, which may be `missing` or `odd` (of the wrong type for the operator); `Judge` is
`evalCondition`: a comparison with either is unknown, but presence is always known
(`conditions.ts:37`).

An `Answer` is what the tests of one request find, a `World` gives an answer to each
`Asker`: the actor, whom it acts via, and on whose behalf. `AnswersToConditions` says
what two askers have in common: attributes of the resource, the context and the
principal are the same for all who ask on one authority, `actor.*` (`OfActor`) for one
actor on one authority, and a fact may depend on all of the request
(`GGAuthz.ts:636`, `:691`). `canGrant` asks action by action, each a request of its own
for which facts may be answered differently (`Probes`).

`UnknownFailsClosed` has one exception, `Appears`: an attribute that is missing, whose
presence a rule asks for, and that appears. Its absence was an answer, not an
unknown; `conditions.test.ts:54` pins that `present: false` allows while it is missing.
`DelegationNarrows` has one as well, `JudgedAlike`: a binding of ann conditioned
on `actor.key` grants to the agent on her behalf and not to ann alone, which is what
such conditions are for. `NothingLearntHurts` and `DelegationNarrowsAnyway` are the two
without the exceptions; both fail in the bounds of the run.

### JobRunner

One job on several instances. Of `withLock` the module keeps who holds the lock:
`holder` is the run of an instance, nobody, or `Orphan`, a lease whose process died or
whose call failed and landed, which ends with its TTL; `jobCooldown` is what a hold
left. A run goes through `acquiring`, `loading`, `rows`, `reporting` and
`freeing`; the signal of `runBatches` is `Aborted`, and a batch keeps only how
many rows are left and how many are at work. `since` is a history variable, the
time since the last run that held the lock on began. Ages are counted as far as
`Due`, the interval less the slack, because nothing depends on more. Each `TickLoop`
reads the settings anew.

All runs of a runner have one owner (`GGJobRunner.ts:206`), so the lock is not the one
that `WithLock` proves exclusive for `DistinctOwners`. A call of an earlier run that
nobody waits for any more passes the store's check of the owner. It may shorten the
cooldown (`LateCallShortens`), end the lease of the run now at work
(`LateCallStrikes`), or take a free lock that nobody then releases (`LateCallAcquires`);
that it may also prolong a lease or a cooldown only delays runs. Each is possible only
while the instance has a run behind it (`past`). `CooldownKept` of `WithLock`
is the justification: it is proved for any owners, and says that a granted hold
is cut by such calls alone. `struck` and `spoilt` record the run and the cooldown that
a late call has hit.

The clock of each instance is `Ahead` by a constant of up to `MaxAhead`. `holdUntil` is
computed on one clock and compared on another (`:203`), so an instance that is ahead
finds the lock free that much earlier (`Free`), and one that is behind finds it late.
Hence `HeldRunsAreSpaced` promises `Due - MaxAhead`, of which the code's slack is the
part it allows for itself.

### RuntimeLifecycle

`main` is where `start()` is, and `pc` where each `callTeardownCallbacks` is: that of
the start that failed, and one of each signal, which may all be under way at
once. `below` and `busy` are the level its loop has reached and the services whose
teardown it awaits. `stuck` are services whose teardown never settles, and
`disturbed` says that a signal was heeded before the start had ended.

### KubernetesDiscovery

The ConfigMap is `exists` and `data`; `current` says whether the `resourceVersion` a
process has read is still the ConfigMap's, which is all a conditional write asks.
The PUT of a registration carries none and replaces the data. `alone` is a history
variable: nobody else registered since, and no replica withdrew.

## Runs

| Run | Bounds | States | Shows |
|---|---|---|---|
| `lock` | 2 runs with owners of their own, one with a hold of 9, TTL 6, clock to 8, acquire up to 1 | 1.5 M | `LiveRunHoldsLease`, `CooldownKept`, `LockoutBounded`, and that `WithLock` implements `ExclusiveRun`, with crashes and failed calls that land |
| `pool` | 3 clients, 2 sockets | 5 k | one open at a time, every acquire answered, every teardown ends; exact counts and no teardown under a counted client until a close event mislays a count |
| `reconnect` | 3 sockets, 2 attempts, all options | 21 k | one connection, nothing after a close, the close is reported, a lost connection comes back |
| `broadcast` | 1 connection, 3 seeds, 2 broadcasts | 290 k | nothing lost, no snapshot overtaken, no closed member, broadcasts arrive |
| `refresh_rotation` | 1 family, 3 tokens, 2 calls, clock to 3, both policies | 1.9 M | one live token per lineage, failures burn nothing, a revoked family comes back only by a call that survived its revocation |
| `session_tabs` | 2 tabs, 3 pairs | 2.7 M | no replay, the cache can be redeemed, no working pair is wiped |
| `socket_server` | 2 connections, 1 request each | 14 k | what is listed is open unless it closed in its handshake, a stopped server serves only who was in its handshake when the teardown began, requests settle, vanished peers are noticed |
| `oauth_grants` | 2 grants, 3 tokens, 2 requests | 2.6 M | one redemption; a revoked grant buys nothing, and logged out is logged out everywhere, but for what an overtaken authorization saves |
| `local_discovery` | 2 replicas, the standalone router, 1 fall | 250 k | routes are withdrawn by their API only, a router that stays gathers them |
| `authz` | a chain of 3 resources, 2 actions, 2 roles, 3 principals, 5 subjects, 42 answers, 96 worlds, policies of up to 2 parts, 2 bindings at a time | 474 | lists agree with decisions, unknown fails closed, a named scope helps, delegation narrows, grants conserve access |
| `job` | 2 instances, one clock ahead by 1, interval 3, a check every 2, batches of up to 2 rows, 1 crash or late call | 3.3 M | runs by schedule keep their distance, stop leaves nothing behind, an aborted run begins nothing |
| `discovery_failover` | as `local_discovery` | | violated: a promoted follower has its routes |

The bounds. A clock of 8 lets a run acquire, be lost, expire and be followed by
another that beats once; a run takes part in at most one acquire, so more time
adds none. A closed socket's identity is used again, so two sockets of the pool and three of the
connector let one drain, one be current and the next open, for ever. Two attempts
reach the limit and the retry before it. Three seeds let one supersede one that
superseded another. Three tokens are a login and two rotations, and two calls are the
race for one token; three pairs let each tab refresh what the other fetched, or
follow a new login. Two grants are one revoked and its successor; three OAuth
tokens a code and two rotations. Two runtimes and the standalone router are three
candidates for the port; a fall is a crash, a SIGTERM or an end of the standalone
router, after which the rest must recover. Each state of `authz` is a policy with the bindings of
the moment, and every property quantifies over all subjects, actions, resources
and worlds in it; two parts of a policy are, say, a deny beside a ceiling, and its approvals have
settings that disagree. Its answers leave the second factor, the owner of the row and the
network unknown, in both ways; one rule asks whether the row has an owner, one binding
whether the actor is an approved agent, and a world may give a chain another answer than
the person. An interval of 3 with a check of 2 makes the checks of two
instances fall before, at and after the end of a hold, and a clock that is ahead by 1
reads it early; one fault is a crash or one late call. The run has one row at a time and
no batch more; `MCJobRunner_recurs.cfg` has two workers and a second batch.

In the `lock` run all clocks agree. Skewed clocks are covered by the proofs, where
`MaxSkew` is any number that `Timing` admits, or any at all for the two theorems
without `Timing`.

Deadlock is not checked where the system may stop: runs end, clients may never
act again, and the bounds on time, tokens and broadcasts end the behaviour.

### Checked by hand

These configurations pass as well, with `tlc -config <configuration> <module>`.
They are not among the runs of `PROJECT.json`.

| Configuration | Bounds | States | Shows |
|---|---|---|---|
| `MCDerivedTokens_selection.cfg` | 2 organisations, 2 users | 5 k | `ActiveIsKept`, `WireIsActive`: the active token is kept, and the wire carries it |
| `MCRuntimeLifecycle_all.cfg` | 3 services on 2 levels, 2 signals | 49 k | `LayersHold`, `NothingIsLeft`, `ShutdownEnds`: without a signal during the start, layers start from below and stop from above and a failed start leaves nothing; a signal ends the process |
| `MCKubernetesDiscovery_all.cfg` | 2 replicas of a service with 2 APIs, 2 other services | 196 k | `WithdrawalIsClean`, `ListedWhileAlone`: a withdrawal loses no registration and revives none, and a process that registered is found until another registers |
| `MCJobRunner_recurs.cfg` | 1 instance, all settings, 2 workers, one batch more | 14 k | `JobRecurs`: the job goes on whatever was lost, failed or crashed |

### Known deviations

`discovery_failover` expects a violation; `findings` quotes the document. A
follower promoted by the death of its leader starts a router and registers
nothing with it: the leader branch of `becomeLeaderOrFollower` does not publish
its entries, and nobody calls `register()` again.

The following disagreements between the code and what it says of itself are
behind the conditions of the passing properties. None is among the runs. Where a
configuration is named, TLC shows the counterexample with it; "in X" means: in place
of the properties of X.

| Where | Property | What happens |
|---|---|---|
| `MCWithLock_runner.cfg` | `CooldownNeverCut` | with one owner for all runs of a `GGJobRunner` (`GGJobRunner.ts:206`), a renew of an earlier run lands late and shortens the hold of a later one |
| in `MCJobRunner_all.cfg`, as a property | `RunsAreSpacedAnyway` | the same, seen from the jobs: another run by schedule begins before the interval is over |
| `MCSocketPool_late_close.cfg` | `ReleaseSparesOthers` | a client acquires while the last socket drains; the close event of the drained socket evicts the new one and zeroes its count, and the release of one client then tears down what another holds (`GGSocketPool.ts:143`) |
| in `MCSocketPool_late_close.cfg`, alone | `OvertakenHoldsOn` | a client finds the pooled socket, the last holder releases it before the first is counted, and the first holds a socket that drains (`GGSocketPool.ts:171`) |
| `MCReconnectConnector_stranded.cfg` | `EveryDropIsRecovered` | a drop during a setup that then succeeds is forgotten (`reconnectConnector.ts:271`) |
| `MCSocketBroadcast_failed_reseed.cfg` | `MembersMissNothing` | a seed that superseded another and throws drops what was queued for the other (`GGSocketBroadcast.ts:62`) |
| in `MCRefreshTokens_rotation.cfg` | `RevokedLineageIsDead` | a family revoked while one of its calls mints gets the new token afterwards, although "the whole lineage is revoked" (`GGAuthRefreshToken.ts:56`, `:109`) |
| in `MCSocketServer_all.cfg`, as an invariant | `ListedAreThereAnyway` | the peer closes during the handshake, and its entry in `activeSockets` stays (`GGSocketServer.ts:333`) |
| in `MCSocketServer_all.cfg`, as an invariant | `StoppedServesNoneAnyway` | a handshake completes after teardown took its snapshot of `activeSockets`, and the stopped server serves the connection (`GGSocketServer.ts:227`) |
| in `MCOAuthGrants_all.cfg`, as an invariant | `LoggedOutEverywhereAnyway` | a consent in flight saves the grant or the session after `revokeAll` (`GGOAuthServer.ts:338`) |
| in `MCAuthSession_tabs.cfg`, as an invariant | `LogoutSticks` | a refresh in flight restores the session after a logout (`GGAuthSessionBase.ts:272`) |
| in `MCDerivedTokens_selection.cfg`, as an invariant | `WireIsNotAnothers` | a remint that answers after a switch puts the former organisation's token on the wire (`GGAuthSessionBase.ts:340`) |
| in `MCKubernetesDiscovery_all.cfg`, as a property | `RegisteredIsDiscoverable` | the PUT of a registration replaces the data of the ConfigMap (`GGKubernetesServiceDiscovery.ts:145`), although services share it so that they discover each other (`:85`) |
| `MCRuntimeLifecycle_signalled.cfg` | `StatesInOrder` | a signal during the start is followed by `RUNNING` (`GGRuntime.ts:136`); "The runtime goes through these states in order" (`README.md:38` of the runtime) |
| in `MCRuntimeLifecycle_all.cfg`, as an invariant | `TornDownInReverse` | after a start that fails, its cleanup is followed by a second teardown of everything (`GGRuntime.ts:141`); "Teardown runs in reverse order" (`README.md:78`) |

More show when the condition named in a property is dropped: `PooledIsOpen` with a
setup that throws and so closes the shared socket (`reconnectConnector.ts:299`); `LiveAreOpen` with `LateJoins`, because `join()` after the close
event keeps the connection for good. Of discovery, a runtime that loses the race for the port and then finds it free stays in
`connectToLeader` and never bids (`...ResilientClient.ts:90`); one that shuts
down while `router.start()` is awaited still takes the port; and a runtime whose
services called `discoverApi` before `register()` has no handler for the death of
its leader (`:21`).

## Fairness

`WithLock`, `AuthSession`, `DerivedTokens`, `RefreshTokens`, `OAuthGrants`, `Authz` and
`KubernetesDiscovery` have no liveness property. `SocketPool` assumes that microtasks
run, that the microtask queue empties again and again, that an open settles
(the handshake has a timeout of 5 s), that teardown ends (5 s for requests and
5 s for callbacks) and that `close()` is followed by a close event. Those events
get strong fairness, since they wait while microtasks run. `ReconnectConnector`
assumes that timers fire, that opens and teardowns end, and that the user's setup
settles, which the code does not enforce. `SocketBroadcast` assumes the same of
a seed. `SocketServer` assumes its timers (handshake, request, watchdog, the two
of teardown) and the close event that follows a `close()`. `LocalDiscovery` assumes that a process that lives
goes on, and that a router hears of connections that closed. `RuntimeLifecycle` assumes
that starts settle, that teardowns settle but those of `stuck` services, and that the
timeout of a shutdown fires. `JobRunner` assumes that time passes, timers fire and
leases expire, that the store and the job's own functions settle, and that an
acquire that could succeed does not fail for ever, which is weaker than a store that
works. Nothing is
assumed about users, peers, crashes, drops, broadcasts, or who wins the port.

## Proofs

Each `...Proofs` module proves its theorems for all values of the constants, under
the named assumptions of its module. The runs check the invariants first. Three
modules hold the proofs of two components that belong together: `WithLockProofs`
also has those of `JobRunner`, `WebSocketClientProofs` those of `SocketPool` and of
`ReconnectConnector`, and `RefreshTokensProofs` those of `AuthSession`, the client of
what the refresh tokens serve. Each extends both of its modules, which is why the
names of `JobRunner`, `ReconnectConnector` and `AuthSession` differ from those of the
other (`JobSpec`, `ConnectorSpec`, `SessionSpec`). The two specifications stay apart:
no theorem is about both.

`WithLockProofs`: `TypeCorrect`; `LiveRunHoldsLeaseTheorem` and, from it,
`LiveRunsExcludeTheorem` and `ImplementsExclusiveRunTheorem`, under
`DistinctOwners` and `Timing`. `LiveRunHoldsLease` is not inductive: whether the
lease outlasts the clock depends on when the next beat is due and on the renew
that is out. `IInv` adds

* `CallsOK`: no call is from the future, and a lease asked for ends a TTL after
  the asking;
* `AcquiringOK`: the one acquire is out for at most `AcquireMax`, and once it
  succeeded the row is the run's;
* `LiveOK`: the row of a live run reaches a TTL past `renewedAt`; the next beat
  (`BeatOK`) is the first after the last success, and will renew, or the second,
  and will lose; and the one renew that can be out belongs to the last beat.

`RelianceIsSafe` says that the lease of a run that relies on it is ahead of
every clock, so no acquire takes it; with distinct owners no other run renews or
empties it. The rest goes action by action. For the refinement, an acquire that
is answered becomes a `Begin`, which exclusion allows, or a `GiveUp`; whatever
ends `Live` is an `End`; every other step stutters.

Two more theorems need no hypothesis, neither `Timing` nor `DistinctOwners`.
`LockoutBoundedTheorem`: what is in the row was asked for (`Asked`), a TTL from some
clock or the `holdUntil` of its owner's run. `CooldownKeptTheorem` (`Kept`): while a
cooldown stands, the row covers it, and every run of the row's owner is `Spared`, it
leaves the row alone but for calls that stray. The runs of one owner take turns
(`TakeTurns`, what `JobLoop.running` ensures), so when a hold is granted its run is the
only one that works. That run's own renew in flight is the danger, since it would
set the row back to a TTL; `Waited` says that it was waited for, until it was answered
or a TTL had passed.

The section on jobs has four theorems: `StoppedIsIdleTheorem`, `OneRunAtATime`,
`AbortedBeginsNothingTheorem` and `HeldRunsAreSpacedTheorem`. `JobInv` says who
holds the lock (`HolderWorks`: the instance whose run is past its acquire, has
not lost it, and was not struck by a late call), what is left of an instance that
returned from `stop()` (`ReturnedIsOver`), and that what is left of the cooldown covers
the time to the next due run unless a late call shortened it (`Spaced`). An instance
whose clock is ahead takes the lock that much sooner, which is `MaxAhead` in the property.

`WebSocketClientProofs`, the pool: `TypeOK` and `SingleFlight` (`OpeningIsPending`: a socket is
being opened exactly when it is the pending one), `PooledIsOpen`; and for
`CountsHolders`, `NoSocketLeaks` and `TornDownOnlyUnheld`, without an assumption on who
acquires when, `HandedOpened` (who was handed a socket was handed an opened one, and
the pool has no other) and `RefsCountHeld` (until a close event mislays it, the count is
at least the number of clients that hold a socket of the key, and equal to it where no
setup fails), by the cardinality facts of finite sets.

The connector: `OneConnection` and `ClosedStaysClosed`, from
`HandshakeIsOpening` (a socket in its handshake is the one `openOnce` opens),
`OpenIsTheSocket` and `ClosedHasNone`; and `ReportIsDueTheorem`, the safety half of
`ManualCloseIsReported`: once a connector is closed, `onClose` has been reported or
a close event that will report it is still due (`SocketIsWired`). What is left
to TLC is that the event comes.

`SocketBroadcastProofs`: `LiveAreOpen` where nobody joins after the close.
`Audience` strengthens it: a member is watched, whoever has a seed in flight is
watched, and the watched are open, so a seed that returns after the close admits
nobody. `NeverOvertaken` holds without a hypothesis, `MembersMissNothing` where no
seed that superseded another throws (`LateSeedsThrow = FALSE`;
`MCSocketBroadcast_failed_reseed.cfg` shows what happens otherwise). Both rest on
`SeedsRun` (the seed whose queue gates a connection is under way, and about that
connection) and `NoneReadsAhead` (no seed has read what has not happened). `Order`
adds that a queue is in order and newer than what was sent, and that a snapshot
read is as new as all that was sent, because a gated connection is sent nothing but
by its seed. `Covered` adds that each change a member is owed was sent, is queued,
or is promised by the snapshot still to come, of a seed that will not throw.

`SocketServerProofs`: `NoneWaitsOnClosed`, `ListedAreThere`, `StoppedServesNone`.
The invariant: a connection that did not close early is open throughout its handshake
(`ShakingIsOpen`) and listens when it is listed (`ListedListens`), what is cleaned is not
listed (`CleanedWasOpen`), what is active is listed (`ActiveIsListed`), and once the
server tears down, each handshake under way is late, and each active socket is late too
or on its way down (`TeardownReached`).

`RefreshTokensProofs`: `OneLiveToken`, `RevokedStaysRevoked`, `NotBurned`. Under the strict
policy a family has at most one bearer: its live token, or the call that spent it
and will mint or restore; the call was the single winner of `markSpent`. For a family that
was revoked only survivors work, the calls under way at the time, and it has no stored
token until one of them saves one (`Buried`).

The section on the browser session: `NeverReplayed`, `CacheIsRedeemable` and
`OnlyDeadPairsAreWiped`. The last needs no lock: the server refuses only a pair that
is dead for good (`RefusedAreDead`), and a tab wipes the cache only of the pair it asked
with, or of one that is too old to ask with. The first two are about a calm world and need each other, with `Settled`.
Their core is `UpToDate`: of the cached login, a tab that is not about to hear of the
cached pair knows no other pair. A tab that is about to hear of it cannot ask,
because what an event carries is younger than any pair that ages (`EventsAreFresh`),
so `doRefreshCrossTab` adopts the cached pair instead. A commit keeps this because
the answer is the newest pair of its login and all its elders are near
(`Answered`, from `Newest`), so no event on its way carries one of them.

`OAuthGrantsProofs`: `RedeemedOnce` (`ConsumedOnce`: whoever is past `Consume`
found the row live, and the row stays consumed or gone), `RevokedBuysNothing` (`RevokedStayAway`:
nothing is being revoked while an authorization is under way that was not overtaken, so a
revoked grant is in no row of `Grant` unless an overtaken one saved it),
`LoggedOutEverywhere` (`AllAreListed`: while revokeAll runs, the grants that are
left are those it listed or that came back), and `ClaimsBurnNoRefreshToken`.

`LocalDiscoveryProofs`: `RoutesAreOwned`, `LoyalToBin`, `OnlyItsApiWithdraws`, from
`RulersAreIdle`, `BiddersAreUnaware` (who bids has not seen a standalone router)
and `LeavingAreClosed`.

`AuthzProofs`: all five properties of `Authz`, for any scope tree, policies,
subjects, worlds and roles. `AuthzAssumption` says what the parsing of policies
and models ensures (a rule of a ceiling never asks for `humans-only`, what is
set is set on a resource), `AncestorsNest` what the resolver and `checkedChain`
ensure (the ancestors of an ancestor are the rest of the chain, and no chain is
cyclic), `AnswersToConditions` what `lookup` ensures of those who ask on one authority.
Nothing here is about interleavings except `AccessIsConserved`, which is
inductive: a binding reaches nothing that a founding one did not, because its
grantor needed a binding at or above the same place. The rest are facts about
the operators:

* `UnknownFailsClosed` by monotony (`KeepingAllows`): where nothing appears whose presence
  is asked for, `Tested` never leaves `yes` or `no` when an
  unknown is learnt, so a grant, a rule of a ceiling and a deny that did not
  match stay as they are. The level that a ceiling asks for can only fall, because
  more of its rules pass.
* `DelegationNarrows` and `ScopeRemedyWorks` by comparing the denies, the ceilings
  and their levels of two subjects. What is delicate in both is `CeilingLevel`,
  the maximum of the minima of sets that change. Two askers on one authority find the
  same by `AlikeKeeps`, where `JudgedAlike` covers the tests that see the actor.
* `ListsAgree` filter by filter: each filter of a plan is the rule it came from,
  restricted to the row. The one part that is not local is `humans-only`: the
  decision walks the chain from the root (`approvalFor`), the plan names the scopes
  that set it and excepts those below that lower it (`humansOnlyFilters`). The
  lemma `WalkFinds` says what the walk computes: it ends at `humans-only` exactly when
  the floor or a locked setting of the chain asks for it, or the nearest scope that
  sets any level sets that one.

`approvalFor` is a fold over a chain of any length. Induction by the library's
theorems is not available, since they take an operator as a parameter; the lemmas
on folds here argue by a least counterexample instead (of the parts of the chain
for which a claim fails one contains no other), by `WFMin`, which takes a relation.

Only model-checked: the liveness properties (`ManualCloseIsReported` and all
others under fairness), everything of `DerivedTokens`, `RuntimeLifecycle` and
`KubernetesDiscovery`. Liveness under fairness and
`ENABLED` are beyond the prover and stay with TLC.

## Not modelled

* `GGContextKeySynchronizer`, the teardown drain of the HTTP server, the client's
  handshake, and the delivery of events: they have state and would each be a module
  of their own.
* Of the authorization engine, step-up remedies, `GGAuthzAuthority` and the
  validation of models; of the browser session, cookie mode; of the runtime,
  `teardown()` without an exit; of discovery, the routing strategies and the proxy.
* Pooled clients' `disposeSocket` path composed with the connector: `SocketPool`
  and `ReconnectConnector` each model one side.
* The rest is pure validation, parsing, formatting, generation of code and
  documents, user interface, or I/O behind one call. It is most of the
  repository's lines. No state is shared there between actors, and unit tests
  reach it; a model would restate it.

## What would come next

`EventDelivery`; the pool composed with the connector; `JobRunner` with `WithLock` in
place of its contract; one theorem that lets the server of `AuthSession` be
`RefreshTokens`.
