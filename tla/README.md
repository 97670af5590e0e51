# wazuh-mcp in TLA+

wazuh-mcp is an MCP server that lets an assistant query and act on Wazuh for
several tenants. This directory models the parts of it whose correctness depends
on the order of events: the rate limiter and its circuit breaker, the audit
sinks, the path of a request from its credential to a session, of a tool call
from the session's role to the request at Wazuh, and of that request through the
client pools and the token of the Server API; and what a client sees that walks
through the pages of a search. Paths below are relative to `src/src/wazuh_mcp/` unless they start with
`docs/`.

1. [The system](#1-the-system)
2. [Plan](#2-plan)
3. [Modules and code](#3-modules-and-code)
4. [Runs](#4-runs)
5. [Fairness](#5-fairness)
6. [Proofs](#6-proofs)
7. [Disagreements](#7-disagreements)
8. [What is left out](#8-what-is-left-out)

## 1. The system

The server is one asyncio process per replica. One task runs at a time and gives
way only at an `await`, so code between two awaits is atomic within a replica;
replicas share Redis (rate limits) and the Wazuh indexer (audit documents).

| Component | State | Operations | Talks to |
|---|---|---|---|
| `_RedisCircuitBreaker` (`rate_limit/redis_limiter.py`) | state, consecutive failures, time of opening, probes in flight | `call` | Redis, under `wait_for` |
| `RedisRateLimiter` (same file) | script SHA, fallback limiter | `acquire`, `_run_script`, `_load_script` | breaker, Lua script, fallback |
| Lua script (`rate_limit/lua/token_bucket.lua`) | a hash per bucket, with a TTL | one atomic evaluation | the clock of the caller |
| `InProcessRateLimiter`, `TokenBucket` (`rate_limit/`) | token counts per tenant and session | `acquire`, `try_acquire` | none |
| `QueuedSink` (`observability/sinks/base.py`) | pre-start buffer, queue, drain task, stop flag | `start`, `submit`, `stop`, drain loop | a stream or a file |
| `HttpSink`, `WazuhIndexerSink` (`observability/sinks/`) | the same, a batch in hand, template flag | the same, batched drain loop | HTTP endpoint, indexer |
| `MultiSinkAuditEmitter` (`observability/audit.py`) | sinks in order, routes per tenant | `start`, `emit`, `stop` | the sinks |
| HTTP lifespan (`transport/http.py`) | none of its own | start and shutdown | session manager, emitter |
| `instrumented_tool` (`observability/decorators.py`) | none beyond the call | the wrapper of every tool | policy, limiter, emitter, handler |
| RBAC (`rbac/`, `tenancy/m4_config.py`) | configuration, read once | `is_allowed`, resolvers, write filter | tool listing and tool calls |
| Write tools (`tools/write.py`, inner handlers in `server.py`) | none | check, request | Server API client |
| Server API client and pool (`wazuh/server_api*.py`) | JWT, mint lock, client per tenant | `_request`, mint, renew on 401, `acquire`, `aclose_all` | Wazuh manager, secrets |
| Indexer client and pool (`wazuh/indexer*.py`) | client per tenant | `acquire`, `aclose_all` | indexer, secrets |
| `CachingSecretStore` (`secrets/caching.py`) | cached values, fetches in flight | `get`, `invalidate` | a secret driver |
| OAuth, `JwksCache` (`auth/`, `tenancy/issuer_index.py`) | key set, discovered URI, time of last refresh, lock | `build`, `get_key`, `_refresh` | the identity provider |
| API keys, session factories (`auth/`) | key hashes | choose a method, make a session | HTTP transport |
| Read tools, query builder (`tools/`, `wazuh/query.py`) | none: the cursor is the client's | build a query, shape a page | indexer client, Server API client |
| Resources, prompts (`resources/`, `prompts/`) | none | one to three upstream calls each | both clients |
| Metrics, tracing (`observability/`) | counters | record | none depends on them |

What is hard about it, and what makes each part correct:

- *Breaker.* The lock is not held while Redis is called, so outcomes are recorded
  in a state other than the one the call was admitted in. Correct if it opens
  exactly at the threshold, probes within its budget, cools from the latest
  failure, is decided by its probes only, and closes after Redis is back.
- *Limiter.* A call is two script calls, each of which may fail before or after
  Redis has executed it. Correct if a granted call took one token of each tier
  from one backend, nothing is charged twice, the fallback is one budget and not
  one per outage, and every call ends.
- *Script.* The bucket is computed lazily, forgotten by its TTL, and timed by the
  caller's clock. Correct if no window of time grants more than capacity plus
  refill.
- *Sinks.* Eviction, retry, interrupted backoff and `stop()` with a timeout race
  on one queue and one counter. Correct if every event is delivered, counted as
  dropped or lost only by a stop; in order; and if `join()` waits for exactly
  what is open.
- *Emitter.* Correct if requests are served with every sink started, and no sink
  outlives a failed start or the shutdown.
- *Tool call.* Four checks in three places, on both sides of awaits, and a
  cancellation at any of them. Correct if only what all checks permit reaches
  Wazuh, announced first, and if the trail tells how the call ended.
- *Session.* A token names an issuer, a key and perhaps a tenant. Correct if keys
  are refreshed at most once per window, yet a published key is refused only while
  there is a reason, and if no token opens a session of another tenant.
- *Secret cache.* One fetch shared by several callers, raced by `invalidate` and by
  the cancellation of any of them. Correct if a value is stale only within a bound,
  an invalidation is heard, nobody fails by an earlier call's failure, and every
  `get()` ends.
- *Clients and pools.* A token that may expire or be revoked while requests are on
  the wire, concurrent 401s, late answers, a pool closed while it creates a client.
  Correct if a write is never sent twice after it may have been carried out, tokens
  are minted only when needed and in time, and no pool holds two clients.
- *Searches.* The server keeps nothing between two pages. Correct if a walk returns
  nothing twice, only what was asked for, and misses something only for a reason.

`PROJECT.json` lists each hazard at its line with the properties that cover it.

## 2. Plan

Done, in the order of importance it was done in:

1. `CircuitBreaker` with its proofs; `RedisRateLimiter`, which composes with it.
2. `SharedBucket` against the abstract `IdealBucket`.
3. `SinkQueue` and `QueuedSink` against the abstract `AuditChannel`, with proofs.
4. `BatchSink` and `WazuhIndexerSink` against the same `AuditChannel`.
5. `RbacPolicy`, `AuditEmitter` and `ToolCall`, which composes the two, with proofs.
6. `SecretCache`, with proofs.
7. `SessionRules` and `JwksCache`, which composes the rules with the cache, with
   proofs.
8. `AlertQuery` and `AlertSearch`: the query builders and a walk through pages.
9. `ToolPlans` and `Upstream`: the requests of every tool, resource and prompt, sent
   through the pools and the Server API client.

10. Theorems for everything that is a safety property of a run, the two refinements
    of abstract specifications included (section 6).

Left:

11. The rotation of the file sink's archives.

Abstract specifications: `AuditChannel` says what a sink promises to whoever
submits to it, `IdealBucket` what a token bucket is. Both are kept apart from the
modules that implement them and are checked as `PROPERTY`.

## 3. Modules and code

`PROJECT.json` maps each definition to its lines. A definition whose comment
describes an error of the code rather than the code (`AdmitNextProbeUncounted`,
`SubmitSilently`, ...) is a variant used to show that a property can fail; no
action uses it.

**CircuitBreaker** - `_RedisCircuitBreaker`. The fields keep their meaning
(`failures` is `_consecutive_failures`, `inFlight` is `_half_open_in_flight`,
`openAge` is the time since `_opened_at`, saturated at `open_duration_sec`, which
is the only value it is compared with). `call()` has three atomic parts:
admission under the lock (`AdmitClosed`, `AdmitFirstProbe` with the promotion,
`AdmitNextProbe`, `Reject`), the awaited call, and the recording of its outcome
under the lock (`Succeed`, `Fail`; `Cancel` records nothing, as `CancelledError`
is not an `Exception`). Redis and time are external: a call may fail while
Redis is down or if it was in flight during an outage, and `Tick` does not let a
call outlive its `wait_for`.

**RedisRateLimiter** - `RedisRateLimiter.acquire` with `_run_script`, composed
with the breaker (`B == INSTANCE CircuitBreaker`): each step of a script call is a
step of the breaker or leaves it alone. `command` is the Redis command that is
awaited (load, eval, and both again after NOSCRIPT). `NoReply` goes to the
fallback whether or not Redis had executed the command; `ServerError` leaves
`acquire()` as it is; `Cancelled` keeps what was consumed. A bucket is its whole
tokens here. `BreakerParameters` repeats what the breaker's constructor checks of the
numbers the limiter hands it.

**SharedBucket**, **IdealBucket** - `token_bucket.lua` with its key's TTL. Amounts
are fractions of a token, so a refill rate such as 2/3 is exact. `Skew` gives each
replica's clock. `Watch` opens an observed window of time at any moment.
`IdealBucket` is a bucket refilled at every tick (also what the in-process
limiter's `TokenBucket` computes). The parts of the specification carry the prefix
`Bucket` (`BucketInit`, `BucketNext`, ...), as those of `AlertSearch` carry `Search`:
they share a run and a module of proofs with another component.

**SinkQueue** - what all sinks inherit: `submit`, `start`, `stop`. `submit` and
`start` do not await and are one step; `stop` sets the flag and awaits `join()`,
two steps with the drain task between. `unfinished` is asyncio's unfinished-task
counter, and `joined` says that it was 0 at some point since `stop()` called
`join()`, which is what wakes the caller for good, even if a `put()` follows.

**QueuedSink** - the drain loop of `base.py`, one event at a time (stderr, stdout,
file). **BatchSink** - the loop of `http.py` and `wazuh_indexer.py`: a batch at a
time, `task_done()` as an event is taken, an interrupted retry recorded as dropped.
**WazuhIndexerSink** - its destination: index template, bulk bodies that name the index
of the day they are built on (`target`), `_id` taken from the event, so that an index
has an event once (`docs` is a set of pairs of an event and a day), bulk replies that
report part of a batch or are lost after all of it was indexed, and a `stop()` that
cancels a call the indexer may have carried out.

**AuditChannel** - what both promise: events settle once and in order, and only a
closing channel may lose some uncounted. The refinement maps what is buffered,
queued or in hand to `pending`.

**RbacPolicy** - patterns, default roles, overrides per tenant, write filter and
argument allowlists, as constant-level operators because the configuration is read
once at start. An unregistered tenant has no roles.

**AuditEmitter** - `MultiSinkAuditEmitter.start` with its rollback, `stop`, `emit`'s
routing, and the order of the HTTP lifespan, which stops the emitter before it
closes the session manager. A sink is its place in `_all_sinks`.

**ToolCall** - a call over HTTP, from `_rbac_call_tool` through
`instrumented_tool` and the inner handlers of `server.py` to `tools/write.py`. A
call waits in four places: the limiter, the client pool, the check made before a
request (the cluster status for `restart_manager`) and the request. An action goes
from one wait to the next, with every event it emits on the way. FastMCP's check
of the arguments against the tool's schema is external and comes before the
decorator. `Wazuh` decides a request also after its call has gone, so a timeout or
a cancellation may hide a request that was carried out. `charged`, `wire` and
`trail` record what was consumed, what Wazuh saw and which sinks heard which event.

**SecretCache** - `CachingSecretStore` for one key; keys do not interact. `_lock` is
never held over an await and never contended, so a `get()` is at most two steps:
`Hit`, `Lead` or `Join`, and after the await `Answer`, `DriverFails` or `CancelOwner`
for an owner, `Resume` for a waiter. `set_result` only schedules the waiters: between
`Answer` and `Resume` anything may happen but the passing of a tick, an invalidation
and a cancellation of the waiter alone (`CancelResuming`) included. A flight is named by the caller that opened it. `CancelWaiter` is
asyncio's rule that cancelling a task cancels the future it awaits: all waiters of
that flight fail with it, and its owner, which then calls `set_result` on a
cancelled future, gets `InvalidStateError` (`"invalid"`). `fetchAge` and `since` are
times; the driver's timeout is `MaxFetch`.

**SessionRules** - the pure part of authentication: from a credential to a session
or a status (`ChainSessionFactory`, `ApiKeySessionFactory`, `YamlApiKeyStore.verify`,
`OAuthSessionFactory`, `IssuerIndex`). A credential is a record of what the code
looks at; a signature is the fact `intact`.

**JwksCache** - the requests of `SessionMiddleware.dispatch` that need a key, and the
cache of their issuer. A request waits at the lock for discovery (`ensure`), for the
discovery document, at the lock for a refresh (`refresh`) and for the key set.
Between two waits `get_key` runs on alone: `LookUp` is the look-up, the test of the
window and its marking in one step. The lock is given back between discovery and the
refresh that follows it, as in the code. `Rotate`, `GoDown` and `ComeBack` are the
issuer.

**AlertQuery** - the builders of `wazuh/query.py` and the hunt grammar of
`tools/hunt.py` as operators from arguments to a query (a set, empty where the builder
raises `ValueError`), and what OpenSearch makes of it: matching, `terminate_after`,
sort and `search_after`. **AlertSearch** - a client that walks through the pages of one
search while documents arrive and time passes. `FirstPage` and `FollowCursor` are one
call of the tool each; nothing is kept at the server.

**ToolPlans** - for each tool, resource and prompt the pools its wrapper acquires from
and the requests it sends, in order, with what follows an error or an empty answer.
**Upstream** - calls of one tenant that follow these plans. An action goes from one
await to the next: the pool's lock and the credentials (`AcquireFirst`,
`BuildClient`), the JWT's lock and the mint (`ReuseToken`, `MintIfAbsent`,
`MintByForce`, `Minted`), the request (`CarriesOut` or `Refuses` at the manager, then
`Answer` or `Replay`, or `TimesOut`). A token is what the client believes of it and
what the manager knows; the answer to a mint comes later than the token's issue.
`ToolCall` has one tool call with all its checks and takes the request for one step;
`Upstream` has what becomes of that request.

The `MC...` modules only give values to constants. Two of them,
`MCLimiterAndBucket` and `MCToolsAndSearch`, put two components side by side in one
run: the components share no variable, no property relates them and an interleaving
of the two would show nothing, so a behaviour takes the steps of one of them (`part`)
and leaves the other where it began. The fairness of a component then speaks of its own
steps.

## 4. Runs

| Run | Instance | Distinct states | Shows |
|---|---|---|---|
| `breaker` | 3 callers (1 cancellable), threshold 2, open 3 ticks, 2 probes, timeout 2 | 33,716 | when the breaker opens, probes, cools and closes |
| `breaker_cancelled_probe` | 2 callers, 1 probe | violation | a cancelled probe keeps the breaker HALF_OPEN for ever |
| `limiter` | 2 sessions of a tenant, 3 acquires, 1 outage, capacities 2 and 1; beside it a bucket of 2 replicas in step, capacity 2, 2/3 token a tick, 12 ticks | 126,512 | charging, fallback budget, end of every call; window bound, exact against the ideal bucket |
| `queued_sink` | 5 events, queue of 2, 3 attempts | 19,349 | accounting, order, what ends `stop()`, refinement |
| `indexer_sink` | 4 events, queue of 2, batches of 2, 2 attempts, 1 midnight | 77,692 | the same for batches, and delivered means indexed |
| `indexer_midnight` | 3 events, the same otherwise | violation | a retry across midnight indexes an event twice |
| `tools` | 2 calls, 11 requests, 3 sinks, 2 tenants; beside it 15 searches over 7 documents, page sizes 1 and 2, `terminate_after` 4 | 484,752 | what reaches Wazuh, what the trail says, which sinks run; nothing twice, nothing unasked, reasons to miss |
| `tool_charged_unaudited` | the calls alone | violation | a charged call without an audit event |
| `tool_group_command` | the calls alone | violation | a response on a group runs a command nobody allowed |
| `secret_cache` | 3 callers, lifetime 2, fetches of at most 1 tick, 1 rotation | 89,816 | staleness, invalidation, reasons to fail, end of every `get()` |
| `auth` | 3 requests, 5 credentials, 2 keys, window 2, 1 rotation, 1 outage | 837,378 | refresh budget, reasons to refuse, tenant of a session |
| `upstream` | 2 calls out of 3 plans, lifetime 10, refresh at 8, latency 1, 1 revocation | 797,748 | writes once, mints in time and only when needed, pools |

Why the bounds are enough:

- *breaker*: three callers let two share a HALF_OPEN window while a third brings a
  late result or is cancelled; a threshold of 2 separates counting from tripping;
  `open_duration` is longer than the timeout, as by default. Nothing bounds the
  length of a behaviour.
- *limiter*: threshold 1 makes one failure open the breaker, so 3 acquires
  see closed, open, probing and closed again; a session capacity of 1 makes both
  tiers run dry; one refill separates an empty bucket from a depleted one; and the
  restart of Redis loses script and keys.
  For the bucket, 12 ticks are twice the TTL, so a key expires, comes back and
  expires again; a rate of 2/3 makes fractions matter.
- *sinks*: more events than queue and hand can hold, so evictions happen before
  start and while running; three attempts have a backoff that is neither the first
  nor the last. Two days suffice for a retry across midnight.
- *tools*: two calls interleave on one emitter; the requests cover both kinds
  of tool, each refusal (role, schema, arguments, write filter, command, group), the
  check before the request, a tenant without write filter and an unregistered one;
  three sinks are one global and one of each tenant, and start can fail after 0, 1
  or 2 of them. One request asks for a command its tenant has not allowed, on
  a group it has.
  For the searches: documents that share an instant, arrive late and fall out of
  range; more matches than `terminate_after`; each of the nine tools, every operator
  of the hunt grammar on either side, and arguments a builder refuses.
- *secret_cache*: three callers are an owner, a waiter that is cancelled and one that
  suffers from it; calls repeat without bound, so a dead flight may be met by a later
  call. A second fetch of the same secret may be under way only after the first
  ended, which a lifetime of 2 and one rotation let happen with old and new values.
- *auth*: three requests are one that discovers, one that refreshes and one that finds
  the window closed. A window of two ticks against exchanges of at most one keeps the
  code's order (seconds against ten minutes). The credentials have a token without
  tenant, with its issuer's, with another registered one, with an unregistered one,
  and an API key.
- *upstream*: the three plans have all shapes there are: one write, reads that decide
  about a write, reads over both pools whose errors are swallowed. Two calls suffice
  for the races at a lock, a token or a pool, as each is shared by pairs. Latency 1 of
  lifetime 10 keeps the code's margin (`MarginAssumption`: mint and request fit into
  the last fifth of the lifetime, 50 s each against 180 s of the default 900 s). A
  manager configured for a much shorter lifetime (the client reads it from
  the token) would not satisfy it, and `RefusedOnlyIfRevoked` is not claimed there.

Callers are interchangeable in `auth` and `upstream`, which check safety only: there
the runs use symmetry.

Deadlock is not checked where the system really ends: a sink that has stopped
after the last event, a server that is down or failed to start, a walk that is done,
calls that have all ended.

Every property of the passing runs has a variant of a modelled definition, in
`PROJECT.json` under `mutants`, under which TLC finds it violated.

## 5. Fairness

- *Breaker*: time passes; an admitted call ends, because `wait_for` bounds it;
  callers keep coming. The last is an assumption on the workload: the breaker has
  no timer of its own, so with nobody calling it stays OPEN. `Recloses` and
  `ReclosesIfNobodyCancels` also assume that Redis is up from some time on; no
  fairness is assumed of Redis or of cancellation.
- *Limiter*: time passes and a command that is awaited is answered or fails
  (`call_timeout_ms`). New calls are not assumed.
- *Sinks*: the event loop schedules the drain task, a delivery attempt ends, a
  backoff elapses; in `QueuedSink` the loop also resumes a `stop()` whose `join()`
  has been woken. That `shutdown_timeout_s` ends a `join()` is *not* assumed, so
  `JoinReturns` shows that the counter reaches 0 by itself. The destination may fail
  for ever, and nobody is assumed to submit or to stop.
- *SecretCache*: a driver call that is under way ends, with an answer or a failure
  (its own timeout), and the event loop resumes the caller that made it and the
  waiters it has woken. Cancellation, invalidation and new calls are not assumed.
- *SharedBucket, ToolCall, JwksCache, AlertSearch, Upstream*: safety only, no fairness.

## 6. Proofs

TLAPS checks these for every value of the constants that satisfies the named
assumptions: `BreakerAssumption`, `LimiterAssumption`, `BreakerParameters`,
`BucketAssumption`, `SinkAssumption`, `BatchAssumption`, `DayAssumption`,
`EmitterAssumption`, `RequestsAssumption`, `SecretCacheAssumption`,
`TenantsAssumption`, `JwksAssumption`, `QueryAssumption`, `SearchAssumption`,
`UpstreamAssumption`, `MarginAssumption`. They say of which type a constant is,
what the code checks when it reads it (a threshold is positive, a page size is at most
`MaxSize`), and, in `MarginAssumption`, how timeouts compare with a lifetime. TLC
evaluates each of them on the run of its module. Three theorems have a hypothesis of
their own, named below. Every inductive invariant was an invariant of a TLC run of the
component before it was proved.

**CircuitBreakerProofs.** `TypeOK` is not inductive: `failures` stays at or below
the threshold only because a CLOSED breaker is strictly below it, so it is proved
together with `TrippedAtThreshold`. `ProbeBudget` follows from `ProbesCounted`:
each probe on the wire is paid for in `inFlight`; the converse is false, which is
what the cancelled probe exploits. `CoolingRestarts` follows from
`CoolingSinceFailure`: while OPEN, the cooling clock is the time since the latest
failure. `DecidedByProbe` needs `CallTimeout < OpenDuration`, stated as the
theorem's assumption: while OPEN nobody is admitted, so every call in flight is at
least as old as the opening (`InFlightBeforeOpen`) and has timed out by the
promotion.

**QueuedSinkProofs.** The invariant `IInv` has four parts besides types and the
counter: `Shape` (which parts of the state are in use in which phase), `Order` (the
waiting events stand in the order of submission, after everything delivered),
`Fates` (every event has a fate, and one only) and `Flushed` (a `stop()` whose `join()`
was woken has nothing from before it left open).
`Order` is what makes the refinement go through: the head of the queue is the
oldest pending event, hence a front in the sense of `AuditChannel`. The theorem
`SinkImplementsChannel` maps each action to `Submit`, `Deliver`, `GiveUp`, `Close`,
`Lose` or a stutter.

**ToolCallProofs.** `Inv` is the type, `SinksFollowServer`, and per call what holds
at each place where it waits (`CallInv`): what has been checked by then, that the
trail holds the announcement and nothing else, and that nothing is on the wire
before the last check. The announcement of a write was heard by every sink
concerned, or the server is going down: the shutdown stops sinks while calls still
run, so nothing stronger is true.

**SecretCacheProofs.** Three invariants on top of each other. `Types`. `FlightInv`:
whoever fetches is the registered flight, hence `SingleFlight`; a waiter awaits it and
its future is alive; and a dead future, or a failed caller, has its trouble on record,
hence `FailsForAReason`. `ValueInv`: what is cached, read or served is a version at
most as old as the time it has been in hand (`since` bounded by the age of the entry or
of the fetch, also for a waiter that is about to return it), and no older than the
latest invalidation that overtook neither a fetch nor such a waiter. The
bound needs the age of a fetch in the invariant although the property speaks of the
served value only; `InvalidationHolds` needs that nobody had a value in hand when
`invalidated` was set.

**JwksCacheProofs.** `RefreshesApart` is short: the window the code keeps *is* the time
since the latest refresh on a miss (`WindowInv`), because it is marked in the step that
tests it. `SessionsStayHome` rests on `TenantOfSession`, a fact about
`OAuthSession` for any token: with at most one claimed tenant and an issuer that has
one tenant, a session is of that tenant or of one nobody registered. The invariant
`RequestInv` carries from `Arrive` to the end that a request's session is the outcome of
the credential it came with, over every wait at a lock or at the issuer.

`RefusedForAReason` says what a refusal that the key set would not justify is excused
by; a request that has just fetched the keys itself has no excuse. Its invariant
`KeysInv` follows a key from the issuer into the cache: the lock is held by exactly the
request that is exchanging something (`LockInv`); a fetch under way is bound to bring
every key published before it began, and a refresh that waits behind it every key
older than the window (`Seen`); so once nobody is fetching, the cache has every key
older than the window unless the issuer was down since (`Held`). A request whose window
was closed and that found no key is then one of those the excuse names.

**RedisRateLimiterProofs.** `LimiterRunsBreaker`: every step of the limiter is a step
of the breaker or leaves it alone, so `CircuitBreakerProofs` applies to the breaker
inside the limiter (`BreakerSafeInLimiter`). `IInv` says for each call what it has paid
at the place where it is: nothing before the tenant's bucket answers, one token of the
tenant's when the session's is asked, never a token twice. What makes this inductive is
that a call with a command in flight is exactly a call the breaker has admitted, so
that each admission is answered once. `FallbackIsBounded` holds because the fallback is
never created a second time, hence each token granted there came from its one capacity
or from a refill; `OneBudget` needs `HealthInv`: without an outage nobody
is troubled, the breaker is CLOSED and the fallback is full.

The same module has the script's bucket. `BucketInv` says that every replica that looks
at the key computes the time since the last refill (`Aged`), and that what was granted in
the observed window plus what is left (`Fill`) is within the capacity plus the refill
of the window. The expiry of the key preserves it because the TTL outlasts two refills of
the whole bucket. `WindowIsBounded` assumes that the replicas' clocks agree with each
other, `BucketIsIdeal` that they tell true time; with clocks that differ both are
false (section 7).

**WazuhIndexerSinkProofs.** The refinement of `AuditChannel` again, for batches. `join()`
counts the queue only, as `task_done()` comes when an event is taken
(`JoinCountsQueue`). `Order` places the batch in hand between what was delivered and
the queue, `Fates` gives every event a fate, and `Shape` says that only `stop()` abandons,
and at most one batch. `IndexInv` adds that what counts as delivered has a document.

**UpstreamProofs.** First two facts about plans: in every handler's plan a write is the
last request (`GoodPlans`), and a write tool that ends well has come through it
(`WritingPlans`). The invariant has a part per resource. `CallInv`: nothing is applied
before the request in hand was carried out, a token on the wire is as young as
`RefreshAt`, the mint and the waiting allow, and a refused one was revoked. `PoolInv`:
whoever holds a pool's lock finds it empty. `TokenInv`: the client errs about a token's
age by the time of its mint at most, and the holder of the JWT lock is the one that is
minting. `CreditInv`: there are at least as many unredeemed refusals (`credit`) as calls
that will still mint because of one (`Owed`), which is why no mint is without
cause. Only `NoExpiredToken` uses `MarginAssumption`.

**ToolCallProofs**, for `AlertSearch`. `BuildFaithful` is about the nine query builders:
what they ask of the indexer is what the caller means, for any arguments the schema
lets through. `SearchInv` adds that the cursor separates: everything brought is at or after it,
and everything wanted but not brought is before it, lies on the edge of a page, or was cut off by
`terminate_after` (`Left`). The hits of a page are the newest behind the cursor, so the
next cursor separates again (`FetchKeeps`).

What TLC checks and no theorem states is liveness (`ReclosesIfNobodyCancels`,
`AcquireEnds`, `EventuallySettled`, `JoinReturns`, `GetsEnd`): fairness and ENABLED are
out of the prover's reach. No safety property of a passing run is left without a
theorem.

## 7. Disagreements

Shown by a run (details in `PROJECT.json`, `findings`):

- `Recloses`: a probe whose client disconnects never gives its place back; the
  breaker stays HALF_OPEN although `docs/deploy/redis.md:9` says it re-closes.
- `ChargedCallsAudited`: a call cancelled or failed inside `limiter.acquire` may
  have been charged and leaves no audit event.
- `FourGates`: `run_active_response_on_group` checks the group allowlist only, although
  `docs/api-reference.md:315` and its own description (`server.py:1396`) say that the
  command must be in `active_response_allowlist` too. `WritesAreMandated` asks of it
  what the code looks up, the group.
- `OneDocumentPerEvent`: the `_id` deduplicates within one index, and the daily index is
  computed for each attempt (`wazuh_indexer.py:95`), so a batch retried across midnight
  UTC is indexed twice, although `docs/deploy/observability.md:196` calls delivery
  effectively exactly-once.

Statements of the documentation that the models contradict, without a configuration
of their own (each is an invariant to add to the named run):

- `OutageInvisible` (`limiter`): the class docstring
  (`redis_limiter.py:189`) routes server errors to the fallback; `acquire()` routes
  only connection errors and timeouts (lines 293 and 323).
- `WindowBound` with clocks that differ (`limiter`, with a `Skew` that is not
  zero): setting `last_refill_ms` back credits the skew again at the next call, which
  `docs/deploy/redis.md:100` denies.
- `AccountedWhenStopped` (`indexer_sink`): a batched sink's `stop()` does not wait
  for the batch in hand, and those events are not counted, although
  `docs/deploy/observability.md:270` calls both loss modes surfaced.

Met while reading and modelling:

- A call denied by its session's bucket has consumed the tenant's token, although
  `limiter.py:4` can be read otherwise; a session that retries drains its tenant.
- `run_active_response_on_group` reaches at most the 500 agents its listing asks for
  (`server_api.py:254`), while its description says "every agent in the named group".
- `write.restart_manager` is not among the names `m4_config.py:74` accepts in a
  `write_allowlist`, so a tenant with a filter cannot permit it.
- The write tools' documentation says that a missing `confirm` is audited; FastMCP
  rejects it by the schema before the decorator runs.
- `server_api.py:15` says that the lock prevents mint stampedes. It does when a token
  runs out; of several calls refused at once each mints a token, one after the other,
  because `_refresh_jwt_force` does not look again. `NoMintStampede` allows just that.
- While the keys of an issuer are being fetched, a request whose kid is not there yet
  is refused at once if another one has already opened the window (`jwks_cache.py:60`):
  at start-up, the third of three concurrent valid requests gets a 401.
  `RefusedForAReason` excuses it.
- A cancelled waiter of `CachingSecretStore` cancels the future the others share: they
  fail with it, and the owner gets `InvalidStateError` although its fetch succeeded.
  `server.py` does not wire this cache.
- An invalidation during a fetch is not heard by that fetch, which caches what it read
  before (`caching.py:71`); `StaleBound` says for how long, and `InvalidationHolds` is
  about the other invalidations.
- A token of an issuer that several tenants share is routed by its `tenant_id` claim
  alone, as the docstring of `issuer_index.py` says; `SessionOfIssuersTenant` is about
  issuers of one tenant.
- The alert sort has no tie-breaker (`query.py:92`): alerts that share the time of a
  page's last hit are skipped by the cursor, and `terminate_after` beside a sort
  (`query.py:94`) may leave the newest ones unexamined. `MissedForAReason` excuses both.
- `hunt.py:115` says "up to 30d"; `query.py:49` refuses exactly 30d.
- `IssuerIndex.get` strips a trailing slash of an issuer, the test for a trusted issuer
  (`oauth.py:84`) does not.
- `restart_agent` reports `ok=True` also when Wazuh lists the agent as failed
  (`tools/write.py:128`).
- The prompts swallow `WazuhError` only; a timeout of the indexer is a raw httpx error
  and ends the prompt, one of the Server API does not.
- No code calls `aclose_all` of either pool.

## 8. What is left out

- *Later work* (section 2): the rotation of the file sink's archives.
- *Characters*: escaping in rule XML, patterns of ids, the syntax of configuration
  files, base64 and JSON of tokens. No property is about them.
- *Start-up*: configuration is read once and every component constructed once, before
  anything runs concurrently; telemetry only counts; packaging, charts and the offline
  evaluation of prompts (`tools/eval`) have no run-time behaviour of the server.
- *Content*: event fields, redaction, spans, metric labels, HTTP details and message
  texts; the audit events resources and prompts emit themselves.
- *Data*: more than one tenant in the limiter and in `Upstream` (tenants share nothing
  there but the breaker, the connection and the pools' locks), the names of keys, and
  the growth of the in-process limiter's dictionaries, which keep a bucket for every
  session ever seen.
- *External code*: Redis, OpenSearch, Wazuh, identity providers, secret drivers and
  FastMCP are modelled by how the code uses them and marked external.
