---------------------------- MODULE RedisRateLimiter ----------------------------
(***************************************************************************)
(* RedisRateLimiter of rate_limit/redis_limiter.py: acquire() charges the  *)
(* tenant's bucket and then the session's, each by a script call made      *)
(* through the circuit breaker, and goes to a per-process limiter when the *)
(* breaker rejects the call or Redis does not answer.                      *)
(*                                                                         *)
(* The module composes with CircuitBreaker: every step of a script call is *)
(* a step of the breaker or leaves it alone.  A script call is up to four  *)
(* Redis commands (load, eval, and both again after NOSCRIPT) under one    *)
(* timeout.  A bucket is its number of whole tokens; SharedBucket models   *)
(* how the script computes it.                                             *)
(***************************************************************************)
EXTENDS Integers, FiniteSets

CONSTANTS
    Tasks, Cancellable, ErrorThreshold, OpenDuration, HalfOpenMaxCalls, CallTimeout,
    Sessions,         \* the sessions of the tenant
    SessionOf,        \* the session each task belongs to
    TenantCapacity,   \* cfg.tenant.capacity
    SessionCapacity,  \* cfg.session.capacity
    MaxAcquires,      \* bound: calls of acquire() made
    MaxOutages,       \* bound: how often Redis fails
    MaxRefills        \* bound: tokens refilled

\* Tenant and session buckets have different keys (_tenant_key, _session_key).
ASSUME LimiterAssumption ==
    /\ SessionOf \in [Tasks -> Sessions]
    /\ "tenant" \notin Sessions
    /\ TenantCapacity  \in Nat \ {0}
    /\ SessionCapacity \in Nat \ {0}
    /\ MaxAcquires \in Nat
    /\ MaxOutages  \in Nat
    /\ MaxRefills  \in Nat

VARIABLES
    state, failures, openAge, inFlight, task, callAge, probes, quiet, redisUp,
    troubled,     \* the breaker: see CircuitBreaker
    stage,        \* per task: the bucket acquire() is at, or "idle"
    command,      \* per task: the Redis command in flight
    answer,       \* per task: how its latest acquire() ended
    sha,          \* _script_sha is set
    cached,       \* external: Redis has the script
    shared,       \* external: tokens in the buckets kept in Redis
    fallback,     \* tokens in the buckets of _fallback (full until first used)
    spent,        \* history: what the task's latest acquire() consumed
    granted,      \* history: acquires granted by each backend
    acquires, outages, refills   \* what the bounds count

B == INSTANCE CircuitBreaker

\* What the breaker's constructor checks of the parameters it is given.
ASSUME BreakerParameters == B!BreakerAssumption

breakerVars == <<state, failures, openAge, inFlight, task, callAge, probes, quiet,
                 redisUp, troubled>>
callVars    == <<stage, command, answer, spent, granted>>
bucketVars  == <<shared, fallback>>
boundVars   == <<acquires, outages, refills>>
limiterVars == <<callVars, sha, cached, bucketVars, boundVars>>
vars == <<breakerVars, limiterVars>>

\* The two tiers, and the two backends that each keep both.
Tenant   == "tenant"
Bucket   == {Tenant} \cup Sessions
Capacity == [b \in Bucket |-> IF b = Tenant THEN TenantCapacity ELSE SessionCapacity]
Backend  == {"shared", "fallback"}
Nothing  == [k \in Backend |-> [b \in Bucket |-> 0]]

TypeOK ==
    /\ B!TypeOK
    /\ stage   \in [Tasks -> {"idle", "tenant", "session"}]
    /\ command \in [Tasks -> {"none", "load", "eval", "reload", "reeval"}]
    /\ answer  \in [Tasks -> {"none", "granted", "limited:tenant",
                              "limited:session", "raised", "cancelled"}]
    /\ sha     \in BOOLEAN
    /\ cached  \in BOOLEAN
    /\ shared   \in [Bucket -> Nat] /\ \A b \in Bucket : shared[b] <= Capacity[b]
    /\ fallback \in [Bucket -> Nat] /\ \A b \in Bucket : fallback[b] <= Capacity[b]
    /\ spent    \in [Tasks -> [Backend -> [Bucket -> Nat]]]
    /\ granted  \in [Backend -> Nat]
    /\ acquires \in 0..MaxAcquires
    /\ outages  \in 0..MaxOutages
    /\ refills  \in 0..MaxRefills

Init ==
    /\ B!Init
    /\ stage = [t \in Tasks |-> "idle"]
    /\ command = [t \in Tasks |-> "none"]
    /\ answer = [t \in Tasks |-> "none"]
    /\ sha = FALSE
    /\ cached = FALSE
    /\ shared = Capacity
    /\ fallback = Capacity
    /\ spent = [t \in Tasks |-> Nothing]
    /\ granted = [k \in Backend |-> 0]
    /\ acquires = 0
    /\ outages = 0
    /\ refills = 0
-----------------------------------------------------------------------------
(* How acquire() ends.                                                     *)

End(t, how) ==
    /\ stage' = [stage EXCEPT ![t] = "idle"]
    /\ command' = [command EXCEPT ![t] = "none"]
    /\ answer' = [answer EXCEPT ![t] = how]

Count(k) == granted' = [granted EXCEPT ![k] = @ + 1]

\* A try_acquire of the session alone.
ConsumedSessionOnly(s) == {b \in {s} : fallback[b] > 0}

\* What a call of InProcessRateLimiter.acquire consumes: both tokens under its
\* lock, tenant first; a denial by the session's bucket keeps the tenant's.
Consumed(s) ==
    IF fallback[Tenant] = 0 THEN {} ELSE {Tenant} \cup {b \in {s} : fallback[b] > 0}

\* _fallback is built anew for every call.
FallBackFresh(t, before) ==
    LET s == SessionOf[t] IN
    /\ fallback' = [b \in Bucket |-> IF b \in {Tenant, s} THEN Capacity[b] - 1 ELSE Capacity[b]]
    /\ spent' = [spent EXCEPT ![t] = [before EXCEPT !["fallback"] =
                    [b \in Bucket |-> IF b \in {Tenant, s} THEN 1 ELSE 0]]]
    /\ End(t, "granted")
    /\ Count("fallback")
    /\ UNCHANGED sha

\* _ensure_fallback().acquire decides, after `before` was consumed in Redis.
FallBack(t, before) ==
    LET s == SessionOf[t]
        consumed == Consumed(s)
    IN
    /\ fallback' = [b \in Bucket |-> IF b \in consumed THEN fallback[b] - 1 ELSE fallback[b]]
    /\ spent' = [spent EXCEPT ![t] = [before EXCEPT !["fallback"] =
                    [b \in Bucket |-> IF b \in consumed THEN 1 ELSE 0]]]
    /\ \/ Tenant \notin consumed /\ End(t, "limited:tenant") /\ UNCHANGED granted
       \/ consumed = {Tenant} /\ End(t, "limited:session") /\ UNCHANGED granted
       \/ s \in consumed /\ End(t, "granted") /\ Count("fallback")
    /\ UNCHANGED sha
-----------------------------------------------------------------------------
(* _breaker.call for the next bucket.                                      *)

\* Admitted: _run_script sends its first command.
SendFirst(t) ==
    /\ B!AdmitClosed(t) \/ B!AdmitFirstProbe(t) \/ B!AdmitNextProbe(t)
    /\ command' = [command EXCEPT ![t] = IF sha THEN "eval" ELSE "load"]
    /\ UNCHANGED <<sha, granted, bucketVars>>

\* acquire() is called.
Acquire(t) ==
    /\ stage[t] = "idle"
    /\ acquires < MaxAcquires
    /\ acquires' = acquires + 1
    /\ \/ /\ SendFirst(t)
          /\ stage' = [stage EXCEPT ![t] = "tenant"]
          /\ answer' = [answer EXCEPT ![t] = "none"]
          /\ spent' = [spent EXCEPT ![t] = Nothing]
       \/ B!Reject(t) /\ FallBack(t, Nothing)
    /\ UNCHANGED <<cached, shared, outages, refills>>

\* A rejected call that waits for the breaker instead.
AcquireSessionWaits(t) ==
    /\ stage[t] = "session" /\ command[t] = "none"
    /\ SendFirst(t)
    /\ UNCHANGED <<stage, answer, spent, cached, boundVars>>

\* The tenant's token was granted: on to the session's bucket.  Nothing is
\* awaited in between; that another task may step here adds behaviours only.
AcquireSession(t) ==
    /\ stage[t] = "session" /\ command[t] = "none"
    /\ \/ SendFirst(t) /\ UNCHANGED <<stage, answer, spent>>
       \/ B!Reject(t) /\ FallBack(t, spent[t])
    /\ UNCHANGED <<cached, shared, boundVars>>
-----------------------------------------------------------------------------
(* Replies to a command.                                                   *)

\* _load_script got its reply.
Loaded(t) ==
    /\ redisUp
    /\ command[t] \in {"load", "reload"}
    /\ cached' = TRUE
    /\ sha' = TRUE
    /\ command' = [command EXCEPT ![t] = IF @ = "load" THEN "eval" ELSE "reeval"]
    /\ UNCHANGED <<breakerVars, stage, answer, spent, granted, bucketVars, boundVars>>

\* evalsha raised NoScriptError for the first time: _run_script loads again.
NoScript(t) ==
    /\ redisUp
    /\ command[t] = "eval" /\ ~cached
    /\ command' = [command EXCEPT ![t] = "reload"]
    /\ UNCHANGED <<breakerVars, stage, answer, sha, cached, spent, granted, bucketVars,
                   boundVars>>

\* The bucket the task is at, and the tokens consumed once it has given one.
At(t) == IF stage[t] = "tenant" THEN Tenant ELSE SessionOf[t]
Evaluating(t) == command[t] \in {"eval", "reeval"} /\ cached
Charged(t) == [spent[t] EXCEPT !["shared"][At(t)] = @ + 1]

\* The script answered 1.
TokenGranted(t) ==
    /\ Evaluating(t) /\ shared[At(t)] > 0
    /\ B!Succeed(t)
    /\ shared' = [shared EXCEPT ![At(t)] = @ - 1]
    /\ spent' = [spent EXCEPT ![t] = Charged(t)]
    /\ \/ /\ stage[t] = "tenant"
          /\ stage' = [stage EXCEPT ![t] = "session"]
          /\ command' = [command EXCEPT ![t] = "none"]
          /\ UNCHANGED <<answer, granted>>
       \/ stage[t] = "session" /\ End(t, "granted") /\ Count("shared")
    /\ UNCHANGED <<sha, cached, fallback, boundVars>>

\* The script answered 0: WazuhError("rate_limited").
TokenDenied(t) ==
    /\ Evaluating(t) /\ shared[At(t)] = 0
    /\ B!Succeed(t)
    /\ End(t, IF stage[t] = "tenant" THEN "limited:tenant" ELSE "limited:session")
    /\ UNCHANGED <<sha, cached, spent, granted, bucketVars, boundVars>>

\* Whether Redis executed the command before its reply was lost.
Executed(t, before) ==
    \/ before = spent[t] /\ UNCHANGED <<shared, cached>>
    \/ /\ Evaluating(t) /\ shared[At(t)] > 0
       /\ before = Charged(t)
       /\ shared' = [shared EXCEPT ![At(t)] = @ - 1]
       /\ UNCHANGED cached
    \/ /\ command[t] \in {"load", "reload"}
       /\ before = spent[t]
       /\ cached' = TRUE
       /\ UNCHANGED shared

\* A lost reply that makes _run_script send the command again.
NoReplyRetries(t) ==
    /\ command[t] = "eval" /\ (~redisUp \/ t \in troubled)
    /\ \E before \in {spent[t], Charged(t)} :
         Executed(t, before) /\ spent' = [spent EXCEPT ![t] = before]
    /\ command' = [command EXCEPT ![t] = "reeval"]
    /\ UNCHANGED <<breakerVars, stage, answer, sha, granted, fallback, boundVars>>

\* Connection refused or lost, or no reply in time.
NoReply(t) ==
    /\ B!Fail(t)
    /\ \E before \in {spent[t], Charged(t)} : Executed(t, before) /\ FallBack(t, before)
    /\ UNCHANGED boundVars

\* A reply that is an error other than those (also a second NOSCRIPT): the
\* breaker counts it and acquire() does not catch it.
ServerError(t) ==
    /\ B!Fail(t)
    /\ End(t, "raised")
    /\ UNCHANGED <<sha, cached, spent, granted, bucketVars, boundVars>>

\* `except BaseException`: the breaker counts a cancelled call as a failure.
CancelledCounts(t) ==
    /\ task[t] = "calling" /\ t \in Cancellable
    /\ B!Return(t, "cancelled") /\ B!RecordFailure
    /\ End(t, "cancelled")
    /\ UNCHANGED <<quiet, redisUp, troubled, sha, cached, spent, granted, bucketVars,
                   boundVars>>

\* The caller is cancelled while it waits for Redis.
Cancelled(t) ==
    /\ B!Cancel(t)
    /\ \E before \in {spent[t], Charged(t)} :
         Executed(t, before) /\ spent' = [spent EXCEPT ![t] = before]
    /\ End(t, "cancelled")
    /\ UNCHANGED <<sha, granted, fallback, boundVars>>

Reply(t) == Loaded(t) \/ NoScript(t) \/ TokenGranted(t) \/ TokenDenied(t)
Trouble(t) == NoReply(t) \/ ServerError(t)
-----------------------------------------------------------------------------
(* The environment.                                                        *)

Pass == B!Tick /\ UNCHANGED limiterVars

RedisFails ==
    /\ outages < MaxOutages
    /\ B!RedisFails
    /\ outages' = outages + 1
    /\ UNCHANGED <<callVars, sha, cached, bucketVars, acquires, refills>>

\* Redis may have been restarted: no script, and no key, which is a full bucket.
RedisRecovers ==
    /\ B!RedisRecovers
    /\ \/ UNCHANGED <<cached, shared>>
       \/ cached' = FALSE /\ shared' = Capacity
    /\ UNCHANGED <<callVars, sha, fallback, boundVars>>

Refill ==
    /\ refills < MaxRefills
    /\ refills' = refills + 1
    /\ \E b \in Bucket :
         \/ /\ shared[b] < Capacity[b]
            /\ shared' = [shared EXCEPT ![b] = @ + 1] /\ UNCHANGED fallback
         \/ /\ fallback[b] < Capacity[b]
            /\ fallback' = [fallback EXCEPT ![b] = @ + 1] /\ UNCHANGED shared
    /\ UNCHANGED <<breakerVars, callVars, sha, cached, acquires, outages>>

Next ==
    \/ \E t \in Tasks : Acquire(t) \/ AcquireSession(t) \/ Reply(t) \/ Trouble(t)
                           \/ Cancelled(t)
    \/ Pass \/ RedisFails \/ RedisRecovers \/ Refill

Spec == Init /\ [][Next]_vars

\* Time passes; a task whose call has ended or been answered goes on.
Fairness ==
    /\ WF_vars(Pass)
    /\ \A t \in Tasks : WF_vars(AcquireSession(t)) /\ WF_vars(Reply(t) \/ Trouble(t))

FairSpec == Spec /\ Fairness
-----------------------------------------------------------------------------
(* Properties.                                                             *)

\* "Every tool call consumes exactly 1 token from both buckets" (limiter.py:5),
\* the lower half: a granted call took both tokens from one and the same
\* backend, wherever Redis failed, whatever it had executed by then.
GrantedCallsAreCharged ==
    \A t \in Tasks : answer[t] = "granted" =>
      \E k \in Backend : spent[t][k][Tenant] = 1 /\ spent[t][k][SessionOf[t]] = 1

\* The upper half: neither the reload after NOSCRIPT nor the way to the
\* fallback charges one bucket twice, or a bucket of another session.
NoBucketChargedTwice ==
    \A t \in Tasks, k \in Backend, b \in Bucket :
      spent[t][k][b] <= (IF b \in {Tenant, SessionOf[t]} THEN 1 ELSE 0)

\* The fallback is "lazy-constructed on first OPEN transition and kept warm"
\* (class docstring): however often the breaker opens and closes, a replica
\* grants one capacity, plus what is refilled, beside the shared budget.
FallbackBudget ==
    granted["fallback"] + fallback[Tenant] <= TenantCapacity + refills

\* As long as Redis has not failed, the shared budget is the only one in force:
\* neither an exhausted bucket nor cancelled callers open the breaker or send a
\* call to the fallback.
OneBudgetWhileHealthy ==
    outages = 0 => state = "CLOSED" /\ fallback = Capacity

\* What the code does not keep (no configuration asks for it): "No user-visible
\* errors during the outage" (docs/deploy/redis.md:98).
OutageInvisible == \A t \in Tasks : answer[t] # "raised"

\* Every acquire() ends: no outage, reload or breaker state hangs a tool call.
AcquireEnds == \A t \in Tasks : stage[t] # "idle" ~> stage[t] = "idle"
=============================================================================
