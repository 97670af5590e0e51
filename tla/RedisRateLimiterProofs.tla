------------------------ MODULE RedisRateLimiterProofs ------------------------
(***************************************************************************)
(* Proofs about RedisRateLimiter for every number of tasks and sessions,   *)
(* every capacity and every parameter of the breaker: that it drives the   *)
(* breaker as CircuitBreaker specifies, and what acquire() charges; and    *)
(* about SharedBucket, the bucket its script keeps in Redis.               *)
(***************************************************************************)
EXTENDS RedisRateLimiter, SharedBucket, TLAPS

USE LimiterAssumption, BreakerParameters

P == INSTANCE CircuitBreakerProofs
-----------------------------------------------------------------------------
(* Every step is a step of the breaker or leaves it alone.                 *)

LEMMA BreakerInit == Init => B!Init
BY DEF Init

LEMMA BreakerStep == [Next]_vars => [B!Next]_B!vars
<1> SUFFICES ASSUME [Next]_vars PROVE B!Next \/ UNCHANGED B!vars
  OBVIOUS
<1> USE DEF B!Next, B!Call, B!Complete
<1>1. ASSUME NEW t \in Tasks, Acquire(t)
      PROVE  B!Next
  BY <1>1 DEF Acquire, SendFirst
<1>2. ASSUME NEW t \in Tasks, AcquireSession(t)
      PROVE  B!Next
  BY <1>2 DEF AcquireSession, SendFirst
<1>3. ASSUME NEW t \in Tasks, TokenGranted(t) \/ TokenDenied(t)
      PROVE  B!Next
  BY <1>3 DEF TokenGranted, TokenDenied
<1>4. ASSUME NEW t \in Tasks, NoReply(t) \/ ServerError(t)
      PROVE  B!Next
  BY <1>4 DEF NoReply, ServerError
<1>5. ASSUME NEW t \in Tasks, Cancelled(t)
      PROVE  B!Next
  BY <1>5 DEF Cancelled
<1>6. ASSUME NEW t \in Tasks, Loaded(t) \/ NoScript(t)
      PROVE  UNCHANGED B!vars
  BY <1>6 DEF Loaded, NoScript, breakerVars, B!vars
<1>7. CASE Pass \/ RedisFails \/ RedisRecovers
  BY <1>7 DEF Pass, RedisFails, RedisRecovers
<1>8. CASE Refill \/ UNCHANGED vars
  BY <1>8 DEF Refill, vars, breakerVars, B!vars
<1> QED BY <1>1, <1>2, <1>3, <1>4, <1>5, <1>6, <1>7, <1>8 DEF Next, Reply, Trouble

\* Whatever acquire(), its script calls and their cancellation do, the breaker
\* sees only calls of call(), outcomes and the passing of time (acquire).
THEOREM LimiterRunsBreaker == Spec => B!Spec
BY BreakerInit, BreakerStep, PTL DEF Spec, B!Spec

\* Hence what is proved of the breaker alone holds of the one in the limiter.
LEMMA SameBreaker ==
    /\ B!Init <=> P!Init
    /\ [B!Next]_B!vars <=> [P!Next]_P!vars
    /\ B!TypeOK <=> P!TypeOK
    /\ B!TrippedAtThreshold <=> P!TrippedAtThreshold
    /\ B!ProbeBudget <=> P!ProbeBudget
<1>1. ASSUME NEW t
      PROVE  B!Call(t) <=> P!Call(t)
  BY DEF B!Call, P!Call, B!AdmitClosed, P!AdmitClosed, B!AdmitFirstProbe,
         P!AdmitFirstProbe, B!AdmitNextProbe, P!AdmitNextProbe, B!Reject, P!Reject,
         B!Issue, P!Issue, B!CanPromote, P!CanPromote, B!breakerVars, P!breakerVars,
         B!envVars, P!envVars
<1>2. ASSUME NEW t
      PROVE  (B!Complete(t) <=> P!Complete(t)) /\ (B!Cancel(t) <=> P!Cancel(t))
  BY DEF B!Complete, P!Complete, B!Succeed, P!Succeed, B!Fail, P!Fail, B!Cancel,
         P!Cancel, B!Return, P!Return, B!RecordSuccess, P!RecordSuccess,
         B!RecordFailure, P!RecordFailure, B!Open, P!Open, B!Close, P!Close,
         B!breakerVars, P!breakerVars, B!envVars, P!envVars
<1>3. /\ B!Tick <=> P!Tick
      /\ B!RedisFails <=> P!RedisFails
      /\ B!RedisRecovers <=> P!RedisRecovers
  BY DEF B!Tick, P!Tick, B!RedisFails, P!RedisFails, B!RedisRecovers,
         P!RedisRecovers, B!Calling, P!Calling, B!Capped, P!Capped,
         B!breakerVars, P!breakerVars, B!envVars, P!envVars
<1>4. [B!Next]_B!vars <=> [P!Next]_P!vars
  BY <1>1, <1>2, <1>3 DEF B!Next, P!Next, B!vars, P!vars
<1>5. B!Init <=> P!Init
  BY DEF B!Init, P!Init
<1>6. B!TypeOK <=> P!TypeOK
  BY DEF B!TypeOK, P!TypeOK, B!BreakerState, P!BreakerState, B!Outcome, P!Outcome
<1>7. B!TrippedAtThreshold <=> P!TrippedAtThreshold
  BY DEF B!TrippedAtThreshold, P!TrippedAtThreshold
<1>8. B!ProbeBudget <=> P!ProbeBudget
  BY DEF B!ProbeBudget, P!ProbeBudget, B!Cardinality, P!Cardinality
<1> QED BY <1>4, <1>5, <1>6, <1>7, <1>8

\* The instance's theorems are under the breaker's own assumption.
LEMMA SameAssumption == P!BreakerAssumption
BY BreakerParameters DEF B!BreakerAssumption, P!BreakerAssumption, B!IsFiniteSet,
                         P!IsFiniteSet

\* In the limiter as alone, the breaker trips exactly at error_threshold and
\* no more than half_open_max_calls probes reach Redis together, wherever in
\* acquire() the callers are (_RedisCircuitBreaker.call).
THEOREM BreakerSafeInLimiter ==
    Spec => [](B!TypeOK /\ B!TrippedAtThreshold /\ B!ProbeBudget)
<1>1. Spec => P!Spec
  BY BreakerInit, BreakerStep, SameBreaker, PTL DEF Spec, P!Spec
<1>2. P!Spec => []P!TypeOK
  BY P!TypeCorrect, SameAssumption
<1>3. P!Spec => []P!TrippedAtThreshold
  BY P!TripsExactlyAtThreshold, SameAssumption
<1>4. P!Spec => []P!ProbeBudget
  BY P!ProbesWithinBudget, SameAssumption
<1> QED BY <1>1, <1>2, <1>3, <1>4, SameBreaker, PTL
-----------------------------------------------------------------------------
(* The inductive invariant of acquire().                                   *)

\* The limiter's own part of TypeOK.
LimiterTypes ==
    /\ stage   \in [Tasks -> {"idle", "tenant", "session"}]
    /\ command \in [Tasks -> {"none", "load", "eval", "reload", "reeval"}]
    /\ answer  \in [Tasks -> {"none", "granted", "limited:tenant",
                              "limited:session", "raised", "cancelled"}]
    /\ sha     \in BOOLEAN
    /\ cached  \in BOOLEAN
    /\ shared   \in [Bucket -> Nat] /\ \A b \in Bucket : shared[b] <= Capacity[b]
    /\ fallback \in [Bucket -> Nat] /\ \A b \in Bucket : fallback[b] <= Capacity[b]
    /\ spent    \in [Tasks -> [Backend -> [Bucket -> Nat]]]
    /\ granted  \in [Backend -> Nat]
    /\ acquires \in 0..MaxAcquires
    /\ outages  \in 0..MaxOutages
    /\ refills  \in 0..MaxRefills

\* What a call has paid by the time it asks for the tenant's token, ...
PaidNothing(p) == \A k \in Backend, b \in Bucket : p[k][b] = 0

\* ... once Redis has granted that one and the session's is asked for, ...
PaidTenant(p) ==
    \A k \in Backend, b \in Bucket :
      p[k][b] = IF k = "shared" /\ b = Tenant THEN 1 ELSE 0

\* ... and at the end: never twice, and both tokens if it was granted.
Within(p, s) ==
    \A k \in Backend, b \in Bucket : p[k][b] <= (IF b \in {Tenant, s} THEN 1 ELSE 0)

PaidBoth(p, s) == \E k \in Backend : p[k][Tenant] = 1 /\ p[k][s] = 1

\* Where a call is says exactly what it has paid.  Only a call that waits for
\* Redis has a command in flight, so a reply can charge it only once.
CallInv(t) ==
    /\ task[t] = "calling" <=> command[t] # "none"
    /\ \/ /\ stage[t] = "idle" /\ command[t] = "none"
          /\ Within(spent[t], SessionOf[t])
          /\ answer[t] = "granted" => PaidBoth(spent[t], SessionOf[t])
       \/ /\ stage[t] = "tenant" /\ command[t] # "none" /\ answer[t] = "none"
          /\ PaidNothing(spent[t])
       \/ stage[t] = "session" /\ answer[t] = "none" /\ PaidTenant(spent[t])

\* Before the first outage nothing has failed and nothing has been rejected.
HealthInv ==
    outages = 0 => /\ redisUp /\ troubled = {}
                   /\ state = "CLOSED" /\ fallback = Capacity

IInv ==
    /\ B!TypeOK /\ B!TrippedAtThreshold
    /\ LimiterTypes
    /\ \A t \in Tasks : CallInv(t)
    /\ FallbackBudget
    /\ HealthInv

\* What the steps of one call and those of the environment preserve; the
\* breaker's part of IInv is CircuitBreakerProofs' business.
Charges == LimiterTypes /\ (\A t \in Tasks : CallInv(t)) /\ FallbackBudget /\ HealthInv
-----------------------------------------------------------------------------
(* Lemmas about the steps' parts.                                          *)

\* The tiers do not share a bucket.
LEMMA Buckets ==
    /\ Tenant \in Bucket
    /\ \A t \in Tasks : SessionOf[t] \in Bucket /\ SessionOf[t] # Tenant
    /\ Capacity \in [Bucket -> Nat \ {0}]
    /\ Capacity[Tenant] = TenantCapacity
    /\ "shared" \in Backend /\ "fallback" \in Backend /\ "shared" # "fallback"
BY DEF Tenant, Bucket, Capacity, Backend

\* The script takes one token of a bucket that has one.
LEMMA TokenTaken ==
    ASSUME LimiterTypes, NEW b \in Bucket, shared[b] > 0,
           shared' = [shared EXCEPT ![b] = @ - 1]
    PROVE  shared' \in [Bucket -> Nat] /\ \A c \in Bucket : shared'[c] <= Capacity[c]
<1>1. \A c \in Bucket : shared[c] \in Nat /\ shared[c] <= Capacity[c] /\ Capacity[c] \in Nat
  BY Buckets DEF LimiterTypes
<1>2. \A c \in Bucket : shared'[c] = IF c = b THEN shared[c] - 1 ELSE shared[c]
  BY DEF LimiterTypes
<1>3. shared' \in [Bucket -> Nat]
  BY <1>1 DEF LimiterTypes
<1>4. \A c \in Bucket : shared'[c] <= Capacity[c]
  BY <1>1, <1>2
<1> QED BY <1>3, <1>4

\* A step of the breaker on one task leaves the others' calls alone, and does
\* not tell whether Redis is up.
LEMMA OneTask ==
    ASSUME NEW t \in Tasks, B!TypeOK,
           B!Call(t) \/ B!Succeed(t) \/ B!Fail(t) \/ B!Cancel(t)
    PROVE  /\ \A u \in Tasks \ {t} : task'[u] = task[u]
           /\ redisUp' = redisUp
BY DEF B!TypeOK, B!Call, B!AdmitClosed, B!AdmitFirstProbe, B!AdmitNextProbe, B!Issue,
       B!Reject, B!Succeed, B!Fail, B!Cancel, B!Return, B!envVars

\* A task keeps what it is owed when a step changes none of its fields.
LEMMA OtherTask ==
    ASSUME NEW u \in Tasks, CallInv(u), task'[u] = task[u], stage'[u] = stage[u],
           command'[u] = command[u], answer'[u] = answer[u], spent'[u] = spent[u]
    PROVE  CallInv(u)'
BY DEF CallInv

\* _run_script's first command is in flight and the breaker counts the call.
LEMMA Sent ==
    ASSUME NEW t \in Tasks, B!TypeOK, LimiterTypes, SendFirst(t)
    PROVE  /\ task'[t] = "calling"
           /\ command' \in [Tasks -> {"none", "load", "eval", "reload", "reeval"}]
           /\ command'[t] # "none"
           /\ \A u \in Tasks \ {t} : command'[u] = command[u] /\ task'[u] = task[u]
           /\ UNCHANGED <<sha, granted, shared, fallback>>
BY DEF SendFirst, LimiterTypes, bucketVars, B!TypeOK, B!AdmitClosed,
       B!AdmitFirstProbe, B!AdmitNextProbe, B!Issue

\* The per-process limiter decides a call that has paid nothing to it yet
\* (_ensure_fallback().acquire): it charges both tokens or grants nothing, and
\* every grant takes a token of the tenant's.
LEMMA FallenBack ==
    ASSUME NEW t \in Tasks, LimiterTypes,
           NEW before \in [Backend -> [Bucket -> Nat]],
           Within(before, SessionOf[t]), FallBack(t, before)
    PROVE  /\ stage' = [stage EXCEPT ![t] = "idle"]
           /\ command' = [command EXCEPT ![t] = "none"]
           /\ answer'[t] # "none"
           /\ \A u \in Tasks \ {t} : answer'[u] = answer[u] /\ spent'[u] = spent[u]
           /\ answer' \in [Tasks -> {"none", "granted", "limited:tenant",
                                     "limited:session", "raised", "cancelled"}]
           /\ spent' \in [Tasks -> [Backend -> [Bucket -> Nat]]]
           /\ Within(spent'[t], SessionOf[t])
           /\ answer'[t] = "granted" => PaidBoth(spent'[t], SessionOf[t])
           /\ fallback' \in [Bucket -> Nat] /\ \A b \in Bucket : fallback'[b] <= Capacity[b]
           /\ granted' \in [Backend -> Nat]
           /\ granted'["fallback"] + fallback'[Tenant]
                <= granted["fallback"] + fallback[Tenant]
           /\ sha' = sha
<1> DEFINE sess == SessionOf[t]
           consumed == Consumed(sess)
           paid == [before EXCEPT !["fallback"] =
                      [b \in Bucket |-> IF b \in consumed THEN 1 ELSE 0]]
<1>1. /\ consumed \subseteq {Tenant, sess}
      /\ sess \in consumed => Tenant \in consumed
      /\ \A b \in consumed : fallback[b] > 0
      /\ consumed = {Tenant} => sess \notin consumed
  BY Buckets DEF Consumed, LimiterTypes
<1>2. /\ fallback' = [b \in Bucket |-> IF b \in consumed THEN fallback[b] - 1 ELSE fallback[b]]
      /\ spent' = [spent EXCEPT ![t] = paid]
      /\ sha' = sha
  BY DEF FallBack
<1>3. /\ stage' = [stage EXCEPT ![t] = "idle"]
      /\ command' = [command EXCEPT ![t] = "none"]
      /\ \/ Tenant \notin consumed /\ granted' = granted
            /\ answer' = [answer EXCEPT ![t] = "limited:tenant"]
         \/ consumed = {Tenant} /\ granted' = granted
            /\ answer' = [answer EXCEPT ![t] = "limited:session"]
         \/ /\ sess \in consumed
            /\ granted' = [granted EXCEPT !["fallback"] = @ + 1]
            /\ answer' = [answer EXCEPT ![t] = "granted"]
  BY DEF FallBack, End, Count
<1>4. paid \in [Backend -> [Bucket -> Nat]]
  OBVIOUS
<1>5. Within(paid, sess)
  BY <1>1, Buckets DEF Within
<1>6. sess \in consumed => PaidBoth(paid, sess)
  BY <1>1, Buckets DEF PaidBoth
<1>7. /\ spent' \in [Tasks -> [Backend -> [Bucket -> Nat]]]
      /\ spent'[t] = paid
      /\ \A u \in Tasks \ {t} : spent'[u] = spent[u]
  BY <1>2, <1>4 DEF LimiterTypes
<1>8. /\ fallback' \in [Bucket -> Nat]
      /\ \A b \in Bucket : fallback'[b] <= Capacity[b]
  BY <1>1, <1>2, Buckets DEF LimiterTypes
<1>9. /\ granted' \in [Backend -> Nat]
      /\ granted'["fallback"] + fallback'[Tenant]
           <= granted["fallback"] + fallback[Tenant]
  <2>1. /\ granted["fallback"] \in Nat /\ fallback[Tenant] \in Nat
        /\ fallback'[Tenant]
             = IF Tenant \in consumed THEN fallback[Tenant] - 1 ELSE fallback[Tenant]
    BY <1>2, Buckets DEF LimiterTypes
  <2>2. CASE granted' = granted
    BY <2>1, <2>2 DEF LimiterTypes
  <2>3. CASE /\ sess \in consumed
             /\ granted' = [granted EXCEPT !["fallback"] = @ + 1]
    <3>1. granted' \in [Backend -> Nat] /\ granted'["fallback"] = granted["fallback"] + 1
      BY <2>3, Buckets DEF LimiterTypes
    <3> QED BY <1>1, <2>1, <2>3, <3>1
  <2> QED BY <1>3, <2>2, <2>3
<1>10. /\ answer'[t] # "none"
       /\ \A u \in Tasks \ {t} : answer'[u] = answer[u]
       /\ answer' \in [Tasks -> {"none", "granted", "limited:tenant",
                                 "limited:session", "raised", "cancelled"}]
       /\ answer'[t] = "granted" => sess \in consumed
  BY <1>3 DEF LimiterTypes
<1> QED BY <1>2, <1>3, <1>5, <1>6, <1>7, <1>8, <1>9, <1>10
-----------------------------------------------------------------------------
(* One lemma per action.                                                   *)

LEMMA ChargesInit == Init => Charges
<1> SUFFICES ASSUME Init PROVE Charges
  OBVIOUS
<1>1. Nothing \in [Backend -> [Bucket -> Nat]]
  BY DEF Nothing
<1>2. LimiterTypes
  <2>1. Capacity \in [Bucket -> Nat] /\ \A b \in Bucket : Capacity[b] <= Capacity[b]
    BY Buckets
  <2>2. spent \in [Tasks -> [Backend -> [Bucket -> Nat]]]
    BY <1>1 DEF Init
  <2>3. granted \in [Backend -> Nat]
    BY DEF Init
  <2>4. /\ shared \in [Bucket -> Nat] /\ \A b \in Bucket : shared[b] <= Capacity[b]
        /\ fallback \in [Bucket -> Nat] /\ \A b \in Bucket : fallback[b] <= Capacity[b]
    BY <2>1 DEF Init
  <2>5. /\ stage   \in [Tasks -> {"idle", "tenant", "session"}]
        /\ command \in [Tasks -> {"none", "load", "eval", "reload", "reeval"}]
        /\ answer  \in [Tasks -> {"none", "granted", "limited:tenant",
                                  "limited:session", "raised", "cancelled"}]
        /\ sha \in BOOLEAN /\ cached \in BOOLEAN
    BY Zenon DEF Init
  <2>6. /\ acquires \in 0..MaxAcquires /\ outages \in 0..MaxOutages
        /\ refills \in 0..MaxRefills
    BY DEF Init
  <2> QED BY <2>2, <2>3, <2>4, <2>5, <2>6 DEF LimiterTypes
<1>3. ASSUME NEW t \in Tasks PROVE CallInv(t)
  BY DEF Init, B!Init, CallInv, Within, Nothing
<1>4. FallbackBudget /\ HealthInv
  BY Buckets DEF Init, B!Init, FallbackBudget, HealthInv
<1> QED BY <1>2, <1>3, <1>4 DEF Charges

\* A call that ends in the fallback; what may differ between its callers is
\* what Redis has executed by then.
LEMMA CallEnds ==
    ASSUME NEW t \in Tasks, IInv,
           NEW before \in [Backend -> [Bucket -> Nat]],
           Within(before, SessionOf[t]), FallBack(t, before),
           task'[t] # "calling", \A u \in Tasks \ {t} : task'[u] = task[u],
           shared' \in [Bucket -> Nat], \A b \in Bucket : shared'[b] <= Capacity[b],
           cached' \in BOOLEAN, acquires' \in 0..MaxAcquires,
           outages # 0, outages' = outages, refills' = refills
    PROVE  Charges'
<1> USE DEF IInv
<1>0. /\ stage' = [stage EXCEPT ![t] = "idle"]
      /\ command' = [command EXCEPT ![t] = "none"]
      /\ \A u \in Tasks \ {t} : answer'[u] = answer[u] /\ spent'[u] = spent[u]
      /\ Within(spent'[t], SessionOf[t])
      /\ answer'[t] = "granted" => PaidBoth(spent'[t], SessionOf[t])
  BY FallenBack
<1>1. LimiterTypes'
  BY FallenBack DEF LimiterTypes
<1>2. CallInv(t)'
  BY <1>0 DEF LimiterTypes, CallInv
<1>3. ASSUME NEW u \in Tasks \ {t}
      PROVE  CallInv(u)'
  <2>1. /\ stage'[u] = stage[u] /\ command'[u] = command[u]
        /\ answer'[u] = answer[u] /\ spent'[u] = spent[u]
    BY <1>0 DEF LimiterTypes
  <2> QED BY <2>1, OtherTask
<1>4. FallbackBudget'
  <2>1. /\ granted["fallback"] \in Nat /\ granted'["fallback"] \in Nat
        /\ fallback[Tenant] \in Nat /\ fallback'[Tenant] \in Nat /\ refills \in Nat
    BY <1>1, Buckets DEF LimiterTypes
  <2> QED BY <2>1, FallenBack DEF FallbackBudget
<1>5. HealthInv'
  BY DEF HealthInv
<1> QED BY <1>1, <1>2, <1>3, <1>4, <1>5 DEF Charges

\* acquire() starts a call that has paid nothing, or is rejected and served
\* by the fallback alone.
LEMMA AcquireStep ==
    ASSUME NEW t \in Tasks, IInv, Acquire(t)
    PROVE  Charges'
<1> USE DEF IInv
<1>1. CASE /\ SendFirst(t)
           /\ stage' = [stage EXCEPT ![t] = "tenant"]
           /\ answer' = [answer EXCEPT ![t] = "none"]
           /\ spent' = [spent EXCEPT ![t] = Nothing]
  <2>1. Nothing \in [Backend -> [Bucket -> Nat]] /\ PaidNothing(Nothing)
    BY DEF Nothing, PaidNothing
  <2>2. LimiterTypes'
    <3>1. acquires' \in 0..MaxAcquires /\ UNCHANGED <<cached, outages, refills>>
      BY DEF Acquire, LimiterTypes
    <3> QED BY <1>1, <2>1, <3>1, Sent DEF LimiterTypes
  <2>3. CallInv(t)'
    BY <1>1, <2>1, Sent DEF LimiterTypes, CallInv
  <2>4. \A u \in Tasks \ {t} : CallInv(u)'
    BY <1>1, Sent, OtherTask DEF LimiterTypes
  <2>5. FallbackBudget'
    BY <1>1, Sent DEF Acquire, FallbackBudget
  <2>6. HealthInv'
    BY <1>1, Sent DEF Acquire, HealthInv, SendFirst, B!AdmitClosed, B!AdmitFirstProbe,
                      B!AdmitNextProbe, B!Issue, B!CanPromote
  <2> QED BY <2>2, <2>3, <2>4, <2>5, <2>6 DEF Charges
<1>2. CASE B!Reject(t) /\ FallBack(t, Nothing)
  <2>1. Nothing \in [Backend -> [Bucket -> Nat]] /\ Within(Nothing, SessionOf[t])
    BY DEF Nothing, Within
  <2>2. acquires' \in 0..MaxAcquires /\ UNCHANGED <<cached, shared, outages, refills>>
    BY DEF Acquire, LimiterTypes
  <2>3. task'[t] # "calling" /\ \A u \in Tasks \ {t} : task'[u] = task[u]
    BY <1>2 DEF B!Reject, B!TypeOK
  <2>4. outages # 0
    BY <1>2 DEF B!Reject, HealthInv
  <2> QED BY <1>2, <2>1, <2>2, <2>3, <2>4, CallEnds DEF LimiterTypes
<1> QED BY <1>1, <1>2 DEF Acquire

\* The tenant's token was granted: the call goes on to the session's bucket,
\* or is served by the fallback after it has paid the tenant's in Redis.
LEMMA AcquireSessionStep ==
    ASSUME NEW t \in Tasks, IInv, AcquireSession(t)
    PROVE  Charges'
<1> USE DEF IInv
<1>a. stage[t] = "session" /\ answer[t] = "none" /\ PaidTenant(spent[t])
  BY DEF AcquireSession, CallInv
<1>b. UNCHANGED <<cached, shared, acquires, outages, refills>>
  BY DEF AcquireSession, boundVars
<1>1. CASE SendFirst(t) /\ UNCHANGED <<stage, answer, spent>>
  <2>1. LimiterTypes'
    BY <1>1, <1>b, Sent DEF LimiterTypes
  <2>2. CallInv(t)'
    BY <1>1, <1>a, Sent DEF CallInv
  <2>3. \A u \in Tasks \ {t} : CallInv(u)'
    BY <1>1, Sent, OtherTask
  <2>4. FallbackBudget'
    BY <1>1, <1>b, Sent DEF FallbackBudget
  <2>5. HealthInv'
    BY <1>1, <1>b, Sent DEF HealthInv, SendFirst, B!AdmitClosed, B!AdmitFirstProbe,
                            B!AdmitNextProbe, B!Issue, B!CanPromote
  <2> QED BY <2>1, <2>2, <2>3, <2>4, <2>5 DEF Charges
<1>2. CASE B!Reject(t) /\ FallBack(t, spent[t])
  <2>1. spent[t] \in [Backend -> [Bucket -> Nat]] /\ Within(spent[t], SessionOf[t])
    <3>1. spent[t] \in [Backend -> [Bucket -> Nat]]
      BY DEF LimiterTypes
    <3>2. Within(spent[t], SessionOf[t])
      BY <1>a DEF PaidTenant, Within
    <3> QED BY <3>1, <3>2
  <2>2. task'[t] # "calling" /\ \A u \in Tasks \ {t} : task'[u] = task[u]
    BY <1>2 DEF B!Reject, B!TypeOK
  <2>3. outages # 0
    BY <1>2 DEF B!Reject, HealthInv
  <2> QED BY <1>2, <1>b, <2>1, <2>2, <2>3, CallEnds DEF LimiterTypes
<1> QED BY <1>1, <1>2 DEF AcquireSession

\* The script is loaded, or has to be loaded once more: nothing is charged.
LEMMA LoadStep ==
    ASSUME NEW t \in Tasks, IInv, Loaded(t) \/ NoScript(t)
    PROVE  Charges'
<1> USE DEF IInv
<1>1. /\ UNCHANGED <<breakerVars, stage, answer, spent, granted, shared, fallback,
                     acquires, outages, refills>>
      /\ command[t] # "none"
      /\ sha' \in BOOLEAN /\ cached' \in BOOLEAN
      /\ \E c \in {"eval", "reload", "reeval"} : command' = [command EXCEPT ![t] = c]
  BY DEF Loaded, NoScript, LimiterTypes, bucketVars, boundVars
<1>2. LimiterTypes'
  BY <1>1 DEF LimiterTypes
<1>3. CallInv(t)'
  BY <1>1 DEF CallInv, LimiterTypes, breakerVars
<1>4. \A u \in Tasks \ {t} : CallInv(u)'
  BY <1>1, OtherTask DEF LimiterTypes, breakerVars
<1>5. FallbackBudget' /\ HealthInv'
  BY <1>1 DEF FallbackBudget, HealthInv, breakerVars
<1> QED BY <1>2, <1>3, <1>4, <1>5 DEF Charges

\* A task whose command is in flight has paid nothing or the tenant's token;
\* the token it asks for is the other one.
LEMMA ChargedOnce ==
    ASSUME NEW t \in Tasks, IInv, task[t] = "calling",
           NEW before \in {spent[t], Charged(t)}
    PROVE  /\ before \in [Backend -> [Bucket -> Nat]]
           /\ Within(before, SessionOf[t])
           /\ stage[t] \in {"tenant", "session"} /\ answer[t] = "none"
           /\ stage[t] = "tenant" => At(t) = Tenant /\ PaidTenant(Charged(t))
           /\ stage[t] = "session" => PaidBoth(Charged(t), SessionOf[t])
<1> USE DEF IInv
<1>1. \/ stage[t] = "tenant" /\ answer[t] = "none" /\ PaidNothing(spent[t])
      \/ stage[t] = "session" /\ answer[t] = "none" /\ PaidTenant(spent[t])
  BY DEF CallInv
<1>2. /\ spent[t] \in [Backend -> [Bucket -> Nat]]
      /\ Within(spent[t], SessionOf[t])
  <2>1. spent[t] \in [Backend -> [Bucket -> Nat]]
    BY DEF LimiterTypes
  <2>2. PaidNothing(spent[t]) => Within(spent[t], SessionOf[t])
    BY DEF PaidNothing, Within
  <2>3. PaidTenant(spent[t]) => Within(spent[t], SessionOf[t])
    BY DEF PaidTenant, Within
  <2> QED BY <1>1, <2>1, <2>2, <2>3
<1>3. At(t) \in Bucket
  BY Buckets DEF At
<1>4. /\ Charged(t) \in [Backend -> [Bucket -> Nat]]
      /\ \A k \in Backend, b \in Bucket :
           Charged(t)[k][b] = IF k = "shared" /\ b = At(t) THEN spent[t][k][b] + 1
                                                           ELSE spent[t][k][b]
  BY <1>2, <1>3, Buckets DEF Charged
<1>5. CASE stage[t] = "tenant"
  <2>1. At(t) = Tenant
    BY <1>5 DEF At
  <2>2. PaidTenant(Charged(t)) /\ Within(Charged(t), SessionOf[t])
    BY <1>1, <1>4, <1>5, <2>1 DEF PaidNothing, PaidTenant, Within
  <2> QED BY <1>1, <1>2, <1>4, <1>5, <2>1, <2>2
<1>6. CASE stage[t] = "session"
  <2>1. At(t) = SessionOf[t]
    BY <1>6 DEF At
  <2>2. Within(Charged(t), SessionOf[t])
    BY <1>1, <1>4, <1>6, <2>1, Buckets DEF PaidTenant, Within
  <2>3. PaidBoth(Charged(t), SessionOf[t])
    BY <1>1, <1>4, <1>6, <2>1, Buckets DEF PaidTenant, PaidBoth
  <2> QED BY <1>1, <1>2, <1>4, <1>6, <2>2, <2>3
<1> QED BY <1>1, <1>5, <1>6

\* The script's answer, 1 or 0 (_run_script, acquire).
LEMMA AnswerStep ==
    ASSUME NEW t \in Tasks, IInv, TokenGranted(t) \/ TokenDenied(t)
    PROVE  Charges'
<1> USE DEF IInv
<1>1. /\ task[t] = "calling" /\ task'[t] # "calling" /\ redisUp' = redisUp
      /\ \A u \in Tasks \ {t} : task'[u] = task[u]
      /\ UNCHANGED troubled /\ (state = "CLOSED" => state' = "CLOSED")
  BY DEF TokenGranted, TokenDenied, B!TypeOK, B!Succeed, B!Return, B!envVars,
         B!RecordSuccess, B!Close, B!breakerVars
<1>2. UNCHANGED <<sha, cached, fallback, acquires, outages, refills>>
  BY DEF TokenGranted, TokenDenied, boundVars, bucketVars
<1>3. HealthInv'
  BY <1>1, <1>2 DEF HealthInv
<1>4. At(t) \in Bucket /\ Charged(t) \in [Backend -> [Bucket -> Nat]]
      /\ Within(spent[t], SessionOf[t]) /\ Within(Charged(t), SessionOf[t])
      /\ stage[t] \in {"tenant", "session"} /\ answer[t] = "none"
  BY <1>1, ChargedOnce, Buckets DEF At
<1>5. CASE TokenDenied(t)
  <2>1. PICK how \in {"limited:tenant", "limited:session"} :
          /\ stage' = [stage EXCEPT ![t] = "idle"]
          /\ command' = [command EXCEPT ![t] = "none"]
          /\ answer' = [answer EXCEPT ![t] = how]
    BY <1>5 DEF TokenDenied, End
  <2>2. UNCHANGED <<spent, granted, shared>>
    BY <1>5 DEF TokenDenied, bucketVars
  <2>3. LimiterTypes'
    BY <1>2, <2>1, <2>2 DEF LimiterTypes
  <2>4. CallInv(t)'
    BY <1>1, <1>4, <2>1, <2>2 DEF LimiterTypes, CallInv
  <2>5. \A u \in Tasks \ {t} : CallInv(u)'
    BY <1>1, <2>1, <2>2, OtherTask DEF LimiterTypes
  <2>6. FallbackBudget'
    BY <1>2, <2>2 DEF FallbackBudget
  <2> QED BY <1>3, <2>3, <2>4, <2>5, <2>6 DEF Charges
<1>6. CASE TokenGranted(t)
  <2>1. /\ shared' = [shared EXCEPT ![At(t)] = @ - 1] /\ shared[At(t)] > 0
        /\ spent' = [spent EXCEPT ![t] = Charged(t)]
        /\ command' = [command EXCEPT ![t] = "none"]
        /\ \/ /\ stage[t] = "tenant" /\ UNCHANGED <<answer, granted>>
              /\ stage' = [stage EXCEPT ![t] = "session"]
           \/ /\ stage[t] = "session"
              /\ stage' = [stage EXCEPT ![t] = "idle"]
              /\ answer' = [answer EXCEPT ![t] = "granted"]
              /\ granted' = [granted EXCEPT !["shared"] = @ + 1]
    BY <1>6 DEF TokenGranted, End, Count
  <2>2. shared' \in [Bucket -> Nat] /\ \A b \in Bucket : shared'[b] <= Capacity[b]
    BY <1>4, <2>1, TokenTaken
  <2>3. spent' \in [Tasks -> [Backend -> [Bucket -> Nat]]]
    BY <1>4, <2>1 DEF LimiterTypes
  <2>4. granted' \in [Backend -> Nat] /\ granted'["fallback"] = granted["fallback"]
    <3>1. granted \in [Backend -> Nat]
      BY DEF LimiterTypes
    <3>2. CASE granted' = granted
      BY <3>1, <3>2
    <3>3. CASE granted' = [granted EXCEPT !["shared"] = @ + 1]
      BY <3>1, <3>3, Buckets
    <3> QED BY <2>1, <3>2, <3>3
  <2>5. LimiterTypes'
    BY <1>2, <2>1, <2>2, <2>3, <2>4 DEF LimiterTypes
  <2>6. CallInv(t)'
    <3>1. CASE stage[t] = "tenant"
      BY <1>1, <1>4, <2>1, <3>1, ChargedOnce DEF LimiterTypes, CallInv
    <3>2. CASE stage[t] = "session"
      BY <1>1, <1>4, <2>1, <3>2, ChargedOnce DEF LimiterTypes, CallInv
    <3> QED BY <1>4, <3>1, <3>2
  <2>7. \A u \in Tasks \ {t} : CallInv(u)'
    BY <1>1, <2>1, OtherTask DEF LimiterTypes
  <2>8. FallbackBudget'
    BY <1>2, <2>4 DEF FallbackBudget
  <2> QED BY <1>3, <2>5, <2>6, <2>7, <2>8 DEF Charges
<1> QED BY <1>5, <1>6

\* Whatever Redis has executed of a command, what the call has paid is what
\* its record says.
LEMMA ExecutedOnce ==
    ASSUME NEW t \in Tasks, IInv, NEW before \in {spent[t], Charged(t)},
           Executed(t, before)
    PROVE  /\ shared' \in [Bucket -> Nat] /\ \A b \in Bucket : shared'[b] <= Capacity[b]
           /\ cached' \in BOOLEAN
<1>1. At(t) \in Bucket
  BY Buckets DEF At
<1>2. CASE UNCHANGED shared
  BY <1>2 DEF IInv, LimiterTypes, Executed
<1>3. CASE shared[At(t)] > 0 /\ shared' = [shared EXCEPT ![At(t)] = @ - 1]
  <2>1. cached' \in BOOLEAN
    BY DEF IInv, LimiterTypes, Executed
  <2> QED BY <1>1, <1>3, <2>1, TokenTaken DEF IInv
<1> QED BY <1>2, <1>3 DEF Executed

\* Redis does not answer in time: the fallback decides (acquire).
LEMMA NoReplyStep ==
    ASSUME NEW t \in Tasks, IInv, NoReply(t)
    PROVE  Charges'
<1> USE DEF IInv
<1>1. PICK before \in {spent[t], Charged(t)} : Executed(t, before) /\ FallBack(t, before)
  BY DEF NoReply
<1>2. /\ task[t] = "calling" /\ task'[t] # "calling"
      /\ \A u \in Tasks \ {t} : task'[u] = task[u]
      /\ ~redisUp \/ t \in troubled
  BY DEF NoReply, B!TypeOK, B!Fail, B!Return
<1>3. before \in [Backend -> [Bucket -> Nat]] /\ Within(before, SessionOf[t])
  BY <1>2, ChargedOnce
<1>4. outages # 0 /\ UNCHANGED <<acquires, outages, refills>>
  BY <1>2 DEF HealthInv, NoReply, boundVars
<1>5. /\ shared' \in [Bucket -> Nat] /\ \A b \in Bucket : shared'[b] <= Capacity[b]
      /\ cached' \in BOOLEAN
  BY <1>1, ExecutedOnce
<1> QED BY <1>1, <1>2, <1>3, <1>4, <1>5, CallEnds DEF LimiterTypes

\* The call ends without an answer: a server error, or cancelled while Redis
\* may have executed its command.
LEMMA AbortStep ==
    ASSUME NEW t \in Tasks, IInv, ServerError(t) \/ Cancelled(t)
    PROVE  Charges'
<1> USE DEF IInv
<1>1. /\ task[t] = "calling" /\ task'[t] # "calling"
      /\ \A u \in Tasks \ {t} : task'[u] = task[u]
  BY DEF ServerError, Cancelled, B!TypeOK, B!Fail, B!Cancel, B!Return
<1>2. PICK how \in {"raised", "cancelled"} :
        /\ stage' = [stage EXCEPT ![t] = "idle"]
        /\ command' = [command EXCEPT ![t] = "none"]
        /\ answer' = [answer EXCEPT ![t] = how]
  BY DEF ServerError, Cancelled, End
<1>3. UNCHANGED <<sha, granted, fallback, acquires, outages, refills>>
  BY DEF ServerError, Cancelled, bucketVars, boundVars
<1>4. PICK before \in {spent[t], Charged(t)} :
        /\ spent' = [spent EXCEPT ![t] = before]
        /\ shared' \in [Bucket -> Nat] /\ \A b \in Bucket : shared'[b] <= Capacity[b]
        /\ cached' \in BOOLEAN
  <2>1. CASE ServerError(t)
    <3>1. spent' = [spent EXCEPT ![t] = spent[t]]
      BY <2>1 DEF ServerError, LimiterTypes
    <3> QED BY <2>1, <3>1 DEF ServerError, LimiterTypes, bucketVars
  <2>2. CASE Cancelled(t)
    BY <2>2, ExecutedOnce DEF Cancelled
  <2> QED BY <2>1, <2>2
<1>5. before \in [Backend -> [Bucket -> Nat]] /\ Within(before, SessionOf[t])
  BY <1>1, ChargedOnce
<1>6. LimiterTypes'
  BY <1>2, <1>3, <1>4, <1>5 DEF LimiterTypes
<1>7. CallInv(t)'
  BY <1>1, <1>2, <1>4, <1>5 DEF LimiterTypes, CallInv
<1>8. \A u \in Tasks \ {t} : CallInv(u)'
  BY <1>1, <1>2, <1>4, OtherTask DEF LimiterTypes
<1>9. FallbackBudget'
  BY <1>3 DEF FallbackBudget
<1>10. HealthInv'
  <2>1. CASE ServerError(t)
    BY <1>3, <2>1 DEF HealthInv, ServerError, B!Fail
  <2>2. CASE Cancelled(t)
    BY <1>3, <2>2 DEF HealthInv, Cancelled, B!Cancel, B!breakerVars, B!envVars
  <2> QED BY <2>1, <2>2
<1> QED BY <1>6, <1>7, <1>8, <1>9, <1>10 DEF Charges

\* Time passes, Redis goes and comes back, tokens are refilled: no call's
\* charges change, and a refilled token is a counted one.
LEMMA EnvironmentStep ==
    ASSUME IInv, Pass \/ RedisFails \/ RedisRecovers \/ Refill \/ UNCHANGED vars
    PROVE  Charges'
<1> USE DEF IInv
<1>1. UNCHANGED <<task, stage, command, answer, spent, granted, sha, acquires>>
  BY DEF Pass, RedisFails, RedisRecovers, Refill, vars, limiterVars, callVars,
         boundVars, breakerVars, B!Tick, B!RedisFails, B!RedisRecovers
<1>2. \A t \in Tasks : CallInv(t)'
  BY <1>1, OtherTask
<1>3. CASE Pass \/ UNCHANGED vars
  <2>1. UNCHANGED <<state, redisUp, troubled, fallback, outages, refills, shared, cached>>
    BY <1>3 DEF Pass, vars, limiterVars, callVars, boundVars, bucketVars, breakerVars,
                B!Tick, B!envVars
  <2> QED BY <1>1, <1>2, <2>1 DEF Charges, LimiterTypes, FallbackBudget, HealthInv
<1>4. CASE RedisFails
  <2>1. /\ UNCHANGED <<fallback, refills, shared, cached>>
        /\ outages' = outages + 1 /\ outages < MaxOutages
    BY <1>4 DEF RedisFails, bucketVars
  <2>2. LimiterTypes' /\ outages' # 0
    BY <1>1, <2>1 DEF LimiterTypes
  <2> QED BY <1>1, <1>2, <2>1, <2>2 DEF Charges, FallbackBudget, HealthInv
<1>5. CASE RedisRecovers
  <2>1. /\ UNCHANGED <<fallback, outages, refills, state, troubled>>
        /\ ~redisUp
    BY <1>5 DEF RedisRecovers, boundVars, B!RedisRecovers, B!breakerVars
  <2>2. /\ shared' \in [Bucket -> Nat] /\ \A b \in Bucket : shared'[b] <= Capacity[b]
        /\ cached' \in BOOLEAN
    <3>1. CASE shared' = shared /\ cached' = cached
      BY <3>1 DEF LimiterTypes
    <3>2. CASE shared' = Capacity /\ cached' = FALSE
      <4>1. Capacity \in [Bucket -> Nat] /\ \A b \in Bucket : Capacity[b] <= Capacity[b]
        BY Buckets
      <4> QED BY <3>2, <4>1
    <3> QED BY <1>5, <3>1, <3>2 DEF RedisRecovers
  <2>3. LimiterTypes'
    BY <1>1, <2>1, <2>2 DEF LimiterTypes
  <2> QED BY <1>1, <1>2, <2>1, <2>3 DEF Charges, FallbackBudget, HealthInv
<1>6. CASE Refill
  <2>1. /\ UNCHANGED <<state, redisUp, troubled, outages, cached>>
        /\ refills < MaxRefills /\ refills' = refills + 1
    BY <1>6 DEF Refill, breakerVars
  <2>2. PICK b \in Bucket :
          \/ /\ shared[b] < Capacity[b] /\ fallback' = fallback
             /\ shared' = [shared EXCEPT ![b] = @ + 1]
          \/ /\ fallback[b] < Capacity[b] /\ shared' = shared
             /\ fallback' = [fallback EXCEPT ![b] = @ + 1]
    BY <1>6 DEF Refill
  <2>3. /\ shared' \in [Bucket -> Nat] /\ \A c \in Bucket : shared'[c] <= Capacity[c]
        /\ fallback' \in [Bucket -> Nat] /\ \A c \in Bucket : fallback'[c] <= Capacity[c]
    <3>1. \A c \in Bucket : /\ shared[c] \in Nat /\ shared[c] <= Capacity[c]
                            /\ fallback[c] \in Nat /\ fallback[c] <= Capacity[c]
                            /\ Capacity[c] \in Nat
      BY Buckets DEF LimiterTypes
    <3>2. shared \in [Bucket -> Nat] /\ fallback \in [Bucket -> Nat]
      BY DEF LimiterTypes
    <3> QED BY <2>2, <3>1, <3>2
  <2>4. LimiterTypes'
    BY <1>1, <2>1, <2>3 DEF LimiterTypes
  <2>5. FallbackBudget'
    <3>1. granted["fallback"] \in Nat /\ fallback[Tenant] \in Nat /\ refills \in Nat
      BY Buckets DEF LimiterTypes
    <3>2. fallback \in [Bucket -> Nat]
      BY DEF LimiterTypes
    <3>3. fallback'[Tenant] <= fallback[Tenant] + 1 /\ fallback'[Tenant] \in Nat
      BY <2>2, <3>1, <3>2, Buckets
    <3> QED BY <1>1, <2>1, <3>1, <3>3 DEF FallbackBudget
  <2>6. HealthInv'
    <3>1. fallback = Capacity => fallback' = fallback
      BY <2>2, Buckets
    <3> QED BY <2>1, <3>1 DEF HealthInv
  <2> QED BY <1>2, <2>4, <2>5, <2>6 DEF Charges
<1> QED BY <1>3, <1>4, <1>5, <1>6
-----------------------------------------------------------------------------
(* The theorems.                                                           *)

LEMMA Inductive == IInv /\ [Next]_vars => IInv'
<1> SUFFICES ASSUME IInv, [Next]_vars PROVE IInv'
  OBVIOUS
<1>1. Charges'
  BY AcquireStep, AcquireSessionStep, LoadStep, AnswerStep, NoReplyStep, AbortStep,
     EnvironmentStep DEF Next, Reply, Trouble
<1>2. B!TypeOK' /\ B!TrippedAtThreshold'
  <2>1. P!TypeInv /\ [P!Next]_P!vars => P!TypeInv'
    BY P!TypeStep, SameAssumption
  <2>2. (B!TypeOK' <=> P!TypeOK') /\ (B!TrippedAtThreshold' <=> P!TrippedAtThreshold')
    BY SameBreaker, PTL
  <2> QED BY <2>1, <2>2, BreakerStep, SameBreaker DEF IInv, P!TypeInv
<1> QED BY <1>1, <1>2 DEF IInv, Charges

LEMMA Invariant == Spec => []IInv
<1>1. Init => B!TypeOK /\ B!TrippedAtThreshold
  BY BreakerInit, SameBreaker, P!TypeInit, SameAssumption DEF P!TypeInv
<1>2. Init => IInv
  BY <1>1, ChargesInit DEF IInv, Charges
<1> QED BY <1>2, Inductive, PTL DEF Spec

\* Buckets, charges and counters stay within their types and capacities, in
\* the limiter and in the breaker it drives (redis_limiter.py).
THEOREM TypeCorrect == Spec => []TypeOK
<1>1. IInv => TypeOK
  BY DEF IInv, LimiterTypes, TypeOK
<1> QED BY <1>1, Invariant, PTL

\* "Every tool call consumes exactly 1 token from both buckets", at least: a
\* granted call took both from one and the same backend, wherever Redis failed
\* or the breaker opened on its way (acquire, _run_script).
THEOREM GrantsArePaid == Spec => []GrantedCallsAreCharged
<1>1. IInv => GrantedCallsAreCharged
  <2> SUFFICES ASSUME IInv, NEW t \in Tasks, answer[t] = "granted"
               PROVE  PaidBoth(spent[t], SessionOf[t])
    BY DEF GrantedCallsAreCharged, PaidBoth
  <2> QED BY DEF IInv, CallInv
<1> QED BY <1>1, Invariant, PTL

\* At most: no reload after NOSCRIPT, lost reply or change to the fallback
\* charges a bucket twice, or another session's (acquire, _run_script).
THEOREM NoDoubleCharge == Spec => []NoBucketChargedTwice
<1>1. IInv => NoBucketChargedTwice
  <2> SUFFICES ASSUME IInv, NEW t \in Tasks
               PROVE  Within(spent[t], SessionOf[t])
    BY DEF NoBucketChargedTwice, Within
  <2> QED BY DEF IInv, CallInv, PaidNothing, PaidTenant, Within
<1> QED BY <1>1, Invariant, PTL

\* One replica grants beside Redis no more than one tenant capacity and what is
\* refilled, however often the breaker opens and closes (_ensure_fallback).
THEOREM FallbackIsBounded == Spec => []FallbackBudget
BY Invariant, PTL DEF IInv

\* Until Redis first fails the breaker stays closed and no call is served from
\* the fallback, whoever is cancelled and whichever bucket is empty (call,
\* acquire).
THEOREM OneBudget == Spec => []OneBudgetWhileHealthy
<1>1. IInv => OneBudgetWhileHealthy
  BY DEF IInv, HealthInv, OneBudgetWhileHealthy
<1> QED BY <1>1, Invariant, PTL

-----------------------------------------------------------------------------
(* The bucket the script keeps (SharedBucket).                             *)

\* The content of the bucket, were the key's age the time since its refill.
Fill == IF present THEN AtMostFull(tokens + Rate * idle) ELSE Full

\* Every replica finds that much time gone since the last refill.
Aged == present => \A r \in Replicas : Elapsed(clock + Skew[r]) = idle /\ last <= clock + Skew[r]

BucketInv ==
    /\ BucketTypeOK
    /\ Aged
    /\ counted * Cost + Fill <= Full + Rate * (clock - since)

\* What the proofs need of multiplication.
LEMMA Products ==
    /\ \A n \in Int : Rate * n \in Int /\ Rate * (n + 1) = Rate * n + Rate /\ n * Cost \in Int
                      /\ (n + 1) * Cost = n * Cost + Cost
    /\ \A n \in Nat : Rate * n \in Nat
    /\ Rate * TTL >= Full
BY BucketAssumption

\* A refill never overfills.
LEMMA AtMostFullBounds ==
    \A n \in Nat : AtMostFull(n) \in 0..Full /\ AtMostFull(n) <= n
BY BucketAssumption DEF AtMostFull

\* What a call finds is the bucket's content.
LEMMA Found ==
    ASSUME BucketInv, NEW r \in Replicas
    PROVE  Refilled(clock + Skew[r]) = Fill /\ Fill \in 0..Full
<1>1. CASE present
  <2>1. tokens \in 0..Full /\ idle \in Nat /\ Rate * idle \in Nat
    BY <1>1, Products DEF BucketInv, BucketTypeOK
  <2>2. Elapsed(clock + Skew[r]) = idle
    BY <1>1 DEF BucketInv, Aged
  <2>3. tokens + Rate * idle \in Nat
    BY <2>1
  <2> QED BY <1>1, <2>2, <2>3, AtMostFullBounds DEF Refilled, Fill
<1>2. CASE ~present
  BY <1>2, BucketAssumption DEF Refilled, Fill
<1> QED BY <1>1, <1>2

\* A write of the key makes its content what is written, and its age nothing.
LEMMA Written ==
    ASSUME BucketInv, \A r, s \in Replicas : Skew[r] = Skew[s],
           NEW r \in Replicas, NEW amount \in 0..Full,
           Store(amount, clock + Skew[r])
    PROVE  /\ Aged' /\ Fill' = amount
           /\ present' = TRUE /\ tokens' \in 0..Full /\ last' \in Nat /\ idle' = 0
<1>1. clock \in Nat /\ Skew \in [Replicas -> Nat] /\ clock' = clock
  BY BucketAssumption DEF BucketInv, BucketTypeOK, Store
<1>2. \A s \in Replicas : clock + Skew[s] = clock + Skew[r]
  BY <1>1
<1>3. Aged'
  BY <1>1, <1>2 DEF Aged, Elapsed, Store
<1>4. Rate * 0 = 0
  BY BucketAssumption
<1>5. Fill' = amount
  BY <1>4, BucketAssumption DEF Fill, Store, AtMostFull
<1> QED BY <1>1, <1>3, <1>5 DEF Store

\* Time adds as much to the budget as to the bucket, or more.
LEMMA TimeIsCovered ==
    ASSUME NEW drawn \in Int, NEW fill \in Int, NEW filled \in Int, NEW full \in Int,
           NEW due \in Int, NEW dueNow, NEW rate \in Int,
           drawn + fill <= full + due, filled <= fill + rate, dueNow = due + rate
    PROVE  drawn + filled <= full + dueNow
OBVIOUS

\* Whatever is granted leaves the bucket, and nothing enters it but the refill
\* of the time that has passed.
LEMMA BucketStep ==
    ASSUME BucketInv, [BucketNext]_hashVars, \A r, s \in Replicas : Skew[r] = Skew[s]
    PROVE  BucketInv'
<1> USE BucketAssumption
<1>1. ASSUME NEW r \in Replicas, Granted(r) PROVE BucketInv'
  <2>1. Fill \in 0..Full /\ Fill >= Cost /\ Store(Fill - Cost, clock + Skew[r])
        /\ counted' = counted + 1
    BY <1>1, Found DEF Granted
  <2>2. /\ Aged' /\ Fill' = Fill - Cost
        /\ present' = TRUE /\ tokens' \in 0..Full /\ last' \in Nat /\ idle' = 0
    <3>1. Fill - Cost \in 0..Full
      BY <2>1
    <3> QED BY <2>1, <3>1, Written
  <2>3. clock' = clock /\ since' = since
    BY <2>1 DEF Store
  <2>4. BucketTypeOK'
    BY <2>1, <2>2, <2>3 DEF BucketInv, BucketTypeOK
  <2>5. counted' * Cost + Fill' <= Full + Rate * (clock' - since')
    <3>1. counted \in Int /\ clock - since \in Int
          /\ counted * Cost + Fill <= Full + Rate * (clock - since)
      BY DEF BucketInv, BucketTypeOK
    <3>2. counted' * Cost = counted * Cost + Cost /\ counted * Cost \in Int
      BY <2>1, <3>1, Products
    <3> QED BY <2>1, <2>2, <2>3, <3>1, <3>2, Products
  <2> QED BY <2>2, <2>4, <2>5 DEF BucketInv
<1>2. ASSUME NEW r \in Replicas, Denied(r) PROVE BucketInv'
  <2>1. Fill \in 0..Full /\ Store(Fill, clock + Skew[r]) /\ counted' = counted
    BY <1>2, Found DEF Denied
  <2>2. /\ Aged' /\ Fill' = Fill
        /\ present' = TRUE /\ tokens' \in 0..Full /\ last' \in Nat /\ idle' = 0
    BY <2>1, Written
  <2>3. clock' = clock /\ since' = since
    BY <2>1 DEF Store
  <2>4. BucketTypeOK'
    BY <2>1, <2>2, <2>3 DEF BucketInv, BucketTypeOK
  <2> QED BY <2>1, <2>2, <2>3, <2>4 DEF BucketInv
<1>3. CASE Expire
  <2>1. Fill = Full
    <3>1. idle = TTL /\ tokens \in 0..Full /\ Rate * TTL \in Nat /\ Rate * TTL >= Full
      BY <1>3, Products DEF Expire, BucketInv, BucketTypeOK
    <3> QED BY <3>1 DEF Fill, AtMostFull
  <2>2. Fill' = Full /\ UNCHANGED <<clock, since, counted>> /\ present' = FALSE
    BY <1>3 DEF Expire, Fill
  <2>3. BucketTypeOK'
    <3>1. 0 \in 0..Full /\ 0 \in 0..TTL /\ 0 \in Nat
      OBVIOUS
    <3> QED BY <1>3, <2>2, <3>1 DEF Expire, BucketInv, BucketTypeOK
  <2> QED BY <2>1, <2>2, <2>3 DEF BucketInv, Aged
<1>4. CASE Tick
  <2>1. /\ clock \in Nat /\ since \in 0..clock /\ idle \in 0..TTL /\ tokens \in 0..Full
        /\ clock < MaxClock /\ clock' = clock + 1 /\ (present => idle < TTL)
        /\ idle' = (IF present THEN idle + 1 ELSE idle)
        /\ UNCHANGED <<present, tokens, last, since, counted>>
        /\ last \in Nat /\ counted \in Nat
    BY <1>4 DEF Tick, BucketInv, BucketTypeOK
  <2>2. BucketTypeOK'
    BY <2>1 DEF BucketInv, BucketTypeOK
  <2>3. Aged'
    <3> SUFFICES ASSUME present', NEW r \in Replicas
                 PROVE  Elapsed(clock + Skew[r])' = idle' /\ last' <= clock' + Skew[r]
      BY DEF Aged
    <3>1. Elapsed(clock + Skew[r]) = idle /\ last <= clock + Skew[r] /\ Skew[r] \in Nat
      BY <2>1 DEF BucketInv, Aged
    <3> QED BY <2>1, <3>1 DEF Elapsed
  <2>4. Fill' <= Fill + Rate /\ Fill' \in Int /\ Fill \in Int
    <3>1. Rate * idle \in Nat /\ Rate * (idle + 1) = Rate * idle + Rate
      BY <2>1, Products
    <3> QED BY <2>1, <3>1 DEF Fill, AtMostFull
  <2>5. Rate * (clock' - since') = Rate * (clock - since) + Rate
        /\ Rate * (clock - since) \in Int /\ counted * Cost \in Int
    <3>1. clock' - since' = (clock - since) + 1 /\ clock - since \in Int
      BY <2>1
    <3> QED BY <2>1, <3>1, Products
  <2>6. counted * Cost + Fill <= Full + Rate * (clock - since)
    BY DEF BucketInv
  <2>7. counted' * Cost + Fill' <= Full + Rate * (clock' - since')
    <3>1. Rate \in Int /\ Full \in Int /\ counted' = counted
      BY <2>1
    <3> QED BY <2>4, <2>5, <2>6, <3>1, TimeIsCovered
  <2> QED BY <2>2, <2>3, <2>7 DEF BucketInv
<1>5. CASE Watch
  <2>1. /\ UNCHANGED <<clock, present, tokens, last, idle>> /\ since' = clock /\ counted' = 0
        /\ clock \in Nat
    BY <1>5 DEF Watch, BucketInv, BucketTypeOK
  <2>2. BucketTypeOK' /\ Aged'
    BY <2>1 DEF BucketInv, BucketTypeOK, Aged, Elapsed
  <2>3. Fill \in 0..Full /\ Fill' = Fill
    <3>1. Rate * idle \in Nat /\ tokens \in 0..Full
      BY Products DEF BucketInv, BucketTypeOK
    <3>2. tokens + Rate * idle \in Nat
      BY <3>1
    <3> QED BY <2>1, <3>2, AtMostFullBounds DEF Fill
  <2>4. 0 * Cost = 0 /\ Rate * (clock - clock) = 0
    BY <2>1
  <2> QED BY <2>1, <2>2, <2>3, <2>4 DEF BucketInv
<1>6. CASE UNCHANGED hashVars
  BY <1>6 DEF hashVars, BucketInv, BucketTypeOK, Aged, Elapsed, Fill
<1> QED BY <1>1, <1>2, <1>3, <1>4, <1>5, <1>6 DEF BucketNext

\* The bucket is full before the first call.
LEMMA BucketStart == BucketInit => BucketInv
<1> SUFFICES ASSUME BucketInit PROVE BucketInv
  OBVIOUS
<1>1. 0 * Cost = 0 /\ Rate * (0 - 0) = 0
  BY BucketAssumption
<1>2. BucketTypeOK
  <2>1. 0 \in 0..MaxClock /\ 0 \in 0..Full /\ 0 \in 0..TTL /\ 0 \in 0..0
    BY BucketAssumption
  <2> QED BY <2>1 DEF BucketInit, BucketTypeOK
<1>3. counted * Cost = 0 /\ Rate * (clock - since) = 0 /\ Fill = Full
  BY <1>1 DEF BucketInit, Fill
<1> QED BY <1>2, <1>3, BucketAssumption DEF BucketInit, BucketInv, Aged

\* The script's budget, for every number of replicas, capacity, rate and window,
\* if the replicas' clocks agree: in no window does the fleet grant more than
\* the capacity and the refill of the window (token_bucket.lua).
THEOREM WindowIsBounded ==
    ASSUME \A r, s \in Replicas : Skew[r] = Skew[s]
    PROVE  BucketSpec => []WindowBound
<1>1. BucketInv => WindowBound
  <2> SUFFICES ASSUME BucketInv PROVE WindowBound
    OBVIOUS
  <2>1. tokens \in 0..Full /\ Rate * idle \in Nat /\ counted * Cost \in Int
        /\ Rate * (clock - since) \in Int
    BY Products DEF BucketInv, BucketTypeOK
  <2>2. tokens + Rate * idle \in Nat
    BY <2>1
  <2>3. Fill \in 0..Full
    BY <2>2, AtMostFullBounds, BucketAssumption DEF Fill
  <2> QED BY <2>1, <2>3, BucketAssumption DEF BucketInv, WindowBound
<1>2. BucketInv /\ [BucketNext]_hashVars => BucketInv'
  BY BucketStep
<1> QED BY <1>1, <1>2, BucketStart, PTL DEF BucketSpec

\* The abstract level is the content a call would find.
LEMMA LevelIsFill ==
    ASSUME BucketInv, \A r \in Replicas : Skew[r] = 0
    PROVE  Level = Fill /\ Fill \in 0..Full
<1>1. PICK r \in Replicas : TRUE
  BY BucketAssumption
<1>2. clock \in Nat /\ clock + Skew[r] = clock
  BY BucketAssumption DEF BucketInv, BucketTypeOK
<1>3. Refilled(clock + Skew[r]) = Fill /\ Fill \in 0..Full
  BY Found
<1> QED BY <1>2, <1>3 DEF Refilled, Level

\* Every step is one of the ideal bucket's, or leaves it as it is.
LEMMA IdealStep ==
    ASSUME BucketInv, BucketInv', [BucketNext]_hashVars,
           \A r \in Replicas : Skew[r] = 0
    PROVE  [Ideal!Next]_Ideal!vars
<1> USE BucketAssumption
<1>1. Level = Fill /\ Fill \in 0..Full /\ Level' = Fill'
  <2>1. Level = Fill /\ Fill \in 0..Full
    BY LevelIsFill
  <2>2. Level' = Fill'
    <3>1. PICK r \in Replicas : TRUE
      OBVIOUS
    <3>2. clock' \in Nat /\ clock' + Skew[r] = clock'
      BY DEF BucketInv, BucketTypeOK
    <3>3. present' => Elapsed(clock + Skew[r])' = idle'
      BY DEF BucketInv, Aged
    <3>4. present' => Elapsed(clock)' = idle'
      BY <3>2, <3>3 DEF Elapsed
    <3> QED BY <3>4 DEF Level, Fill
  <2> QED BY <2>1, <2>2
<1>2. ASSUME NEW r \in Replicas, Granted(r) PROVE Ideal!Grant
  <2>1. Fill >= Cost /\ Store(Fill - Cost, clock + Skew[r]) /\ counted' = counted + 1
    BY <1>2, Found DEF Granted
  <2>2. Fill' = Fill - Cost
    <3>1. Fill - Cost \in 0..Full
      BY <1>1, <2>1
    <3> QED BY <2>1, <3>1, Written
  <2> QED BY <1>1, <2>1, <2>2 DEF Store, Ideal!Grant
<1>3. ASSUME NEW r \in Replicas, Denied(r) PROVE UNCHANGED Ideal!vars
  <2>1. Store(Fill, clock + Skew[r]) /\ counted' = counted
    BY <1>3, Found DEF Denied
  <2>2. Fill' = Fill
    BY <1>1, <2>1, Written
  <2> QED BY <1>1, <2>1, <2>2 DEF Store, Ideal!vars
<1>4. CASE Expire
  <2>1. Fill = Full
    <3>1. idle = TTL /\ tokens \in 0..Full /\ Rate * TTL \in Nat /\ Rate * TTL >= Full
      BY <1>4, Products DEF Expire, BucketInv, BucketTypeOK
    <3> QED BY <3>1 DEF Fill, AtMostFull
  <2>2. Fill' = Full /\ UNCHANGED <<clock, since, counted>>
    BY <1>4 DEF Expire, Fill
  <2> QED BY <1>1, <2>1, <2>2 DEF Ideal!vars
<1>5. CASE Tick
  <2>1. Fill' = AtMostFull(Fill + Rate)
    <3>1. tokens \in 0..Full /\ idle \in Nat /\ idle' = (IF present THEN idle + 1 ELSE idle)
          /\ UNCHANGED <<present, tokens>>
      BY <1>5 DEF Tick, BucketInv, BucketTypeOK
    <3>2. Rate * idle \in Nat /\ Rate * (idle + 1) = Rate * idle + Rate
      BY <3>1, Products
    <3> QED BY <3>1, <3>2 DEF Fill, AtMostFull
  <2>2. AtMostFull(Fill + Rate) = Ideal!AtMostFull(Fill + Rate)
    BY DEF AtMostFull, Ideal!AtMostFull
  <2>3. Ideal!Tick
    BY <1>1, <1>5, <2>1, <2>2 DEF Tick, Ideal!Tick
  <2> QED BY <2>3 DEF Ideal!Next
<1>6. CASE Watch
  <2>1. Fill' = Fill
    BY <1>6 DEF Watch, Fill
  <2>2. Ideal!Watch
    BY <1>1, <1>6, <2>1 DEF Watch, Ideal!Watch
  <2> QED BY <2>2 DEF Ideal!Next
<1>7. CASE UNCHANGED hashVars
  <2>1. Fill' = Fill
    BY <1>7 DEF hashVars, Fill
  <2> QED BY <1>1, <1>7, <2>1 DEF hashVars, Ideal!vars
<1> QED BY <1>2, <1>3, <1>4, <1>5, <1>6, <1>7 DEF BucketNext, Ideal!Next

\* With clocks that tell true time, the hash that is refilled only on demand and
\* expires when idle is the bucket that is refilled all the time
\* (token_bucket.lua, _ttl_for).
THEOREM BucketIsIdeal ==
    ASSUME \A r \in Replicas : Skew[r] = 0
    PROVE  BucketSpec => ImplementsIdealBucket
<1>1. BucketInit => Ideal!Init
  BY DEF BucketInit, Ideal!Init, Level
<1>2. BucketInv /\ [BucketNext]_hashVars => BucketInv'
  BY BucketStep
<1>3. BucketInv /\ BucketInv' /\ [BucketNext]_hashVars => [Ideal!Next]_Ideal!vars
  BY IdealStep
<1> QED BY <1>1, <1>2, <1>3, BucketStart, PTL DEF BucketSpec, ImplementsIdealBucket, Ideal!Spec
=============================================================================
