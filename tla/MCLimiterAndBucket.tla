--------------------------- MODULE MCLimiterAndBucket ---------------------------
(* The limiter of one replica, and one bucket in Redis as all replicas use   *)
(* it over time, side by side in one run.  They share no variable, so their  *)
(* interleavings would show nothing: `part` says which of them takes steps.  *)
EXTENDS MCRedisRateLimiter, MCSharedBucket

VARIABLE part

partVars == <<vars, hashVars, part>>

Limiter(A) == part = "limiter" /\ A /\ UNCHANGED <<hashVars, part>>

LimiterOrBucketInit == Init /\ BucketInit /\ part \in {"limiter", "bucket"}

LimiterOrBucketNext ==
    \/ Limiter(Next)
    \/ part = "bucket" /\ BucketNext /\ UNCHANGED <<vars, part>>

\* The fairness of RedisRateLimiter.
LimiterFairness ==
    /\ WF_partVars(Limiter(Pass))
    /\ \A t \in Tasks :
         /\ WF_partVars(Limiter(AcquireSession(t)))
         /\ WF_partVars(Limiter(Reply(t) \/ Trouble(t)))

LimiterOrBucket ==
    LimiterOrBucketInit /\ [][LimiterOrBucketNext]_partVars /\ LimiterFairness
=============================================================================
