------------------------------ MODULE SharedBucket ------------------------------
(***************************************************************************)
(* One bucket of the Redis rate limiter: the hash {tokens, last_refill_ms} *)
(* that the script rate_limit/lua/token_bucket.lua refills and consumes    *)
(* atomically for every replica.  Nothing refills it between calls, and    *)
(* Redis deletes it when its TTL runs out.                                 *)
(*                                                                         *)
(* now_ms is the wall clock of the calling replica.  A tick is the time    *)
(* unit; amounts are in fractions of a token (see IdealBucket).            *)
(***************************************************************************)
EXTENDS Integers

CONSTANTS
    Replicas,        \* the server processes that share the Redis
    Skew,            \* how far each replica's clock is ahead of true time
    BucketCapacity,  \* capacity, in tokens
    Cost,            \* fractions that make a token
    Rate,            \* refill_per_sec, in fractions per tick
    TTL,             \* _ttl_for, in ticks
    MaxClock         \* bound on true time

Full == BucketCapacity * Cost

\* BucketConfig demands positive values; _ttl_for is at least twice the time
\* in which an empty bucket refills.
ASSUME BucketAssumption ==
    /\ Replicas # {} /\ Skew \in [Replicas -> Nat]
    /\ BucketCapacity \in Nat \ {0}
    /\ Cost \in Nat \ {0}
    /\ Rate \in Nat \ {0}
    /\ Full \in Nat
    /\ TTL  \in Nat \ {0}
    /\ TTL * Rate >= 2 * Full
    /\ MaxClock \in Nat

VARIABLES
    clock,    \* true time
    present,  \* does the key exist?
    tokens,   \* field tokens
    last,     \* field last_refill_ms
    idle,     \* time since the last write of the key
    since,    \* history: the start of an observed window of time
    counted   \* history: calls granted in that window

hashVars == <<clock, present, tokens, last, idle, since, counted>>

AtMostFull(n) == IF n < Full THEN n ELSE Full

BucketTypeOK ==
    /\ clock   \in 0..MaxClock
    /\ present \in BOOLEAN
    /\ tokens  \in 0..Full
    /\ last    \in Nat
    /\ idle    \in 0..TTL
    /\ since   \in 0..clock
    /\ counted \in Nat

BucketInit ==
    /\ clock = 0
    /\ present = FALSE
    /\ tokens = 0
    /\ last = 0
    /\ idle = 0
    /\ since = 0
    /\ counted = 0
-----------------------------------------------------------------------------
(* The script.                                                             *)

\* now_ms - last_refill_ms, clamped at 0.
Elapsed(now) == IF now < last THEN 0 ELSE now - last

\* The content after the refill; a missing key is a full bucket.
Refilled(now) ==
    IF present THEN AtMostFull(tokens + Rate * Elapsed(now)) ELSE Full

\* HSET and EXPIRE, on either path.
Store(amount, now) ==
    /\ present' = TRUE
    /\ tokens' = amount
    /\ last' = now
    /\ idle' = 0
    /\ UNCHANGED <<clock, since>>

Granted(r) ==
    LET now == clock + Skew[r] IN
    /\ Refilled(now) >= Cost
    /\ Store(Refilled(now) - Cost, now)
    /\ counted' = counted + 1

\* A denial that refreshes the timestamp and forgets the refill.
DeniedForgetsRefill(r) ==
    LET now == clock + Skew[r] IN
    /\ Refilled(now) < Cost
    /\ Store(IF present THEN tokens ELSE Full, now)
    /\ UNCHANGED counted

Denied(r) ==
    LET now == clock + Skew[r] IN
    /\ Refilled(now) < Cost
    /\ Store(Refilled(now), now)
    /\ UNCHANGED counted
-----------------------------------------------------------------------------
(* Redis and time.                                                         *)

\* A key that expires too soon: after half the TTL.
ExpireEarly ==
    /\ present /\ 4 * idle >= TTL
    /\ present' = FALSE
    /\ tokens' = 0 /\ last' = 0 /\ idle' = 0
    /\ UNCHANGED <<clock, since, counted>>

\* The TTL has run out since the last EXPIRE.
Expire ==
    /\ present /\ idle >= TTL
    /\ present' = FALSE
    /\ tokens' = 0 /\ last' = 0 /\ idle' = 0
    /\ UNCHANGED <<clock, since, counted>>

\* A key that has reached its TTL is gone before time moves on.
Tick ==
    /\ clock < MaxClock
    /\ present => idle < TTL
    /\ clock' = clock + 1
    /\ idle' = IF present THEN idle + 1 ELSE idle
    /\ UNCHANGED <<present, tokens, last, since, counted>>

\* The observer opens a new window.
Watch ==
    /\ since' = clock
    /\ counted' = 0
    /\ UNCHANGED <<clock, present, tokens, last, idle>>

BucketNext ==
    \/ \E r \in Replicas : Granted(r) \/ Denied(r)
    \/ Expire
    \/ Tick
    \/ Watch

BucketSpec == BucketInit /\ [][BucketNext]_hashVars
-----------------------------------------------------------------------------
(* Properties.                                                             *)

\* In no window of time does the fleet grant more than the capacity plus what
\* the window refills, whatever the replicas do and however often the key
\* expires: the budget that protects the Wazuh API.
WindowBound == counted * Cost <= Full + Rate * (clock - since)

\* The bucket that is refilled only when somebody calls, and forgotten when
\* nobody does, grants and denies exactly as one that is refilled all the time:
\* no refill is lost to a denial and none is invented by an expiry.
Level == IF present THEN AtMostFull(tokens + Rate * Elapsed(clock)) ELSE Full

Ideal == INSTANCE IdealBucket WITH level <- Level

ImplementsIdealBucket == Ideal!Spec
=============================================================================
