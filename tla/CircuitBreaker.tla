---------------------------- MODULE CircuitBreaker ----------------------------
(***************************************************************************)
(* _RedisCircuitBreaker of rate_limit/redis_limiter.py: the per-process    *)
(* state machine around every Redis call of the rate limiter.              *)
(*                                                                         *)
(* call() has three atomic parts, because the breaker lock is never held   *)
(* across a suspension: admission (under the lock), the awaited Redis call *)
(* (outside the lock, bounded by asyncio.wait_for), and the recording of   *)
(* its outcome (under the lock).  Other callers interleave between them.   *)
(*                                                                         *)
(* Time is discrete.  now() - _opened_at is kept as an age that saturates  *)
(* at OpenDuration, the only value the code compares it with, so the clock *)
(* needs no bound.                                                         *)
(***************************************************************************)
EXTENDS Integers, FiniteSets

CONSTANTS
    Tasks,              \* concurrent asyncio tasks that use the breaker
    Cancellable,        \* the tasks whose client may abort the request
    ErrorThreshold,     \* error_threshold
    OpenDuration,       \* open_duration_sec, in ticks
    HalfOpenMaxCalls,   \* half_open_max_calls
    CallTimeout         \* call_timeout_ms, in ticks

\* The checks of __init__ (all four parameters positive).
ASSUME BreakerAssumption ==
    /\ IsFiniteSet(Tasks)
    /\ Cancellable \subseteq Tasks
    /\ ErrorThreshold   \in Nat \ {0}
    /\ OpenDuration     \in Nat \ {0}
    /\ HalfOpenMaxCalls \in Nat \ {0}
    /\ CallTimeout      \in Nat \ {0}

VARIABLES
    state,      \* _state
    failures,   \* _consecutive_failures
    openAge,    \* now() - _opened_at, saturated at OpenDuration
    inFlight,   \* _half_open_in_flight
    task,       \* per task: "calling", or how its latest call() ended
    callAge,    \* per task: time since its Redis call was issued
    probes,     \* history: the calls admitted in the current HALF_OPEN window
    quiet,      \* history: time since the latest recorded failure, saturated
    redisUp,    \* external: does Redis answer?
    troubled    \* external: the calls that were in flight during an outage

breakerVars == <<state, failures, openAge, inFlight>>
envVars     == <<redisUp, troubled>>
vars == <<state, failures, openAge, inFlight, task, callAge, probes, quiet,
          redisUp, troubled>>

BreakerState == {"CLOSED", "HALF_OPEN", "OPEN"}
Outcome      == {"none", "ok", "failed", "rejected", "cancelled"}

Calling == {t \in Tasks : task[t] = "calling"}
Capped(n) == IF n < OpenDuration THEN n ELSE OpenDuration

TypeOK ==
    /\ state    \in BreakerState
    /\ failures \in 0..ErrorThreshold
    /\ openAge  \in 0..OpenDuration
    /\ inFlight \in 0..HalfOpenMaxCalls
    /\ task     \in [Tasks -> Outcome \cup {"calling"}]
    /\ callAge  \in [Tasks -> 0..CallTimeout]
    /\ probes   \in SUBSET Tasks
    /\ quiet    \in 0..OpenDuration
    /\ redisUp  \in BOOLEAN
    /\ troubled \in SUBSET Tasks

Init ==
    /\ state = "CLOSED"
    /\ failures = 0
    /\ openAge = 0
    /\ inFlight = 0
    /\ task = [t \in Tasks |-> "none"]
    /\ callAge = [t \in Tasks |-> 0]
    /\ probes = {}
    /\ quiet = OpenDuration
    /\ redisUp = TRUE
    /\ troubled = {}
-----------------------------------------------------------------------------
(* Admission: the first half of call(), under the lock.                    *)

\* A promotion that does not wait.
CanPromoteEarly == state = "OPEN"

\* _maybe_promote_to_half_open: the cooling period is over.
CanPromote == state = "OPEN" /\ openAge = OpenDuration

\* The call reaches Redis; it is outside the lock from here on.
Issue(t) ==
    /\ task' = [task EXCEPT ![t] = "calling"]
    /\ callAge' = [callAge EXCEPT ![t] = 0]
    /\ troubled' = IF redisUp THEN troubled \ {t} ELSE troubled \cup {t}
    /\ UNCHANGED <<failures, openAge, quiet, redisUp>>

AdmitClosed(t) ==
    /\ task[t] # "calling"
    /\ state = "CLOSED"
    /\ Issue(t)
    /\ UNCHANGED <<state, inFlight, probes>>

\* The first call after the cooling period promotes the breaker and is its
\* first probe; the reset of _half_open_in_flight and the += 1 are one step.
AdmitFirstProbe(t) ==
    /\ task[t] # "calling"
    /\ CanPromote
    /\ state' = "HALF_OPEN"
    /\ inFlight' = 1
    /\ probes' = {t}
    /\ Issue(t)

AdmitNextProbeUncounted(t) ==
    /\ task[t] # "calling"
    /\ state = "HALF_OPEN"
    /\ inFlight < HalfOpenMaxCalls
    /\ probes' = probes \cup {t}
    /\ Issue(t)
    /\ UNCHANGED <<state, inFlight>>

AdmitNextProbe(t) ==
    /\ task[t] # "calling"
    /\ state = "HALF_OPEN"
    /\ inFlight < HalfOpenMaxCalls
    /\ inFlight' = inFlight + 1
    /\ probes' = probes \cup {t}
    /\ Issue(t)
    /\ UNCHANGED state

\* CircuitBreakerOpenError: Redis is not touched.
Reject(t) ==
    /\ task[t] # "calling"
    /\ \/ state = "OPEN" /\ ~CanPromote
       \/ state = "HALF_OPEN" /\ inFlight >= HalfOpenMaxCalls
    /\ task' = [task EXCEPT ![t] = "rejected"]
    /\ UNCHANGED <<breakerVars, callAge, probes, quiet, envVars>>

Call(t) == AdmitClosed(t) \/ AdmitFirstProbe(t) \/ AdmitNextProbe(t) \/ Reject(t)
-----------------------------------------------------------------------------
(* The end of a call and the recording of its outcome.                     *)

Return(t, outcome) ==
    /\ task' = [task EXCEPT ![t] = outcome]
    /\ callAge' = [callAge EXCEPT ![t] = 0]
    /\ probes' = probes \ {t}

\* _transition(OPEN): the cooling period starts, the probe count restarts.
Open == state' = "OPEN" /\ openAge' = 0 /\ inFlight' = 0

\* _transition(CLOSED): everything is reset.
Close == state' = "CLOSED" /\ failures' = 0 /\ openAge' = 0 /\ inFlight' = 0

\* _record_success: closes a HALF_OPEN breaker, clears the count of a CLOSED
\* one and says nothing about an OPEN one.
RecordSuccess ==
    \/ state = "HALF_OPEN" /\ Close
    \/ state = "CLOSED" /\ failures' = 0 /\ UNCHANGED <<state, openAge, inFlight>>
    \/ state = "OPEN" /\ UNCHANGED breakerVars

RecordFailureNoRestart ==
    \/ state = "HALF_OPEN" /\ Open /\ UNCHANGED failures
    \/ /\ state = "CLOSED"
       /\ failures' = failures + 1
       /\ \/ failures' >= ErrorThreshold /\ Open
          \/ failures' < ErrorThreshold /\ UNCHANGED <<state, openAge, inFlight>>
    \/ state = "OPEN" /\ UNCHANGED breakerVars

RecordFailureForgets ==
    \/ state = "HALF_OPEN" /\ Open /\ failures' = 0
    \/ /\ state = "CLOSED"
       /\ failures' = failures + 1
       /\ \/ failures' >= ErrorThreshold /\ Open
          \/ failures' < ErrorThreshold /\ UNCHANGED <<state, openAge, inFlight>>
    \/ state = "OPEN" /\ openAge' = 0 /\ UNCHANGED <<state, failures, inFlight>>

RecordFailureIgnoresProbe ==
    \/ state = "HALF_OPEN" /\ UNCHANGED breakerVars
    \/ /\ state = "CLOSED"
       /\ failures' = failures + 1
       /\ \/ failures' >= ErrorThreshold /\ Open
          \/ failures' < ErrorThreshold /\ UNCHANGED <<state, openAge, inFlight>>
    \/ state = "OPEN" /\ openAge' = 0 /\ UNCHANGED <<state, failures, inFlight>>

\* _record_failure: a failed probe reopens, a CLOSED breaker counts towards
\* the threshold, and a failure that lands in OPEN restarts the cooling period.
RecordFailure ==
    \/ state = "HALF_OPEN" /\ Open /\ UNCHANGED failures
    \/ /\ state = "CLOSED"
       /\ failures' = failures + 1
       /\ \/ failures' >= ErrorThreshold /\ Open
          \/ failures' < ErrorThreshold /\ UNCHANGED <<state, openAge, inFlight>>
    \/ state = "OPEN" /\ openAge' = 0 /\ UNCHANGED <<state, failures, inFlight>>

\* wait_for(fn()) returned: Redis answered.
Succeed(t) ==
    /\ task[t] = "calling"
    /\ redisUp
    /\ Return(t, "ok")
    /\ RecordSuccess
    /\ UNCHANGED <<quiet, envVars>>

\* wait_for(fn()) raised an Exception: a connection error or the timeout.
Fail(t) ==
    /\ task[t] = "calling"
    /\ ~redisUp \/ t \in troubled
    /\ Return(t, "failed")
    /\ RecordFailure
    /\ quiet' = 0
    /\ UNCHANGED envVars

\* CancelledError is not an Exception: neither _record_failure nor
\* _record_success runs, and _half_open_in_flight is not given back.
Cancel(t) ==
    /\ task[t] = "calling"
    /\ t \in Cancellable
    /\ Return(t, "cancelled")
    /\ UNCHANGED <<breakerVars, quiet, envVars>>

Complete(t) == Succeed(t) \/ Fail(t)
-----------------------------------------------------------------------------
(* The environment.                                                        *)

\* Time passes; wait_for does not let a call outlive its timeout.
Tick ==
    /\ \A t \in Calling : callAge[t] < CallTimeout
    /\ callAge' = [t \in Tasks |-> IF t \in Calling THEN callAge[t] + 1 ELSE 0]
    /\ openAge' = IF state = "OPEN" THEN Capped(openAge + 1) ELSE openAge
    /\ quiet' = Capped(quiet + 1)
    /\ UNCHANGED <<state, failures, inFlight, task, probes, envVars>>

RedisFails ==
    /\ redisUp
    /\ redisUp' = FALSE
    /\ troubled' = Calling
    /\ UNCHANGED <<breakerVars, task, callAge, probes, quiet>>

RedisRecovers ==
    /\ ~redisUp
    /\ redisUp' = TRUE
    /\ UNCHANGED <<breakerVars, task, callAge, probes, quiet, troubled>>

Next ==
    \/ \E t \in Tasks : Call(t) \/ Complete(t) \/ Cancel(t)
    \/ Tick
    \/ RedisFails
    \/ RedisRecovers

Spec == Init /\ [][Next]_vars

\* Time passes, every admitted call ends (wait_for bounds it), and requests
\* keep arriving: the breaker has no timer and only a caller can promote it.
Fairness ==
    /\ WF_vars(Tick)
    /\ \A t \in Tasks : WF_vars(Complete(t)) /\ WF_vars(Call(t))

FairSpec == Spec /\ Fairness
-----------------------------------------------------------------------------
(* Properties.                                                             *)

\* The breaker is tripped exactly when the count of consecutive failures has
\* reached the threshold: no path leaves CLOSED early, none lingers in it, and
\* the count survives every reopening until a close resets it
\* (_record_failure, _record_success, _transition).
TrippedAtThreshold == state # "CLOSED" <=> failures = ErrorThreshold

\* At most half_open_max_calls calls of one HALF_OPEN window are ever on the
\* wire together, whatever callers interleave with them (call, lines 125-134).
ProbeBudget ==
    state = "HALF_OPEN" => Cardinality(probes) <= HalfOpenMaxCalls

\* The breaker leaves OPEN only when a full open_duration has passed since the
\* latest failure anybody recorded, not merely since it opened: a late failure
\* landing in OPEN restarts the cooling period (_record_failure, 162-166).
CoolingRestarts ==
    [][state = "OPEN" /\ state' # "OPEN"
         => state' = "HALF_OPEN" /\ quiet = OpenDuration]_vars

\* A HALF_OPEN breaker is decided by its own probes alone: when the call
\* timeout is shorter than open_duration, no call admitted before the outage
\* can still be in flight to close or reopen it ("closes on probe success").
DecidedByProbe ==
    state = "HALF_OPEN" => Calling \subseteq probes

\* "The breaker re-closes after Redis recovers" (docs/deploy/redis.md:9).
Recloses == <>[]redisUp => <>[](state = "CLOSED")

\* The same as long as no call that was let through is cancelled: a probe
\* budget that is exhausted always has a probe left to decide the window, and
\* no interleaving of late failures keeps the breaker open for ever.
ReclosesIfNobodyCancels ==
    (<>[]redisUp /\ [](\A t \in Tasks : task[t] # "cancelled"))
      => <>[](state = "CLOSED")
=============================================================================
