-------------------------- MODULE CircuitBreakerProofs --------------------------
(***************************************************************************)
(* Proofs, for every number of tasks and every parameter of the breaker,   *)
(* of the safety properties that TLC checks on small instances.            *)
(***************************************************************************)
EXTENDS CircuitBreaker, FiniteSetTheorems, TLAPS

USE BreakerAssumption

\* TypeOK alone is not inductive: the count of failures stays at or below the
\* threshold only because a CLOSED breaker is strictly below it.
TypeInv == TypeOK /\ TrippedAtThreshold

\* Every probe on the wire is paid for in _half_open_in_flight.  The converse
\* fails: a cancelled probe never gives its unit back.
ProbesCounted ==
    state = "HALF_OPEN" => Cardinality(probes) <= inFlight

\* While OPEN, the cooling clock is the time since the latest failure.
CoolingSinceFailure == state = "OPEN" => openAge = quiet

\* While OPEN nobody is admitted, so what is in flight is older than that.
InFlightBeforeOpen ==
    state = "OPEN" => \A t \in Calling : callAge[t] >= openAge
-----------------------------------------------------------------------------
(* Types and the failure count.                                            *)

\* Every handler keeps the counters within the bounds the constructor
\* validated, and trips exactly at the threshold.
LEMMA TypeStep == TypeInv /\ [Next]_vars => TypeInv'
<1> SUFFICES ASSUME TypeInv, [Next]_vars PROVE TypeInv'
  OBVIOUS
<1> USE DEF TypeInv, TypeOK, TrippedAtThreshold, BreakerState, Outcome, Capped
<1>1. ASSUME NEW t \in Tasks, Call(t)
      PROVE  TypeInv'
  <2>1. CASE AdmitClosed(t)     BY <2>1 DEF AdmitClosed, Issue
  <2>2. CASE AdmitFirstProbe(t) BY <2>2 DEF AdmitFirstProbe, Issue, CanPromote
  <2>3. CASE AdmitNextProbe(t)  BY <2>3 DEF AdmitNextProbe, Issue
  <2>4. CASE Reject(t)          BY <2>4 DEF Reject, breakerVars, envVars
  <2> QED BY <1>1, <2>1, <2>2, <2>3, <2>4 DEF Call
<1>2. ASSUME NEW t \in Tasks, Succeed(t)
      PROVE  TypeInv'
  BY <1>2 DEF Succeed, Return, RecordSuccess, Close, breakerVars, envVars
<1>3. ASSUME NEW t \in Tasks, Fail(t)
      PROVE  TypeInv'
  BY <1>3 DEF Fail, Return, RecordFailure, Open, breakerVars, envVars
<1>4. ASSUME NEW t \in Tasks, Cancel(t)
      PROVE  TypeInv'
  BY <1>4 DEF Cancel, Return, breakerVars, envVars
<1>5. CASE Tick
  BY <1>5 DEF Tick, Calling, envVars
<1>6. CASE RedisFails
  BY <1>6 DEF RedisFails, Calling, breakerVars
<1>7. CASE RedisRecovers
  BY <1>7 DEF RedisRecovers, breakerVars
<1>8. CASE UNCHANGED vars
  BY <1>8 DEF vars
<1> QED BY <1>1, <1>2, <1>3, <1>4, <1>5, <1>6, <1>7, <1>8 DEF Next, Complete

LEMMA TypeInit == Init => TypeInv
BY DEF Init, TypeInv, TypeOK, TrippedAtThreshold, BreakerState, Outcome

LEMMA TypeInvariant == Spec => []TypeInv
BY TypeInit, TypeStep, PTL DEF Spec

\* The breaker's fields stay within their types and their configured bounds
\* (__init__ and every assignment of _RedisCircuitBreaker).
THEOREM TypeCorrect == Spec => []TypeOK
BY TypeInvariant, PTL DEF TypeInv

\* The breaker is away from CLOSED exactly while the count of consecutive
\* failures stands at error_threshold (_record_failure, _transition).
THEOREM TripsExactlyAtThreshold == Spec => []TrippedAtThreshold
BY TypeInvariant, PTL DEF TypeInv
-----------------------------------------------------------------------------
(* The probe budget.                                                       *)

LEMMA ProbesStep == TypeInv /\ ProbesCounted /\ [Next]_vars => ProbesCounted'
<1> SUFFICES ASSUME TypeInv, ProbesCounted, [Next]_vars,
                    state' = "HALF_OPEN"
             PROVE  Cardinality(probes') <= inFlight'
  BY DEF ProbesCounted
<1> USE DEF TypeInv, TypeOK, ProbesCounted
<1>a. IsFiniteSet(probes) /\ Cardinality(probes) \in Nat
  BY FS_Subset, FS_CardinalityType
<1>b. ASSUME NEW t \in Tasks
      PROVE  Cardinality(probes \ {t}) <= Cardinality(probes)
  <2>1. probes \ {t} \subseteq probes
    OBVIOUS
  <2> QED BY <1>a, <2>1, FS_Subset
<1>1. ASSUME NEW t \in Tasks, Call(t)
      PROVE  Cardinality(probes') <= inFlight'
  <2>1. CASE AdmitClosed(t)     BY <2>1 DEF AdmitClosed
  <2>2. CASE AdmitFirstProbe(t)
    BY <2>2, FS_Singleton DEF AdmitFirstProbe
  <2>3. CASE AdmitNextProbe(t)
    <3>1. Cardinality(probes \cup {t})
            = IF t \in probes THEN Cardinality(probes) ELSE Cardinality(probes) + 1
      BY <1>a, FS_AddElement
    <3> QED BY <1>a, <2>3, <3>1 DEF AdmitNextProbe
  <2>4. CASE Reject(t)          BY <2>4 DEF Reject, breakerVars
  <2> QED BY <1>1, <2>1, <2>2, <2>3, <2>4 DEF Call
<1>2. ASSUME NEW t \in Tasks,
             Return(t, "ok") \/ Return(t, "failed") \/ Return(t, "cancelled"),
             state = "HALF_OPEN", inFlight' = inFlight
      PROVE  Cardinality(probes') <= inFlight'
  <2>1. probes' = probes \ {t}
    BY <1>2 DEF Return
  <2>2. Cardinality(probes \ {t}) \in Nat
    BY <1>a, FS_Subset, FS_CardinalityType
  <2> QED BY <1>a, <1>b, <1>2, <2>1, <2>2
<1>3. ASSUME NEW t \in Tasks, Succeed(t)
      PROVE  Cardinality(probes') <= inFlight'
  BY <1>3 DEF Succeed, RecordSuccess, Close, breakerVars
<1>4. ASSUME NEW t \in Tasks, Fail(t)
      PROVE  Cardinality(probes') <= inFlight'
  BY <1>4 DEF Fail, RecordFailure, Open
<1>5. ASSUME NEW t \in Tasks, Cancel(t)
      PROVE  Cardinality(probes') <= inFlight'
  BY <1>2, <1>5 DEF Cancel, breakerVars
<1>6. CASE Tick           BY <1>6 DEF Tick
<1>7. CASE RedisFails     BY <1>7 DEF RedisFails, breakerVars
<1>8. CASE RedisRecovers  BY <1>8 DEF RedisRecovers, breakerVars
<1>9. CASE UNCHANGED vars BY <1>9 DEF vars
<1> QED BY <1>1, <1>3, <1>4, <1>5, <1>6, <1>7, <1>8, <1>9 DEF Next, Complete

\* However callers interleave with the probes of a window, no more than
\* half_open_max_calls of them are on the wire together (call, 125-134).
THEOREM ProbesWithinBudget == Spec => []ProbeBudget
<1>1. Init => ProbesCounted
  BY DEF Init, ProbesCounted
<1>2. TypeInv /\ ProbesCounted => ProbeBudget
  <2> SUFFICES ASSUME TypeInv, ProbesCounted, state = "HALF_OPEN"
               PROVE  Cardinality(probes) <= HalfOpenMaxCalls
    BY DEF ProbeBudget
  <2>1. Cardinality(probes) \in Nat
    BY FS_Subset, FS_CardinalityType DEF TypeInv, TypeOK
  <2> QED BY <2>1 DEF TypeInv, TypeOK, ProbesCounted
<1> QED BY <1>1, <1>2, ProbesStep, TypeInvariant, PTL DEF Spec
-----------------------------------------------------------------------------
(* The cooling period.                                                     *)

LEMMA CoolingStep ==
    TypeInv /\ CoolingSinceFailure /\ [Next]_vars => CoolingSinceFailure'
<1> SUFFICES ASSUME TypeInv, CoolingSinceFailure, [Next]_vars,
                    state' = "OPEN"
             PROVE  openAge' = quiet'
  BY DEF CoolingSinceFailure
<1> USE DEF CoolingSinceFailure
<1>1. ASSUME NEW t \in Tasks, Call(t)
      PROVE  openAge' = quiet'
  BY <1>1 DEF Call, AdmitClosed, AdmitFirstProbe, AdmitNextProbe, Reject,
              Issue, breakerVars
<1>2. ASSUME NEW t \in Tasks, Succeed(t)
      PROVE  openAge' = quiet'
  BY <1>2 DEF Succeed, RecordSuccess, Close, breakerVars
<1>3. ASSUME NEW t \in Tasks, Fail(t)
      PROVE  openAge' = quiet'
  BY <1>3 DEF Fail, RecordFailure, Open, TypeInv, TypeOK, BreakerState
<1>4. ASSUME NEW t \in Tasks, Cancel(t)
      PROVE  openAge' = quiet'
  BY <1>4 DEF Cancel, breakerVars
<1>5. CASE Tick           BY <1>5 DEF Tick
<1>6. CASE RedisFails     BY <1>6 DEF RedisFails, breakerVars
<1>7. CASE RedisRecovers  BY <1>7 DEF RedisRecovers, breakerVars
<1>8. CASE UNCHANGED vars BY <1>8 DEF vars
<1> QED BY <1>1, <1>2, <1>3, <1>4, <1>5, <1>6, <1>7, <1>8 DEF Next, Complete

\* OPEN is left only for HALF_OPEN, and only open_duration after the latest
\* failure anybody recorded (_maybe_promote_to_half_open, _record_failure).
THEOREM CoolsFromLatestFailure == Spec => CoolingRestarts
<1>1. Init => CoolingSinceFailure
  BY DEF Init, CoolingSinceFailure
<1>2. TypeInv /\ CoolingSinceFailure /\ [Next]_vars
        => [state = "OPEN" /\ state' # "OPEN"
              => state' = "HALF_OPEN" /\ quiet = OpenDuration]_vars
  <2> SUFFICES ASSUME CoolingSinceFailure, Next,
                      state = "OPEN", state' # "OPEN"
               PROVE  state' = "HALF_OPEN" /\ quiet = OpenDuration
    OBVIOUS
  <2>1. ASSUME NEW t \in Tasks, Call(t)
        PROVE  state' = "HALF_OPEN" /\ quiet = OpenDuration
    BY <2>1 DEF Call, AdmitClosed, AdmitFirstProbe, AdmitNextProbe, Reject,
                CanPromote, CoolingSinceFailure, breakerVars
  <2>2. ASSUME NEW t \in Tasks, Complete(t) \/ Cancel(t)
        PROVE  FALSE
    BY <2>2 DEF Complete, Succeed, Fail, Cancel, RecordSuccess, RecordFailure,
                breakerVars
  <2>3. ~Tick /\ ~RedisFails /\ ~RedisRecovers
    BY DEF Tick, RedisFails, RedisRecovers, breakerVars
  <2> QED BY <2>1, <2>2, <2>3 DEF Next
<1> QED BY <1>1, <1>2, CoolingStep, TypeInvariant, PTL DEF Spec, CoolingRestarts
-----------------------------------------------------------------------------
(* Who decides a HALF_OPEN window.                                         *)

IInvProbe == InFlightBeforeOpen /\ DecidedByProbe

LEMMA DecidedStep ==
    ASSUME CallTimeout < OpenDuration
    PROVE  TypeInv /\ IInvProbe /\ [Next]_vars => IInvProbe'
<1> SUFFICES ASSUME TypeInv, IInvProbe, [Next]_vars PROVE IInvProbe'
  OBVIOUS
<1> USE DEF TypeInv, TypeOK, BreakerState, IInvProbe, InFlightBeforeOpen,
            DecidedByProbe, Calling
<1>1. ASSUME NEW t \in Tasks, Call(t)
      PROVE  IInvProbe'
  <2>1. CASE AdmitClosed(t)    BY <2>1 DEF AdmitClosed
  <2>2. CASE AdmitFirstProbe(t)
    <3>1. Calling = {}
      BY <2>2 DEF AdmitFirstProbe, CanPromote
    <3> QED BY <2>2, <3>1 DEF AdmitFirstProbe, Issue
  <2>3. CASE AdmitNextProbe(t) BY <2>3 DEF AdmitNextProbe, Issue
  <2>4. CASE Reject(t)         BY <2>4 DEF Reject, breakerVars
  <2> QED BY <1>1, <2>1, <2>2, <2>3, <2>4 DEF Call
<1>2. ASSUME NEW t \in Tasks, Succeed(t)
      PROVE  IInvProbe'
  BY <1>2 DEF Succeed, Return, RecordSuccess, Close, breakerVars
<1>3. ASSUME NEW t \in Tasks, Fail(t)
      PROVE  IInvProbe'
  BY <1>3 DEF Fail, Return, RecordFailure, Open, breakerVars
<1>4. ASSUME NEW t \in Tasks, Cancel(t)
      PROVE  IInvProbe'
  BY <1>4 DEF Cancel, Return, breakerVars
<1>5. CASE Tick           BY <1>5 DEF Tick, Capped
<1>6. CASE RedisFails     BY <1>6 DEF RedisFails, breakerVars
<1>7. CASE RedisRecovers  BY <1>7 DEF RedisRecovers, breakerVars
<1>8. CASE UNCHANGED vars BY <1>8 DEF vars
<1> QED BY <1>1, <1>2, <1>3, <1>4, <1>5, <1>6, <1>7, <1>8 DEF Next, Complete

\* With a call timeout below open_duration (50 ms against 5 s by default), a
\* HALF_OPEN window is closed or reopened by its own probes only: no call from
\* before the outage is still in flight (call, _record_success).
THEOREM ProbesDecide ==
    ASSUME CallTimeout < OpenDuration
    PROVE  Spec => []DecidedByProbe
<1>1. Init => IInvProbe
  BY DEF Init, IInvProbe, InFlightBeforeOpen, DecidedByProbe
<1>2. IInvProbe => DecidedByProbe
  BY DEF IInvProbe
<1> QED BY <1>1, <1>2, DecidedStep, TypeInvariant, PTL DEF Spec
=============================================================================
