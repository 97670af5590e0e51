-------------------------- MODULE SecretCacheProofs --------------------------
(***************************************************************************)
(* What SecretCache promises, for any number of callers, any lifetime, any *)
(* driver timeout and any number of rotations.                             *)
(***************************************************************************)
EXTENDS SecretCache, TLAPS

Types ==
    /\ TypeOK
    /\ \A g \in Getters : task[g] = "waiting" => awaits[g] \in Getters
    /\ \A g \in Resuming : read[g] # 0
    /\ version \in Versions
    /\ since \in [Versions -> 0..Horizon]
    /\ invalidated \in 0..MaxVersion
    /\ trouble \subseteq Getters
    /\ served \in [value : 0..MaxVersion, lag : 0..Horizon, floor : 0..MaxVersion]

\* The registered flight is the one fetch, and whoever waits awaits it; a
\* future is dead only while its fetch goes on, for a reason on record.
FlightInv ==
    /\ \A g \in Getters : task[g] = "fetching" => inflight = g
    /\ inflight # Nobody => inflight \in Fetching
    /\ dead \subseteq Fetching \cap trouble
    /\ \A g \in Getters : task[g] = "waiting" =>
          inflight \in Getters /\ awaits[g] = inflight /\ inflight \notin dead
    /\ FailsForAReason

\* A version in hand is no older than the invalidation and not superseded for
\* longer than it has been in hand.
ValueInv ==
    /\ \A v \in Versions : v >= version => since[v] = 0
    /\ invalidated <= version
    /\ cache.value # 0 =>
          /\ cache.value >= invalidated
          /\ since[cache.value] <= cache.age + MaxFetch
    /\ \A o \in Fetching : read[o] # 0 =>
          read[o] >= invalidated /\ since[read[o]] <= fetchAge[o]
    /\ \A g \in Resuming : read[g] >= invalidated /\ since[read[g]] <= MaxFetch
    /\ StaleBound
    /\ InvalidationHolds

USE SecretCacheAssumption

\* The initial state and every step of get(), invalidate() and the clock keep
\* the type of the cache's state.
THEOREM TypesHold == Spec => []Types
<1>1. Init => Types
  BY DEF Init, Types, TypeOK, NoEntry, Versions, Horizon, Resuming
<1>2. Types /\ [Next]_vars => Types'
  <2> SUFFICES ASSUME Types, [Next]_vars PROVE Types'
    OBVIOUS
  <2> USE DEF Types, TypeOK, Versions, Horizon, Bad, Resuming
  <2>a. \A g \in Getters : Begins(g) => trouble' \subseteq Getters
    BY DEF Begins
  <2>b. cache.value \in 0..MaxVersion /\ cache.age \in 0..TTL
    OBVIOUS
  <2>1. ASSUME NEW g \in Getters, Hit(g) PROVE Types'
    <3>1. cache.value \in Versions
      BY <2>1, <2>b DEF Hit, Live
    <3>2. served' \in [value : 0..MaxVersion, lag : 0..Horizon, floor : 0..MaxVersion]
      BY <2>1, <3>1 DEF Hit, Serve
    <3>3. /\ task' \in [Getters -> {"idle", "fetching", "waiting", "resuming", "value"} \cup Bad]
          /\ \A w \in Getters : task'[w] \in {"waiting", "resuming"} => task[w] = task'[w]
      BY <2>1 DEF Hit
    <3>4. UNCHANGED <<cache, inflight, awaits, dead, read, fetchAge, version, since,
                      invalidated>>
      BY <2>1 DEF Hit
    <3>5. trouble' \subseteq Getters
      BY <2>1, <2>a DEF Hit
    <3> QED BY <3>2, <3>3, <3>4, <3>5
  <2>2. ASSUME NEW g \in Getters, Lead(g) PROVE Types'
    <3>1. trouble' \subseteq Getters
      BY <2>2, <2>a DEF Lead
    <3> QED BY <2>2, <3>1 DEF Lead
  <2>3. ASSUME NEW g \in Getters, Join(g) PROVE Types'
    <3>1. trouble' \subseteq Getters
      BY <2>3, <2>a DEF Join
    <3>2. CASE inflight \in dead
      BY <2>3, <3>1, <3>2 DEF Join
    <3>3. CASE inflight \notin dead
      BY <2>3, <3>1, <3>3 DEF Join
    <3> QED BY <3>2, <3>3
  <2>4. ASSUME NEW g \in Getters, DriverReads(g) PROVE Types'
    <3>1. read' \in [Getters -> 0..MaxVersion]
      BY <2>4 DEF DriverReads
    <3> QED BY <2>4, <3>1 DEF DriverReads
  <2>5. ASSUME NEW o \in Getters, NEW outcome \in {"failed", "cancelled"},
               Settle(o, outcome), trouble' \subseteq Getters,
               UNCHANGED <<cache, served>>
        PROVE  Types'
    <3>1. /\ task' \in [Getters -> {"idle", "fetching", "waiting", "resuming", "value"} \cup Bad]
          /\ awaits' \in [Getters -> Getters \cup {Nobody}]
          /\ read' \in [Getters -> 0..MaxVersion]
          /\ fetchAge' \in [Getters -> 0..MaxFetch]
      BY <2>5 DEF Settle, Resolve
    <3>2. \A w \in Getters : task'[w] = "waiting" => awaits'[w] \in Getters
      BY <2>5 DEF Settle, Resolve, WaitersOf
    <3>3. /\ inflight' = Nobody /\ dead' = dead \ {o}
          /\ UNCHANGED <<version, since, invalidated>>
      BY <2>5 DEF Settle, Resolve
    <3>4. \A w \in Getters : task'[w] = "resuming" => read'[w] # 0
      <4>1. \A w \in Getters : task'[w] = "resuming" =>
               task[w] = "resuming" /\ read'[w] \in {read[w], 0} /\ w # o
        BY <2>5 DEF Settle, Resolve
      <4>2. \A w \in Getters : w # o => read'[w] = read[w]
        BY <2>5 DEF Settle, Resolve
      <4> QED BY <4>1, <4>2
    <3> QED BY <2>5, <3>1, <3>2, <3>3, <3>4
  <2>6. ASSUME NEW g \in Getters, Answer(g) PROVE Types'
    <3>1. cache' \in [value : 0..MaxVersion, age : 0..TTL]
      BY <2>6 DEF Answer
    <3>2. served' \in [value : 0..MaxVersion, lag : 0..Horizon, floor : 0..MaxVersion]
      BY <2>6 DEF Answer, Serve
    <3>3. trouble' = trouble /\ Resolve(g, "value")
      BY <2>6 DEF Answer, Settle
    <3>4. inflight' = Nobody /\ dead' = dead \ {g}
      BY <2>6 DEF Answer, Settle
    <3>5. /\ task' \in [Getters -> {"idle", "fetching", "waiting", "resuming", "value"} \cup Bad]
          /\ awaits' \in [Getters -> Getters \cup {Nobody}]
          /\ read' \in [Getters -> 0..MaxVersion]
          /\ fetchAge' \in [Getters -> 0..MaxFetch]
      BY <3>3 DEF Resolve
    <3>6. \A w \in Getters : task'[w] = "waiting" => awaits'[w] \in Getters
      BY <3>3 DEF Resolve, WaitersOf
    <3>7. UNCHANGED <<version, since, invalidated>>
      BY <3>3 DEF Resolve
    <3>8. \A w \in Getters : task'[w] = "resuming" => read'[w] # 0
      <4>1. g \in Getters /\ task[g] = "fetching" /\ read[g] # 0
        BY <2>6 DEF Answer, Fetching
      <4> QED BY <3>3, <4>1 DEF Resolve, WaitersOf
    <3> QED BY <3>1, <3>2, <3>3, <3>4, <3>5, <3>6, <3>7, <3>8
  <2>7. ASSUME NEW g \in Getters, DriverFails(g) PROVE Types'
    BY <2>5, <2>7 DEF DriverFails, Aboard
  <2>8. ASSUME NEW g \in Getters, CancelOwner(g) PROVE Types'
    BY <2>5, <2>8 DEF CancelOwner, Aboard
  <2>9. ASSUME NEW g \in Getters, CancelWaiter(g) PROVE Types'
    <3>1. awaits[g] \in Getters
      BY <2>9 DEF CancelWaiter
    <3> QED BY <2>9, <3>1 DEF CancelWaiter, Aboard
  <2>10. CASE Invalidate
    BY <2>10 DEF Invalidate, NoEntry
  <2>11. CASE Rotate
    BY <2>11 DEF Rotate, cacheVars
  <2>12. CASE Tick
    <3>2. fetchAge' \in [Getters -> 0..MaxFetch]
      BY <2>12 DEF Tick, Fetching
    <3>3. cache' \in [value : 0..MaxVersion, age : 0..TTL]
      <4>1. Older(cache.age, TTL) \in 0..TTL
        BY <2>b DEF Older
      <4> QED BY <2>12, <4>1 DEF Tick
    <3>4. since' \in [Versions -> 0..Horizon]
      <4>1. \A v \in Versions : Older(since[v], Horizon) \in 0..Horizon
        BY DEF Older
      <4> QED BY <2>12, <4>1 DEF Tick
    <3> QED BY <2>12, <3>2, <3>3, <3>4 DEF Tick
  <2>13. CASE UNCHANGED vars
    BY <2>13 DEF vars, cacheVars
  <2>14. ASSUME NEW g \in Getters, Resume(g) PROVE Types'
    <3>1. served' \in [value : 0..MaxVersion, lag : 0..Horizon, floor : 0..MaxVersion]
      <4>1. read[g] \in Versions
        BY <2>14 DEF Resume
      <4>2. served' = [value |-> read[g], lag |-> since[read[g]], floor |-> invalidated]
        BY <2>14 DEF Resume, Serve
      <4> QED BY <4>1, <4>2
    <3>2. /\ task' \in [Getters -> {"idle", "fetching", "waiting", "resuming", "value"} \cup Bad]
          /\ read' \in [Getters -> 0..MaxVersion]
          /\ \A w \in Getters : task'[w] \in {"waiting", "resuming"} =>
                task[w] = task'[w] /\ read'[w] = read[w]
          /\ UNCHANGED <<cache, inflight, awaits, dead, fetchAge, version, since,
                         invalidated, trouble>>
      BY <2>14 DEF Resume
    <3> QED BY <3>1, <3>2
  <2>15. ASSUME NEW g \in Getters, CancelResuming(g) PROVE Types'
    <3>1. task' \in [Getters -> {"idle", "fetching", "waiting", "resuming", "value"} \cup Bad]
      BY <2>15 DEF CancelResuming
    <3>2. read' \in [Getters -> 0..MaxVersion]
      BY <2>15 DEF CancelResuming
    <3>3. \A w \in Getters : task'[w] \in {"waiting", "resuming"} =>
             task[w] = task'[w] /\ read'[w] = read[w]
      BY <2>15 DEF CancelResuming
    <3>4. /\ trouble' \subseteq Getters
          /\ UNCHANGED <<cache, inflight, awaits, dead, fetchAge, version, since,
                         invalidated, served>>
      BY <2>15 DEF CancelResuming
    <3> QED BY <3>1, <3>2, <3>3, <3>4
  <2> QED BY <2>1, <2>2, <2>3, <2>4, <2>6, <2>7, <2>8, <2>9, <2>10, <2>11,
             <2>12, <2>13, <2>14, <2>15 DEF Next
<1> QED BY <1>1, <1>2, PTL DEF Spec
-----------------------------------------------------------------------------
(* Flights.                                                                 *)

\* Whoever opens, joins, settles or cancels a flight, the registered one is
\* the one that is fetching, and every failure has its reason on record.
THEOREM FlightsHold == Spec => []FlightInv
<1>1. Init => FlightInv
  BY DEF Init, FlightInv, FailsForAReason, Fetching, Bad
<1>2. Types /\ FlightInv /\ [Next]_vars => FlightInv'
  <2> SUFFICES ASSUME Types, FlightInv, [Next]_vars PROVE FlightInv'
    OBVIOUS
  <2> USE DEF Types, TypeOK, FlightInv, FailsForAReason, Bad, Fetching
  <2>1. ASSUME NEW g \in Getters, Hit(g) PROVE FlightInv'
    BY <2>1 DEF Hit, Begins, Inside, Aboard, Resuming
  <2>2. ASSUME NEW g \in Getters, Lead(g) PROVE FlightInv'
    BY <2>2 DEF Lead, Begins, Inside, Aboard, Resuming
  <2>3. ASSUME NEW g \in Getters, Join(g) PROVE FlightInv'
    <3>1. CASE inflight \in dead
      BY <2>3, <3>1 DEF Join, Begins, Inside, Aboard, Resuming
    <3>2. CASE inflight \notin dead
      BY <2>3, <3>2 DEF Join, Begins, Inside, Aboard, Resuming
    <3> QED BY <3>1, <3>2
  <2>4. ASSUME NEW g \in Getters, DriverReads(g) PROVE FlightInv'
    BY <2>4 DEF DriverReads
  <2>5. ASSUME NEW o \in Fetching, NEW outcome \in {"value"} \cup Bad,
               Settle(o, outcome), trouble \subseteq trouble',
               outcome # "value" => Aboard \subseteq trouble'
        PROVE  FlightInv'
    <3>1. \A g \in Getters : task[g] = "fetching" => g = o
      BY <2>5
    <3>2. \A g \in Getters : task[g] = "waiting" => g \in WaitersOf(o)
      BY <2>5 DEF WaitersOf
    <3>3. \A g \in Getters : task'[g] \notin {"fetching", "waiting"}
      BY <2>5, <3>1, <3>2 DEF Settle, Resolve
    <3>4. inflight' = Nobody /\ dead' = {}
      BY <2>5, <3>1 DEF Settle
    <3>5. FailsForAReason'
      BY <2>5 DEF Settle, Resolve, Aboard, WaitersOf
    <3> QED BY <3>3, <3>4, <3>5
  <2>6. ASSUME NEW g \in Getters, Answer(g) PROVE FlightInv'
    BY <2>5, <2>6 DEF Answer
  <2>7. ASSUME NEW g \in Getters, DriverFails(g) PROVE FlightInv'
    BY <2>5, <2>7 DEF DriverFails
  <2>8. ASSUME NEW g \in Getters, CancelOwner(g) PROVE FlightInv'
    BY <2>5, <2>8 DEF CancelOwner
  <2>9. ASSUME NEW g \in Getters, CancelWaiter(g) PROVE FlightInv'
    <3>1. awaits[g] = inflight /\ inflight \in Fetching
      BY <2>9 DEF CancelWaiter
    <3>2. \A w \in Getters : task'[w] # "waiting"
      BY <2>9, <3>1 DEF CancelWaiter, WaitersOf
    <3>3. \A w \in Getters : task'[w] = "fetching" <=> task[w] = "fetching"
      BY <2>9 DEF CancelWaiter, WaitersOf
    <3>4. dead' = dead \cup {inflight} /\ trouble' = trouble \cup Aboard
          /\ inflight' = inflight
      BY <2>9, <3>1 DEF CancelWaiter
    <3>5. FailsForAReason'
      BY <2>9, <3>4 DEF CancelWaiter, WaitersOf, Aboard
    <3> QED BY <3>1, <3>2, <3>3, <3>4, <3>5 DEF Aboard
  <2>10. CASE Invalidate
    BY <2>10 DEF Invalidate
  <2>11. CASE Rotate
    BY <2>11 DEF Rotate, cacheVars
  <2>12. CASE Tick
    BY <2>12 DEF Tick
  <2>13. CASE UNCHANGED vars
    BY <2>13 DEF vars, cacheVars
  <2>14. ASSUME NEW g \in Getters, Resume(g) PROVE FlightInv'
    BY <2>14 DEF Resume, Resuming
  <2>15. ASSUME NEW g \in Getters, CancelResuming(g) PROVE FlightInv'
    BY <2>15 DEF CancelResuming, Resuming
  <2> QED BY <2>1, <2>2, <2>3, <2>4, <2>6, <2>7, <2>8, <2>9, <2>10, <2>11,
             <2>12, <2>13, <2>14, <2>15 DEF Next
<1> QED BY <1>1, <1>2, TypesHold, PTL DEF Spec

\* One fetch of a secret at a time, whatever is cancelled, fails or is
\* invalidated meanwhile: the single flight of get().
THEOREM OneFlight == Spec => []SingleFlight
<1>1. FlightInv => SingleFlight
  BY DEF FlightInv, SingleFlight, Fetching
<1> QED BY <1>1, FlightsHold, PTL

\* No get() fails by what happened before it and its flight began: failures
\* are not cached, and a future that a waiter cancelled dies with its flight.
THEOREM FailuresHaveReasons == Spec => []FailsForAReason
<1>1. FlightInv => FailsForAReason
  BY DEF FlightInv
<1> QED BY <1>1, FlightsHold, PTL
-----------------------------------------------------------------------------
(* Values.                                                                  *)

\* What is cached or read is no older than the latest invalidation, and not
\* superseded for longer than it has been in hand.
THEOREM ValuesHold == Spec => []ValueInv
<1>1. Init => ValueInv
  BY DEF Init, ValueInv, StaleBound, InvalidationHolds, NoEntry, Versions, Fetching, Resuming
<1>2. Types /\ ValueInv /\ [Next]_vars => ValueInv'
  <2> SUFFICES ASSUME Types, ValueInv, [Next]_vars PROVE ValueInv'
    OBVIOUS
  <2> USE DEF Types, TypeOK, ValueInv, StaleBound, InvalidationHolds, Versions,
              Horizon, Fetching, Resuming
  <2>1. ASSUME NEW g \in Getters, Hit(g) PROVE ValueInv'
    <3>1. /\ cache.value \in 1..MaxVersion /\ cache.age \in 0..(TTL - 1)
          /\ since[cache.value] \in 0..Horizon
      BY <2>1 DEF Hit, Live
    <3>2. served'.lag <= TTL + MaxFetch - 1 /\ served'.value >= served'.floor
      BY <2>1, <3>1 DEF Hit, Serve
    <3>3. \A o \in Getters : task'[o] \in {"fetching", "resuming"} => task[o] = task'[o]
      BY <2>1 DEF Hit
    <3>4. UNCHANGED <<cache, read, fetchAge, version, since, invalidated>>
      BY <2>1 DEF Hit
    <3> QED BY <3>2, <3>3, <3>4
  <2>2. ASSUME NEW g \in Getters, Lead(g) PROVE ValueInv'
    BY <2>2 DEF Lead
  <2>3. ASSUME NEW g \in Getters, Join(g) PROVE ValueInv'
    <3>1. \A o \in Getters : task'[o] \in {"fetching", "resuming"} => task[o] = task'[o]
      BY <2>3 DEF Join
    <3> QED BY <2>3, <3>1 DEF Join
  <2>4. ASSUME NEW g \in Getters, DriverReads(g) PROVE ValueInv'
    <3>1. since[version] = 0 /\ fetchAge[g] \in 0..MaxFetch
      OBVIOUS
    <3>2. /\ read'[g] = version
          /\ \A o \in Getters : o # g => read'[o] = read[o]
          /\ task[g] = "fetching"
      BY <2>4 DEF DriverReads
    <3>3. \A o \in Resuming : o # g /\ read'[o] = read[o]
      BY <3>2
    <3>4. \A o \in Fetching : read'[o] # 0 =>
             read'[o] >= invalidated /\ since[read'[o]] <= fetchAge[o]
      <4>1. version >= invalidated /\ since[version] <= fetchAge[g]
        BY <3>1
      <4>2. \A o \in Fetching : o # g /\ read'[o] # 0 =>
               read'[o] >= invalidated /\ since[read'[o]] <= fetchAge[o]
        BY <3>2
      <4> QED BY <3>2, <4>1, <4>2
    <3>5. UNCHANGED <<cache, task, fetchAge, version, since, invalidated, served>>
      BY <2>4 DEF DriverReads
    <3> QED BY <3>3, <3>4, <3>5
  <2>5. ASSUME NEW o \in Fetching, NEW outcome \in {"value", "failed", "cancelled"},
               Settle(o, outcome)
        PROVE  /\ \A g \in Fetching' : g \in Fetching /\ read'[g] = read[g]
                                       /\ fetchAge'[g] = fetchAge[g]
               /\ \A g \in Resuming' : \/ g \in Resuming /\ read'[g] = read[g]
                                       \/ outcome = "value" /\ read'[g] = read[o]
               /\ UNCHANGED <<version, since, invalidated>>
    BY <2>5 DEF Settle, Resolve
  <2>6. ASSUME NEW g \in Getters, Answer(g) PROVE ValueInv'
    <3>1. /\ g \in Fetching /\ read[g] \in 1..MaxVersion
          /\ read[g] >= invalidated
          /\ since[read[g]] \in 0..Horizon /\ since[read[g]] <= MaxFetch
      BY <2>6 DEF Answer
    <3>2. cache'.value = read[g] /\ cache'.age = 0
      BY <2>6 DEF Answer
    <3>3. served'.lag <= TTL + MaxFetch - 1 /\ served'.value >= served'.floor
      BY <2>6, <3>1 DEF Answer, Serve
    <3>4. Settle(g, "value")
      BY <2>6 DEF Answer
    <3>5. /\ \A o \in Fetching' : o \in Fetching /\ read'[o] = read[o]
                                   /\ fetchAge'[o] = fetchAge[o]
          /\ \A o \in Resuming' : \/ o \in Resuming /\ read'[o] = read[o]
                                  \/ read'[o] = read[g]
          /\ UNCHANGED <<version, since, invalidated>>
      BY <2>5, <3>1, <3>4
    <3>6. cache'.value >= invalidated' /\ since'[cache'.value] <= cache'.age + MaxFetch
      BY <3>1, <3>2, <3>5
    <3>7. \A o \in Resuming' : read'[o] >= invalidated' /\ since'[read'[o]] <= MaxFetch
      BY <3>1, <3>5
    <3>8. \A o \in Fetching' : read'[o] # 0 =>
             read'[o] >= invalidated' /\ since'[read'[o]] <= fetchAge'[o]
      BY <3>5
    <3> HIDE DEF Fetching, Resuming
    <3> QED BY <3>3, <3>5, <3>6, <3>7, <3>8
  <2>7. ASSUME NEW g \in Getters, DriverFails(g) PROVE ValueInv'
    <3>1. g \in Fetching /\ Settle(g, "failed") /\ UNCHANGED <<cache, served>>
      BY <2>7 DEF DriverFails
    <3>2. /\ \A o \in Fetching' : o \in Fetching /\ read'[o] = read[o]
                                   /\ fetchAge'[o] = fetchAge[o]
          /\ \A o \in Resuming' : o \in Resuming /\ read'[o] = read[o]
          /\ UNCHANGED <<version, since, invalidated>>
      BY <2>5, <3>1
    <3> QED BY <3>1, <3>2
  <2>8. ASSUME NEW g \in Getters, CancelOwner(g) PROVE ValueInv'
    <3>1. g \in Fetching /\ Settle(g, "cancelled") /\ UNCHANGED <<cache, served>>
      BY <2>8 DEF CancelOwner
    <3>2. /\ \A o \in Fetching' : o \in Fetching /\ read'[o] = read[o]
                                   /\ fetchAge'[o] = fetchAge[o]
          /\ \A o \in Resuming' : o \in Resuming /\ read'[o] = read[o]
          /\ UNCHANGED <<version, since, invalidated>>
      BY <2>5, <3>1
    <3> QED BY <3>1, <3>2
  <2>9. ASSUME NEW g \in Getters, CancelWaiter(g) PROVE ValueInv'
    <3>1. \A o \in Getters : task'[o] \in {"fetching", "resuming"} => task[o] = task'[o]
      BY <2>9 DEF CancelWaiter
    <3> QED BY <2>9, <3>1 DEF CancelWaiter
  <2>10. CASE Invalidate
    BY <2>10 DEF Invalidate, NoEntry
  <2>11. CASE Rotate
    BY <2>11 DEF Rotate, cacheVars
  <2>12. CASE Tick
    <3>1. /\ version' = version /\ UNCHANGED <<task, read, invalidated, served>>
          /\ cache'.value = cache.value
          /\ cache.value # 0 => cache'.age = Older(cache.age, TTL)
          /\ \A o \in Fetching : fetchAge'[o] = fetchAge[o] + 1
          /\ \A v \in Versions :
                since'[v] = IF v < version THEN Older(since[v], Horizon) ELSE 0
      BY <2>12 DEF Tick
    <3>2. /\ Horizon \in Nat
          /\ \A n \in Nat : /\ Older(n, Horizon) \in Nat
                             /\ Older(n, Horizon) <= Horizon
                             /\ Older(n, Horizon) <= n + 1
      BY DEF Older
    <3>3. \A v \in Versions : since[v] \in Nat
      OBVIOUS
    <3>4. \A v \in Versions :
             since'[v] \in Nat /\ since'[v] <= Horizon /\ since'[v] <= since[v] + 1
      <4> SUFFICES ASSUME NEW v \in Versions
                   PROVE  /\ since'[v] \in Nat /\ since'[v] <= Horizon
                          /\ since'[v] <= since[v] + 1
        OBVIOUS
      <4> HIDE DEF Types, TypeOK, ValueInv, Versions, Horizon
      <4>1. CASE v < version     BY <3>1, <3>2, <3>3, <4>1
      <4>2. CASE ~(v < version)  BY <3>1, <3>2, <3>3, <4>2
      <4> QED BY <4>1, <4>2
    <3>5. cache.value # 0 => since'[cache.value] <= cache'.age + MaxFetch
      <4>1. cache.value # 0 =>
               /\ cache.value \in Versions /\ cache.age \in 0..TTL
               /\ since[cache.value] <= cache.age + MaxFetch
        OBVIOUS
      <4>2. cache.value # 0 /\ cache.age < TTL => cache'.age = cache.age + 1
        BY <3>1, <4>1 DEF Older
      <4>3. cache.value # 0 /\ cache.age >= TTL => cache'.age = TTL
        BY <3>1, <4>1 DEF Older
      <4> HIDE DEF Types, TypeOK, ValueInv, Versions
      <4> QED BY <3>3, <3>4, <4>1, <4>2, <4>3
    <3>6. \A o \in Fetching : read[o] # 0 => since'[read[o]] <= fetchAge'[o]
      <4>1. \A o \in Fetching : read[o] # 0 =>
               /\ read[o] \in Versions /\ fetchAge[o] \in Nat
               /\ since[read[o]] <= fetchAge[o]
        OBVIOUS
      <4> HIDE DEF Types, TypeOK, ValueInv, Versions, Fetching
      <4> QED BY <3>1, <3>3, <3>4, <4>1
    <3>7. Resuming' = {}
      BY <2>12, <3>1 DEF Tick
    <3> QED BY <3>1, <3>5, <3>6, <3>7
  <2>13. CASE UNCHANGED vars
    BY <2>13 DEF vars, cacheVars
  <2>14. ASSUME NEW g \in Getters, Resume(g) PROVE ValueInv'
    <3>1. /\ read[g] \in 1..MaxVersion /\ read[g] >= invalidated
          /\ since[read[g]] \in 0..Horizon /\ since[read[g]] <= MaxFetch
      BY <2>14 DEF Resume
    <3>2. served'.lag <= TTL + MaxFetch - 1 /\ served'.value >= served'.floor
      BY <2>14, <3>1 DEF Resume, Serve
    <3>3. \A o \in Getters : task'[o] \in {"fetching", "resuming"} =>
             task[o] = task'[o] /\ o # g /\ read'[o] = read[o]
      BY <2>14 DEF Resume
    <3> QED BY <2>14, <3>2, <3>3 DEF Resume
  <2>15. ASSUME NEW g \in Getters, CancelResuming(g) PROVE ValueInv'
    <3>1. \A o \in Getters : task'[o] \in {"fetching", "resuming"} =>
             task[o] = task'[o] /\ o # g /\ read'[o] = read[o]
      BY <2>15 DEF CancelResuming
    <3> QED BY <2>15, <3>1 DEF CancelResuming
  <2> QED BY <2>1, <2>2, <2>3, <2>4, <2>6, <2>7, <2>8, <2>9, <2>10, <2>11,
             <2>12, <2>13, <2>14, <2>15 DEF Next
<1> QED BY <1>1, <1>2, TypesHold, PTL DEF Spec

\* A value is served no later than a lifetime in the cache and a fetch after
\* it was replaced.
THEOREM StalenessIsBounded == Spec => []StaleBound
<1>1. ValueInv => StaleBound
  BY DEF ValueInv
<1> QED BY <1>1, ValuesHold, PTL

\* invalidate() is heard by every get() that ends after it, unless it
\* overtook a fetch.
THEOREM InvalidationIsHeard == Spec => []InvalidationHolds
<1>1. ValueInv => InvalidationHolds
  BY DEF ValueInv
<1> QED BY <1>1, ValuesHold, PTL
=============================================================================
