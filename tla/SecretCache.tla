----------------------------- MODULE SecretCache -----------------------------
(***************************************************************************)
(* CachingSecretStore of secrets/caching.py: a TTL cache in front of a     *)
(* secret driver, with one fetch in flight per (tenant, key).  Entries do  *)
(* not interact, so one of them is modelled.                               *)
(*                                                                         *)
(* _lock is never held across a suspension: what a get() does before it    *)
(* awaits is one step, and what it does after the driver answered is one.  *)
(* A flight is named by the caller that opened it; its future is pending   *)
(* until that caller settles it or a waiter, cancelled in `await fut`,     *)
(* cancels it for everyone.  set_result() only schedules the waiters: each *)
(* returns the value in a step of its own, a loop iteration later.  One    *)
(* that will fail ends with its flight, as nothing can change that.        *)
(***************************************************************************)
EXTENDS Integers

CONSTANTS
    Getters,        \* concurrent callers of get()
    TTL,            \* ttl_seconds, in ticks
    MaxFetch,       \* the driver's own timeout, in ticks
    MaxVersion,     \* bound: the secret is rotated MaxVersion - 1 times
    Nobody          \* no flight

ASSUME SecretCacheAssumption ==
    /\ TTL \in Nat \ {0}
    /\ MaxFetch \in Nat
    /\ MaxVersion \in Nat \ {0}
    /\ Nobody \notin Getters

VARIABLES
    cache,      \* _cache[key]: the value and how long it has been there
    inflight,   \* _inflight[key]: the caller whose future is registered
    task,       \* per caller: inside get(), or how its latest get() ended
    awaits,     \* the flight a waiting caller awaits
    dead,       \* the fetching callers whose future a waiter has cancelled
    read,       \* the version the driver has read for a fetching caller, or
                \* that the settled future of a resuming waiter holds; or 0
    fetchAge,   \* how long a fetch has been under way
    version,    \* external: the version of the secret the driver holds
    since,      \* history: how long each version has been superseded
    invalidated,\* history: the version held at the latest invalidation that
                \* overtook no fetch and no waiter of one
    trouble,    \* history: the gets that saw a failure or a cancellation
    served      \* history: the value served latest, how long it had been
                \* superseded, and `invalidated`, at that moment

cacheVars == <<cache, inflight, task, awaits, dead, read, fetchAge>>
vars == <<cacheVars, version, since, invalidated, trouble, served>>

NoEntry  == [value |-> 0, age |-> 0]
Versions == 1..MaxVersion
Horizon  == TTL + MaxFetch
Bad      == {"failed", "cancelled", "invalid"}

Fetching   == {g \in Getters : task[g] = "fetching"}
WaitersOf(o) == {g \in Getters : task[g] = "waiting" /\ awaits[g] = o}
Aboard     == {g \in Getters : task[g] \in {"fetching", "waiting"}}
Resuming   == {g \in Getters : task[g] = "resuming"}
Inside     == Aboard \cup Resuming

TypeOK ==
    /\ cache \in [value : 0..MaxVersion, age : 0..TTL]
    /\ inflight \in Getters \cup {Nobody}
    /\ task \in [Getters -> {"idle", "fetching", "waiting", "resuming", "value"} \cup Bad]
    /\ awaits \in [Getters -> Getters \cup {Nobody}]
    /\ dead \subseteq Getters
    /\ read \in [Getters -> 0..MaxVersion]
    /\ fetchAge \in [Getters -> 0..MaxFetch]

Init ==
    /\ cache = NoEntry /\ inflight = Nobody
    /\ task = [g \in Getters |-> "idle"]
    /\ awaits = [g \in Getters |-> Nobody]
    /\ dead = {}
    /\ read = [g \in Getters |-> 0]
    /\ fetchAge = [g \in Getters |-> 0]
    /\ version = 1
    /\ since = [v \in Versions |-> 0]
    /\ invalidated = 0
    /\ trouble = {}
    /\ served = [value |-> 0, lag |-> 0, floor |-> 0]
-----------------------------------------------------------------------------
Live == cache.value # 0 /\ cache.age < TTL

\* What the history remembers of a value that is handed out.
Serve(v) == served' = [value |-> v, lag |-> since[v], floor |-> invalidated]

Begins(g) ==
    /\ g \notin Inside
    /\ trouble' = IF Fetching \cap trouble # {} THEN trouble \cup {g}
                                               ELSE trouble \ {g}

\* Mutant: a hit renews the entry.
HitRenews(g) ==
    /\ Begins(g)
    /\ Live
    /\ task' = [task EXCEPT ![g] = "value"]
    /\ Serve(cache.value)
    /\ cache' = [cache EXCEPT !.age = 0]
    /\ UNCHANGED <<inflight, awaits, dead, read, fetchAge, version, since,
                   invalidated>>

\* get(): a live entry is returned without a suspension.
Hit(g) ==
    /\ Begins(g)
    /\ Live
    /\ task' = [task EXCEPT ![g] = "value"]
    /\ Serve(cache.value)
    /\ UNCHANGED <<cache, inflight, awaits, dead, read, fetchAge, version,
                   since, invalidated>>

\* get(): nothing live and no flight; the caller registers a future and fetches.
Lead(g) ==
    /\ Begins(g)
    /\ ~Live
    /\ inflight = Nobody
    /\ inflight' = g
    /\ task' = [task EXCEPT ![g] = "fetching"]
    /\ dead' = dead \ {g}
    /\ read' = [read EXCEPT ![g] = 0]
    /\ fetchAge' = [fetchAge EXCEPT ![g] = 0]
    /\ UNCHANGED <<cache, awaits, version, since, invalidated, served>>

\* get(): a flight is registered.  Awaiting a cancelled future fails at once.
Join(g) ==
    /\ Begins(g)
    /\ ~Live
    /\ inflight # Nobody
    /\ IF inflight \in dead
          THEN /\ task' = [task EXCEPT ![g] = "cancelled"]
               /\ UNCHANGED awaits
          ELSE /\ task' = [task EXCEPT ![g] = "waiting"]
               /\ awaits' = [awaits EXCEPT ![g] = inflight]
    /\ UNCHANGED <<cache, inflight, dead, read, fetchAge, version, since,
                   invalidated, served>>

\* await self._inner.get(): the driver reads the secret at some point of it.
DriverReads(o) ==
    /\ o \in Fetching /\ read[o] = 0
    /\ read' = [read EXCEPT ![o] = version]
    /\ UNCHANGED <<cache, inflight, task, awaits, dead, fetchAge, version,
                   since, invalidated, trouble, served>>

\* The flight ends: its waiters are woken with the value or get the failure;
\* so does its owner, unless the future was cancelled, when settling it raises
\* InvalidStateError.
Resolve(o, outcome) ==
    /\ task' = [g \in Getters |->
                  IF g = o THEN IF o \in dead THEN "invalid" ELSE outcome
                  ELSE IF g \notin WaitersOf(o) THEN task[g]
                  ELSE IF outcome = "value" THEN "resuming" ELSE outcome]
    /\ awaits' = [g \in Getters |-> IF g \in WaitersOf(o) THEN Nobody ELSE awaits[g]]
    /\ read' = [g \in Getters |->
                  IF g = o THEN 0
                  ELSE IF g \in WaitersOf(o) /\ outcome = "value" THEN read[o]
                  ELSE read[g]]
    /\ fetchAge' = [fetchAge EXCEPT ![o] = 0]
    /\ UNCHANGED <<version, since, invalidated>>

\* Mutant: the future is settled before it is unregistered, so that a
\* cancelled one is never unregistered.
SettleFirst(o, outcome) ==
    /\ Resolve(o, outcome)
    /\ inflight' = IF o \in dead THEN inflight ELSE Nobody
    /\ UNCHANGED dead

\* _inflight.pop(), then set_result() or set_exception().
Settle(o, outcome) ==
    /\ Resolve(o, outcome)
    /\ inflight' = Nobody
    /\ dead' = dead \ {o}

Answer(o) ==
    /\ o \in Fetching /\ read[o] # 0
    /\ cache' = [value |-> read[o], age |-> 0]
    /\ Settle(o, "value")
    /\ IF o \in dead THEN UNCHANGED served
          ELSE Serve(read[o])
    /\ UNCHANGED trouble

\* KeyError, a transport error: nothing is cached, everyone gets it.
DriverFails(o) ==
    /\ o \in Fetching
    /\ Settle(o, "failed")
    /\ trouble' = trouble \cup Aboard
    /\ UNCHANGED <<cache, served>>

\* Mutant: `except Exception`, which a CancelledError passes by.
CancelOwnerUncaught(o) ==
    /\ o \in Fetching
    /\ task' = [task EXCEPT ![o] = "cancelled"]
    /\ trouble' = trouble \cup Aboard
    /\ UNCHANGED <<cache, inflight, awaits, dead, read, fetchAge, version,
                   since, invalidated, served>>

\* The owner's request is aborted: BaseException is caught and propagated.
CancelOwner(o) ==
    /\ o \in Fetching
    /\ Settle(o, "cancelled")
    /\ trouble' = trouble \cup Aboard
    /\ UNCHANGED <<cache, served>>

\* A waiter's request is aborted: cancelling its task cancels the shared future.
CancelWaiter(g) ==
    /\ task[g] = "waiting"
    /\ dead' = dead \cup {awaits[g]}
    /\ task' = [w \in Getters |-> IF w \in WaitersOf(awaits[g])
                                  THEN "cancelled" ELSE task[w]]
    /\ awaits' = [w \in Getters |-> IF w \in WaitersOf(awaits[g])
                                    THEN Nobody ELSE awaits[w]]
    /\ trouble' = trouble \cup Aboard
    /\ UNCHANGED <<cache, inflight, read, fetchAge, version, since,
                   invalidated, served>>

\* return await fut: a woken waiter returns what the future holds.
Resume(g) ==
    /\ g \in Resuming
    /\ task' = [task EXCEPT ![g] = "value"]
    /\ read' = [read EXCEPT ![g] = 0]
    /\ Serve(read[g])
    /\ UNCHANGED <<cache, inflight, awaits, dead, fetchAge, version, since,
                   invalidated, trouble>>

\* A woken waiter's request is aborted: its future is settled, it alone fails.
CancelResuming(g) ==
    /\ g \in Resuming
    /\ task' = [task EXCEPT ![g] = "cancelled"]
    /\ read' = [read EXCEPT ![g] = 0]
    /\ trouble' = trouble \cup {g}
    /\ UNCHANGED <<cache, inflight, awaits, dead, fetchAge, version, since,
                   invalidated, served>>

\* Mutant: invalidate() pops the flight, not the entry.
InvalidateFlight ==
    /\ inflight' = Nobody
    /\ invalidated' = IF Fetching \cup Resuming = {} THEN version ELSE invalidated
    /\ UNCHANGED <<cache, task, awaits, dead, read, fetchAge, version, since,
                   trouble, served>>

\* invalidate(): only the entry is dropped; a fetch in flight goes on.
Invalidate ==
    /\ cache' = NoEntry
    /\ invalidated' = IF Fetching \cup Resuming = {} THEN version ELSE invalidated
    /\ UNCHANGED <<inflight, task, awaits, dead, read, fetchAge, version,
                   since, trouble, served>>

\* External: the operator rotates the secret.
Rotate ==
    /\ version < MaxVersion
    /\ version' = version + 1
    /\ UNCHANGED <<cacheVars, since, invalidated, trouble, served>>

Older(n, limit) == IF n < limit THEN n + 1 ELSE limit

\* clock(): one tick; the driver's timeout ends a fetch before it outlasts it,
\* and a woken waiter resumes in the next loop iteration, within the tick.
Tick ==
    /\ Resuming = {}
    /\ \A o \in Fetching : fetchAge[o] < MaxFetch
    /\ fetchAge' = [g \in Getters |->
                      IF g \in Fetching THEN fetchAge[g] + 1 ELSE fetchAge[g]]
    /\ cache' = IF cache.value = 0 THEN cache
                ELSE [cache EXCEPT !.age = Older(cache.age, TTL)]
    /\ since' = [v \in Versions |->
                   IF v < version THEN Older(since[v], Horizon) ELSE 0]
    /\ UNCHANGED <<inflight, task, awaits, dead, read, version, invalidated,
                   trouble, served>>

Next ==
    \/ \E g \in Getters :
          \/ Hit(g) \/ Lead(g) \/ Join(g)
          \/ DriverReads(g) \/ Answer(g) \/ DriverFails(g)
          \/ CancelOwner(g) \/ CancelWaiter(g)
          \/ Resume(g) \/ CancelResuming(g)
    \/ Invalidate \/ Rotate \/ Tick

Spec == Init /\ [][Next]_vars

\* The driver answers or times out, and the loop resumes whoever is ready.
FairSpec ==
    /\ Spec
    /\ \A g \in Getters :
          /\ WF_vars(DriverReads(g) \/ Answer(g) \/ DriverFails(g))
          /\ WF_vars(Resume(g))
-----------------------------------------------------------------------------
\* A value is handed out no later than its lifetime in the cache, plus the
\* fetch that brought it, after the operator replaced it, invalidated or not:
\* a fetch may outlive the invalidation, but not for longer than that.
StaleBound == served.lag <= TTL + MaxFetch - 1

\* invalidate() is heard: unless it overtakes a fetch, or a waiter that holds
\* the fetched value but has not yet returned it, no get() that ends after it
\* returns a version older than the one the driver then held, also when
\* fetches, failures and cancellations of others come in between.
InvalidationHolds == served.value >= served.floor

\* A get() fails only if, while it or the flight it joined was under way, the
\* driver failed or a caller of that time was cancelled: failures are not
\* cached, and no cancelled future outlives its flight.
FailsForAReason == \A g \in Getters : task[g] \in Bad => g \in trouble

\* One fetch of a secret at a time.
SingleFlight == \A a, b \in Fetching : a = b

\* Every get() ends: a waiter is never left with a future nobody will settle.
GetsEnd == \A g \in Getters : g \in Inside ~> g \notin Inside
=============================================================================
