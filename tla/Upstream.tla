------------------------------- MODULE Upstream -------------------------------
(***************************************************************************)
(* The calls of one tenant on their way to Wazuh: the two client pools     *)
(* (wazuh/indexer_pool.py, wazuh/server_api_pool.py), the Server API       *)
(* client with its JWT (wazuh/server_api.py), and the requests each tool,  *)
(* resource or prompt sends through them (ToolPlans).                      *)
(*                                                                         *)
(* A step of a call ends where the code awaits: a lock that is taken, the  *)
(* credentials, a mint, the answer to a request.  At each of them the      *)
(* caller may be cancelled and the other calls may move.                   *)
(*                                                                         *)
(* Time is discrete.  A token is what the client believes (how much of it  *)
(* is consumed, counted from the answer to its mint) and what the manager  *)
(* knows (its age, counted from the moment it was issued, and whether it   *)
(* was revoked).  Both saturate; no token is one that is used up.          *)
(***************************************************************************)
EXTENDS ToolPlans, Integers, FiniteSets

CONSTANTS
    Calls,          \* concurrent calls of one tenant, one operation each
    Ops,            \* the operations they may be
    Lifetime,       \* of a token, in ticks: exp - iat
    RefreshAt,      \* REFRESH_AT_FRACTION of it
    MaxLatency,     \* bound: ticks a mint or a request may take (its timeout)
    MaxRevocations, \* bound: times the manager revokes all tokens
    Nobody          \* holds no lock

ASSUME UpstreamAssumption ==
    /\ IsFiniteSet(Calls) /\ Nobody \notin Calls
    /\ Ops \subseteq Operations
    /\ Lifetime \in Nat \ {0} /\ RefreshAt \in 1..Lifetime
    /\ 5 * RefreshAt <= 4 * Lifetime
    /\ MaxLatency \in Nat /\ MaxRevocations \in Nat

\* A mint and the request that follows fit into the last fifth of a lifetime:
\* 50 s each at most, against 180 s of the 900 s a manager grants by default.
ASSUME MarginAssumption == 2 * MaxLatency <= Lifetime - RefreshAt

VARIABLES
    pool,       \* per api: clients built, how many of them are closed, who
                \* holds the lock, and whether the pool is shut (_closed)
    call,       \* per call: see CallState
    token,      \* _token with its times, and what the manager knows of it
    jwtLock,    \* who holds ServerApiClient._lock
    revocations,\* external: how often the manager revoked its tokens
    credit      \* history: refusals, less the mints that replaced a token
                \* the client held to be fresh

vars == <<pool, call, token, jwtLock, revocations, credit>>

Apis    == {"indexer", "server"}
Ends    == {"ok", "error", "raw", "cancelled"}
Network == {"mint", "sent", "taken", "refused"}
UsedUp  == [consumed |-> Lifetime, age |-> Lifetime, revoked |-> FALSE]
Token   == [consumed : 0..Lifetime, age : 0..Lifetime, revoked : BOOLEAN]

\* "pool", "secrets": acquiring the next client; "ready": about to send the
\* next request, at the JWT lock if need be; "force": at that lock after a
\* 401; then on the network, where "taken" is a request the manager carried
\* out and "refused" one it answered with 401.  A call ends "ok", in a
\* WazuhError, in an error that is none ("raw"), or cancelled.
CallState ==
    [op : Ops,
     phase : {"pool", "secrets", "ready", "force"} \cup Network \cup Ends,
     client : [Apis -> 0..2],   \* the client of each pool it has acquired
     next : 1..3,               \* its next request
     retried : BOOLEAN,         \* that request is being replayed
     token : Token,             \* the token it is sent with
     waited : 0..MaxLatency,    \* ticks on the network
     applied : 0..2]            \* history: how often its write was applied

TypeOK ==
    /\ pool \in [Apis -> [built : 0..2, closed : 0..2,
                          holder : Calls \cup {Nobody}, shut : BOOLEAN]]
    /\ call \in [Calls -> CallState]
    /\ token \in Token
    /\ jwtLock \in Calls \cup {Nobody}
    /\ revocations \in 0..MaxRevocations

NoClients == [a \in Apis |-> 0]
NewPool == [built |-> 0, closed |-> 0, holder |-> Nobody, shut |-> FALSE]
NewCall(op) ==
    [op |-> op, phase |-> "pool", client |-> NoClients, next |-> 1,
     retried |-> FALSE, token |-> UsedUp, waited |-> 0, applied |-> 0]

Init ==
    /\ pool = [a \in Apis |-> NewPool]
    /\ call \in [Calls -> {NewCall(op) : op \in Ops}]
    /\ token = UsedUp
    /\ jwtLock = Nobody
    /\ revocations = 0
    /\ credit = 0
-----------------------------------------------------------------------------
In(c, phase) == call[c].phase = phase
Plan(c)      == RequestsOf(call[c].op)
Current(c)   == Plan(c)[call[c].next]
Api(c)       == Current(c).api

\* The call as it moves on; what it had on the network is behind it.
Moved(c, phase) == [call[c] EXCEPT !.phase = phase, !.token = UsedUp, !.waited = 0]
Becomes(c, r)   == call' = [call EXCEPT ![c] = r]
Ended(c, how) ==
    Becomes(c, [Moved(c, how) EXCEPT !.retried = FALSE, !.next = 1, !.client = NoClients])

-----------------------------------------------------------------------------
(* IndexerClientPool and ServerApiClientPool: acquire() and aclose_all().   *)

\* The pools the call needs, in the order it acquires them, and the next one.
Pools(c)  == PoolsOf(call[c].op)
LastOf(c) == Pools(c)[Len(Pools(c))]
Wanted(c) == IF call[c].client[Head(Pools(c))] = 0 THEN Head(Pools(c)) ELSE LastOf(c)
IsOpen(a)  == pool[a].closed < pool[a].built
LockFree(a) == pool[a].holder = Nobody

Acquired(c, k) ==
    Becomes(c, [Moved(c, IF Wanted(c) = LastOf(c) THEN "ready" ELSE "pool")
                  EXCEPT !.client[Wanted(c)] = k])

\* The indexer pool looks before it takes the lock, the other one under it.
AcquireShared(c) ==
    /\ In(c, "pool") /\ IsOpen(Wanted(c))
    /\ Wanted(c) = "indexer" \/ LockFree("server")
    /\ Acquired(c, pool[Wanted(c)].built)
    /\ UNCHANGED <<pool, token, jwtLock, revocations, credit>>

AcquireShut(c) ==
    /\ In(c, "pool") /\ LockFree(Wanted(c)) /\ pool[Wanted(c)].shut
    /\ Ended(c, "raw")
    /\ UNCHANGED <<pool, token, jwtLock, revocations, credit>>

\* No client, looked for under the lock: fetch the credentials.
AcquireFirst(c) ==
    /\ In(c, "pool") /\ LockFree(Wanted(c))
    /\ ~pool[Wanted(c)].shut /\ ~IsOpen(Wanted(c))
    /\ pool' = [pool EXCEPT ![Wanted(c)].holder = c]
    /\ Becomes(c, Moved(c, "secrets"))
    /\ UNCHANGED <<token, jwtLock, revocations, credit>>

BuildClient(c) ==
    /\ In(c, "secrets")
    /\ pool' = [pool EXCEPT ![Wanted(c)].holder = Nobody, ![Wanted(c)].built = @ + 1]
    /\ Acquired(c, pool[Wanted(c)].built + 1)
    /\ UNCHANGED <<token, jwtLock, revocations, credit>>

SecretsFail(c) ==
    /\ In(c, "secrets")
    /\ pool' = [pool EXCEPT ![Wanted(c)].holder = Nobody]
    /\ Ended(c, "raw")
    /\ UNCHANGED <<token, jwtLock, revocations, credit>>

CloseIndexerPool ==
    /\ IsOpen("indexer") /\ pool["indexer"].closed = 0
    /\ pool' = [pool EXCEPT !["indexer"].closed = pool["indexer"].built]
    /\ UNCHANGED <<call, token, jwtLock, revocations, credit>>

\* Mutant: like the indexer pool, without the lock.
CloseServerPoolNow ==
    /\ ~pool["server"].shut
    /\ pool' = [pool EXCEPT !["server"].closed = pool["server"].built,
                            !["server"].shut = TRUE]
    /\ UNCHANGED <<call, token, jwtLock, revocations, credit>>

CloseServerPool ==
    /\ LockFree("server") /\ ~pool["server"].shut
    /\ pool' = [pool EXCEPT !["server"].closed = pool["server"].built,
                            !["server"].shut = TRUE]
    /\ UNCHANGED <<call, token, jwtLock, revocations, credit>>

-----------------------------------------------------------------------------
(* The handlers: what follows an answer, and what an error.                 *)

GoOn(c, what) ==
    LET n == call[c].next + (IF what = "skip" THEN 2 ELSE 1)
    IN  IF what = "error" THEN Ended(c, "error")
        ELSE IF what = "done" \/ n > Len(Plan(c)) THEN Ended(c, "ok")
        ELSE Becomes(c, [Moved(c, "ready") EXCEPT !.next = n, !.retried = FALSE])

\* A WazuhError may be caught by the handler; nothing else is.
Fails(c) == IF Current(c).must THEN Ended(c, "error") ELSE GoOn(c, "next")

RejectArguments(c) ==
    /\ In(c, "ready") /\ call[c].next \in ChecksBefore(call[c].op)
    /\ Ended(c, "raw")
    /\ UNCHANGED <<pool, token, jwtLock, revocations, credit>>

\* IndexerClient.search(): basic auth, no token.
SendSearch(c) ==
    /\ In(c, "ready") /\ Api(c) = "indexer"
    /\ Becomes(c, Moved(c, "sent"))
    /\ UNCHANGED <<pool, token, jwtLock, revocations, credit>>

-----------------------------------------------------------------------------
(* ServerApiClient: _ensure_jwt(), _refresh_jwt_force(), _mint_locked().    *)

Send(c, t) == call' = [call EXCEPT ![c].phase = "sent", ![c].token = t, ![c].waited = 0]

\* Mutant: a token is used until it expires.
FreshToTheEnd == token.consumed < Lifetime

Fresh == token.consumed < RefreshAt

ReuseToken(c) ==
    /\ In(c, "ready") /\ Api(c) = "server" /\ jwtLock = Nobody
    /\ Fresh
    /\ Send(c, token)
    /\ UNCHANGED <<pool, token, jwtLock, revocations, credit>>

StartMint(c) ==
    /\ jwtLock = Nobody /\ jwtLock' = c
    /\ Becomes(c, Moved(c, "mint"))
    /\ UNCHANGED <<pool, token, revocations, credit>>

\* Mutant: whether to mint is decided before the lock is waited for.
MintIfAbsentUnlocked(c) ==
    In(c, "ready") /\ Api(c) = "server" /\ StartMint(c)

MintIfAbsent(c) ==
    In(c, "ready") /\ Api(c) = "server" /\ ~Fresh /\ StartMint(c)

\* After a 401, also when another call has replaced the token meanwhile.
MintByForce(c) == In(c, "force") /\ StartMint(c)

Usable(c) == call[c].client[Api(c)] > pool[Api(c)].closed

\* The manager issued the token at some moment since it was asked to; a
\* revocation that fell into that time may have hit it.
Minted(c) ==
    /\ In(c, "mint") /\ Usable(c)
    /\ \E age \in 0..call[c].waited, hit \in {FALSE, call[c].token.revoked} :
          /\ token' = [consumed |-> 0, age |-> age, revoked |-> hit]
          /\ Send(c, token')
    /\ jwtLock' = Nobody
    /\ credit' = IF Fresh THEN credit - 1 ELSE credit
    /\ UNCHANGED <<pool, revocations>>

MintFails(c) ==
    /\ In(c, "mint")
    /\ jwtLock' = Nobody
    /\ Fails(c)
    /\ UNCHANGED <<pool, token, revocations, credit>>

-----------------------------------------------------------------------------
(* A request and its answer.                                                *)

Valid(t) == t.age < Lifetime /\ ~t.revoked

\* The manager, or the indexer, does what it is asked.
CarriesOut(c) ==
    /\ In(c, "sent") /\ Usable(c)
    /\ Api(c) = "server" => Valid(call[c].token)
    /\ call' = [call EXCEPT ![c].phase = "taken", ![c].token = UsedUp,
                            ![c].applied = @ + (IF Current(c).writes THEN 1 ELSE 0)]
    /\ UNCHANGED <<pool, token, jwtLock, revocations, credit>>

Refuses(c) ==
    /\ In(c, "sent") /\ Usable(c) /\ Api(c) = "server"
    /\ ~Valid(call[c].token)
    /\ call' = [call EXCEPT ![c].phase = "refused"]
    /\ credit' = credit + 1
    /\ UNCHANGED <<pool, token, jwtLock, revocations>>

\* Any other status from 400 on; map_http_error() makes a WazuhError of it.
\* A prompt takes a 404 for an empty answer.
Rejects(c) ==
    /\ In(c, "sent") /\ Usable(c)
    /\ Fails(c)
    /\ UNCHANGED <<pool, token, jwtLock, revocations, credit>>

Answer(c) ==
    /\ In(c, "taken")
    /\ \E what \in {"next", Current(c).empty} : GoOn(c, what)
    /\ UNCHANGED <<pool, token, jwtLock, revocations, credit>>

\* The first 401 is answered by a fresh token and a replay, the second is final.
Replay(c) ==
    /\ In(c, "refused")
    /\ IF call[c].retried THEN Fails(c)
       ELSE Becomes(c, [Moved(c, "force") EXCEPT !.retried = TRUE])
    /\ UNCHANGED <<pool, token, jwtLock, revocations, credit>>

\* Mutant: a timeout is retried as well.
TimesOutAndRetries(c) ==
    /\ call[c].phase \in {"sent", "taken", "refused"}
    /\ IF Api(c) = "server" /\ ~call[c].retried
          THEN Becomes(c, [Moved(c, "force") EXCEPT !.retried = TRUE])
          ELSE Ended(c, "raw")
    /\ UNCHANGED <<pool, token, jwtLock, revocations, credit>>

\* map_timeout() at the Server API; the indexer's client lets it pass raw.
TimesOut(c) ==
    /\ call[c].phase \in {"sent", "taken", "refused"}
    /\ IF Api(c) = "server" THEN Fails(c) ELSE Ended(c, "raw")
    /\ UNCHANGED <<pool, token, jwtLock, revocations, credit>>

\* What a call that ends at this await gives back.
Unlocked(c) ==
    /\ pool' = [a \in Apis |->
                  IF pool[a].holder = c THEN [pool[a] EXCEPT !.holder = Nobody] ELSE pool[a]]
    /\ jwtLock' = IF jwtLock = c THEN Nobody ELSE jwtLock

\* The connection fails, or its client was closed: httpx's error, raw.
Breaks(c) ==
    /\ call[c].phase \in Network
    /\ Ended(c, "raw")
    /\ Unlocked(c)
    /\ UNCHANGED <<token, revocations, credit>>

\* The caller's request is aborted.
Cancel(c) ==
    /\ call[c].phase \notin Ends
    /\ Ended(c, "cancelled")
    /\ Unlocked(c)
    /\ UNCHANGED <<token, revocations, credit>>

-----------------------------------------------------------------------------
(* External: the manager revokes its tokens; time passes.                   *)

Revoke ==
    /\ revocations < MaxRevocations
    /\ revocations' = revocations + 1
    /\ token' = [token EXCEPT !.revoked = TRUE]
    /\ call' = [c \in Calls |-> IF call[c].phase \in {"mint", "sent"}
                                THEN [call[c] EXCEPT !.token.revoked = TRUE] ELSE call[c]]
    /\ UNCHANGED <<pool, jwtLock, credit>>

Saturated(n) == IF n < Lifetime THEN n + 1 ELSE n
Older(t) == [t EXCEPT !.consumed = Saturated(@), !.age = Saturated(@)]

Tick ==
    /\ \A c \in Calls : call[c].phase \in Network => call[c].waited < MaxLatency
    /\ token' = Older(token)
    /\ call' = [c \in Calls |->
                   IF call[c].phase \in Network
                   THEN [call[c] EXCEPT !.waited = @ + 1, !.token = Older(@)]
                   ELSE call[c]]
    /\ UNCHANGED <<pool, jwtLock, revocations, credit>>

Proceed(c) ==
    \/ AcquireShared(c) \/ AcquireShut(c) \/ AcquireFirst(c) \/ BuildClient(c)
    \/ SecretsFail(c) \/ RejectArguments(c) \/ SendSearch(c)
    \/ ReuseToken(c) \/ MintIfAbsent(c) \/ MintByForce(c) \/ Minted(c)
    \/ MintFails(c) \/ CarriesOut(c) \/ Refuses(c) \/ Rejects(c) \/ Answer(c)
    \/ Replay(c) \/ TimesOut(c) \/ Breaks(c)

Next ==
    \/ \E c \in Calls : Proceed(c) \/ Cancel(c)
    \/ CloseIndexerPool \/ CloseServerPool \/ Revoke \/ Tick

Spec == Init /\ [][Next]_vars
-----------------------------------------------------------------------------
\* A write reaches the manager at most once per call, however its request
\* fared (replayed after a 401, timed out, aborted), and a call that reports
\* success has made it, unless its group was empty.
WritesOnce ==
    \A c \in Calls :
        /\ call[c].applied <= 1
        /\ call[c].op \in WriteTools \ {<<"write", "run_active_response_on_group">>}
              /\ In(c, "ok") => call[c].applied = 1

\* No request is refused for an expired token: refreshing at 80% of the
\* lifetime the client computed leaves room for a mint and a request, though
\* the manager's clock started when the token was issued.
RefusedOnlyIfRevoked ==
    \A c \in Calls : In(c, "refused") => call[c].token.revoked

\* However many callers find the token used up, one of them mints; a token
\* that is still fresh is replaced only by a call whose request was refused,
\* once per refusal.
NoMintStampede == credit >= 0

\* A pool never has two clients open, and the Server API pool none once
\* aclose_all() has returned, whoever was fetching credentials meanwhile.
PoolsHoldOneClient ==
    /\ \A a \in Apis : pool[a].built - pool[a].closed <= 1
    /\ pool["server"].shut => ~IsOpen("server")
=============================================================================
