---------------------------- MODULE UpstreamProofs ----------------------------
(***************************************************************************)
(* Proofs about Upstream for every number of calls, every choice of        *)
(* operations, every token lifetime and every number of revocations, under *)
(* UpstreamAssumption and MarginAssumption.                                *)
(***************************************************************************)
EXTENDS Upstream, FiniteSetTheorems, SequenceTheorems, TLAPS

-----------------------------------------------------------------------------
(* The plans of the handlers.                                              *)

Empty == {"next", "skip", "done", "error"}
GoodRequest(r) ==
    r \in [api : {"indexer", "server"}, writes : BOOLEAN, must : BOOLEAN, empty : Empty]

\* Every plan has one to three requests, of which only the last may write, and
\* no handler catches the error of a write.
GoodPlan(p) ==
    /\ Len(p) \in 1..3
    /\ \A i \in 1..Len(p) :
         GoodRequest(p[i]) /\ (p[i].writes => i = Len(p) /\ p[i].must)

\* The write tools whose success says that they have written.
Writers == WriteTools \ {<<"write", "run_active_response_on_group">>}

\* Their plans end in a write, which no error and no empty answer leads past.
WritingPlan(p) ==
    /\ GoodPlan(p) /\ p[Len(p)].writes
    /\ \A i \in 1..Len(p) :
         /\ p[i].must /\ p[i].empty # "done"
         /\ p[i].empty = "skip" => i + 2 <= Len(p)

LEMMA Requests ==
    /\ \A must \in BOOLEAN, empty \in Empty :
         /\ GoodRequest(Get(must, empty)) /\ ~Get(must, empty).writes
         /\ Get(TRUE, empty).must /\ Get(must, empty).empty = empty
         /\ GoodRequest(Search(must, empty)) /\ ~Search(must, empty).writes
    /\ GoodRequest(Put) /\ Put.must /\ Put.writes /\ Put.empty = "next"
BY DEF GoodRequest, Empty, Get, Search, Put, Request

LEMMA OneRequest ==
    ASSUME NEW a, GoodRequest(a), a.writes => a.must
    PROVE  GoodPlan(<<a>>)
BY DEF GoodPlan

LEMMA TwoRequests ==
    ASSUME NEW a, NEW b, GoodRequest(a), GoodRequest(b), ~a.writes, b.writes => b.must
    PROVE  GoodPlan(<<a, b>>)
BY DEF GoodPlan

LEMMA ThreeRequests ==
    ASSUME NEW a, NEW b, NEW c, GoodRequest(a), GoodRequest(b), GoodRequest(c),
           ~a.writes, ~b.writes, c.writes => c.must
    PROVE  GoodPlan(<<a, b, c>>)
BY DEF GoodPlan

LEMMA Appended ==
    ASSUME NEW a, NEW b, NEW c
    PROVE  Append(<<a, b>>, c) = <<a, b, c>>
<1> DEFINE s == Append(<<a, b>>, c)
<1>1. <<a, b>> \in Seq({a, b, c})
  OBVIOUS
<1>2. Len(s) = 3 /\ s[1] = a /\ s[2] = b /\ s[3] = c /\ s \in Seq({a, b, c})
  BY <1>1, AppendProperties
<1>3. Len(<<a, b, c>>) = 3 /\ <<a, b, c>> \in Seq({a, b, c})
  OBVIOUS
<1> HIDE DEF s
<1>4. \A i \in 1..Len(s) : s[i] = <<a, b, c>>[i]
  <2>1. \A i \in 1..Len(s) : i = 1 \/ i = 2 \/ i = 3
    BY <1>2
  <2> QED BY <1>2, <2>1
<1>5. s = <<a, b, c>>
  BY <1>2, <1>3, <1>4, SeqEqual
<1> QED BY <1>5 DEF s

\* Every handler's requests are a good plan (the handlers of tools/,
\* resources/ and prompts/).
LEMMA GoodPlans == \A op : GoodPlan(RequestsOf(op))
<1> USE DEF Empty
<1>1. \A op : GoodPlan(AgentRequests(op)) /\ GoodPlan(MitreRequests(op))
  BY OneRequest, Requests DEF AgentRequests, MitreRequests
<1>2. \A off \in Empty : GoodPlan(StatusRequests(off))
  BY TwoRequests, Requests DEF StatusRequests
<1>3. \A scope : GoodPlan(RestartRequests(scope))
  <2> TAKE scope
  <2>1. PICK off \in {"error", "skip"} :
          RestartRequests(scope) = Append(<<Get(TRUE, off), Get(TRUE, "next")>>, Put)
    BY DEF RestartRequests, StatusRequests
  <2>2. RestartRequests(scope) = <<Get(TRUE, off), Get(TRUE, "next"), Put>>
    BY <2>1, Appended
  <2> QED BY <2>2, ThreeRequests, Requests
<1>4. \A op : GoodPlan(WriteRequests(op))
  BY <1>3, OneRequest, TwoRequests, Requests
  DEF WriteRequests, GroupRequests, ResponseRequests, RuleRequests, AgentWriteRequests
<1>5. \A op : GoodPlan(ResourceRequests(op)) /\ GoodPlan(PromptRequests(op))
  BY OneRequest, TwoRequests, ThreeRequests, Requests
  DEF ResourceRequests, PromptRequests, RuleResource, MitreResource,
      AgentConfigResource, TriagePrompt, InvestigatePrompt, PosturePrompt
<1> QED BY <1>1, <1>2, <1>4, <1>5, OneRequest, Requests DEF RequestsOf

\* A write tool that reports success has had its write carried out
\* (tools/write.py, run_active_response, restart_manager).
LEMMA WritingPlans == \A op \in Writers : WritingPlan(RequestsOf(op))
<1> SUFFICES ASSUME NEW op \in Writers PROVE WritingPlan(RequestsOf(op))
  OBVIOUS
<1> USE DEF Empty
<1>1. op[1] = "write" /\ op[2] # "run_active_response_on_group" /\ op \in WriteTools
  BY DEF Writers, WriteTools, Tool
<1>2. RequestsOf(op) = WriteRequests(op)
  <2>1. /\ op \notin AgentTools /\ op \notin MitreTools /\ op \notin ClusterTools
        /\ op \notin Resources /\ op \notin Prompts
    BY <1>1 DEF AgentTools, MitreTools, ClusterTools, Resources, Prompts, Tool
  <2> QED BY <1>1, <2>1 DEF RequestsOf
<1>3. WritingPlan(<<Put>>)
  <2> DEFINE p == <<Put>>
  <2>1. GoodPlan(p) /\ Len(p) = 1 /\ p[1] = Put
    BY OneRequest, Requests
  <2>2. WritingPlan(p)
    <3> HIDE DEF p
    <3>1. \A i \in 1..Len(p) : i = 1
      BY <2>1
    <3> QED BY <2>1, <3>1, Requests DEF WritingPlan
  <2> QED BY <2>2
<1>4. ASSUME NEW e \in {"skip", "error"}
      PROVE WritingPlan(Append(<<Get(TRUE, e), Get(TRUE, "next")>>, Put))
  <2> DEFINE p == <<Get(TRUE, e), Get(TRUE, "next"), Put>>
  <2>1. GoodPlan(p)
    BY ThreeRequests, Requests
  <2>2. Len(p) = 3 /\ p[1] = Get(TRUE, e) /\ p[2] = Get(TRUE, "next") /\ p[3] = Put
    OBVIOUS
  <2>3. WritingPlan(p)
    <3> HIDE DEF p
    <3>1. \A i \in 1..Len(p) : i = 1 \/ i = 2 \/ i = 3
      BY <2>2
    <3>2. /\ p[1].must /\ p[1].empty = e /\ p[2].must /\ p[2].empty = "next"
          /\ p[3].must /\ p[3].empty = "next" /\ p[3].writes
      BY <2>2, Requests
    <3>3. \A i \in 1..Len(p) : p[i].must
      BY <3>1, <3>2
    <3>4. \A i \in 1..Len(p) : p[i].empty # "done"
      BY <3>1, <3>2
    <3>5. \A i \in 1..Len(p) : p[i].empty = "skip" => i + 2 <= Len(p)
      <4>1. \A i \in 1..Len(p) : p[i].empty = "skip" => i = 1
        BY <3>1, <3>2
      <4> QED BY <2>2, <4>1
    <3>6. p[Len(p)].writes
      BY <2>2, <3>2
    <3> QED BY <2>1, <3>3, <3>4, <3>5, <3>6 DEF WritingPlan
  <2> QED BY <2>3, Appended
<1>5. \A x : WritingPlan(RestartRequests(x))
  BY <1>4 DEF RestartRequests, StatusRequests
<1> QED BY <1>1, <1>2, <1>3, <1>5 DEF WriteRequests, ResponseRequests, RuleRequests, AgentWriteRequests
-----------------------------------------------------------------------------
(* The inductive invariant.                                                *)

USE UpstreamAssumption

\* A call by the record it keeps: its plan and the request it is at.
PlanOf(r) == RequestsOf(r.op)
At(r)     == PlanOf(r)[r.next]

\* A call acquires its pools in order and the last one is missing until it is
\* ready; it is replaying only from a 401 to the end of that request.
Acquiring(r) ==
    /\ r.next \in 1..Len(PlanOf(r))
    /\ r.phase \in {"pool", "secrets"} =>
         LET pools == PoolsOf(r.op) IN r.client[pools[Len(pools)]] = 0
    /\ r.phase \in {"pool", "secrets", "ready"} => ~r.retried
    /\ r.phase = "force" => r.retried

\* The write of a plan is its last request, and every way to a successful end
\* of a write tool leads through it: nothing is applied before it is carried
\* out, and nothing is sent after that.
Applying(r) ==
    /\ r.phase \notin Ends \cup {"taken"} => r.applied = 0
    /\ r.phase = "taken" => r.applied = IF At(r).writes THEN 1 ELSE 0
    /\ r.applied <= 1
    /\ r.phase = "ok" /\ r.op \in Writers => r.applied = 1

\* A token on the wire was still fresh, or just minted, when it was sent.
Timely(r) ==
    /\ r.phase = "sent" /\ At(r).api = "server"
         => r.token.age <= RefreshAt - 1 + MaxLatency + r.waited
    /\ r.phase = "refused" => r.token.revoked

CallInv(r) == r \in CallState /\ Acquiring(r) /\ Applying(r) /\ Timely(r)

\* A pool that has an open client is not being filled, and one that is being
\* filled is neither shut nor filled by a second caller.
PoolInv ==
    /\ pool \in [Apis -> [built : 0..2, closed : 0..1,
                          holder : Calls \cup {Nobody}, shut : BOOLEAN]]
    /\ \A a \in Apis :
         /\ pool[a].closed <= pool[a].built /\ pool[a].built <= pool[a].closed + 1
         /\ pool[a].holder # Nobody => ~IsOpen(a) /\ ~pool[a].shut
    /\ IF pool["server"].shut THEN ~IsOpen("server") ELSE pool["server"].closed = 0
    /\ \A a \in Apis, c \in Calls :
         pool[a].holder = c <=> In(c, "secrets") /\ Wanted(c) = a

\* The client believes a token to be younger than it is by no more than the
\* time its mint took; only the holder of the lock mints, and unless it was
\* sent there by a 401 it finds no fresh token.
TokenInv ==
    /\ token \in Token /\ token.age <= token.consumed + MaxLatency
    /\ jwtLock \in Calls \cup {Nobody}
    /\ \A c \in Calls : In(c, "mint") <=> jwtLock = c
    /\ \A c \in Calls : In(c, "mint") /\ ~call[c].retried => ~Fresh

\* The calls whose refusal still entitles them to a forced mint.
Owes(r) ==
    \/ r.phase = "refused" /\ ~r.retried
    \/ r.phase = "force"
    \/ r.phase = "mint" /\ r.retried
Owed == {c \in Calls : Owes(call[c])}

CreditInv == credit \in Int /\ credit >= Cardinality(Owed)

IInv ==
    /\ call \in [Calls -> CallState] /\ \A c \in Calls : CallInv(call[c])
    /\ revocations \in 0..MaxRevocations
    /\ PoolInv
    /\ TokenInv
    /\ CreditInv
-----------------------------------------------------------------------------
(* What a step may do to a call.                                           *)

LEMMA PoolsInOrder ==
    ASSUME NEW c \in Calls
    PROVE  /\ Wanted(c) \in Apis /\ LastOf(c) \in Apis
           /\ \A d : Wanted(d) \in Apis
<1>1. \A op : PoolsOf(op) \in {<<"indexer">>, <<"server">>, <<"indexer", "server">>}
  BY DEF PoolsOf
<1>2. \A a, b : /\ Head(<<a>>) = a /\ <<a>>[Len(<<a>>)] = a
                /\ Head(<<a, b>>) = a /\ <<a, b>>[Len(<<a, b>>)] = b
  OBVIOUS
<1>3. \A op : Head(PoolsOf(op)) \in Apis /\ PoolsOf(op)[Len(PoolsOf(op))] \in Apis
  <2> TAKE op
  <2>1. CASE PoolsOf(op) = <<"indexer">>            BY <2>1, <1>2 DEF Apis
  <2>2. CASE PoolsOf(op) = <<"server">>             BY <2>2, <1>2 DEF Apis
  <2>3. CASE PoolsOf(op) = <<"indexer", "server">>  BY <2>3, <1>2 DEF Apis
  <2> QED BY <1>1, <2>1, <2>2, <2>3
<1> QED BY <1>3 DEF Wanted, LastOf, Pools

LEMMA Moves ==
    ASSUME call \in [Calls -> CallState], NEW c \in Calls, NEW r \in CallState,
           Becomes(c, r)
    PROVE  /\ call' \in [Calls -> CallState]
           /\ call'[c] = r
           /\ \A d \in Calls \ {c} : call'[d] = call[d]
BY DEF Becomes

Phase == {"pool", "secrets", "ready", "force"} \cup Network \cup Ends

LEMMA MovedType ==
    ASSUME call \in [Calls -> CallState], NEW c \in Calls, NEW phase \in Phase
    PROVE  /\ Moved(c, phase) \in CallState
           /\ Moved(c, phase).op = call[c].op
           /\ Moved(c, phase).phase = phase
           /\ Moved(c, phase).client = call[c].client
           /\ Moved(c, phase).next = call[c].next
           /\ Moved(c, phase).retried = call[c].retried
           /\ Moved(c, phase).token = UsedUp
           /\ Moved(c, phase).applied = call[c].applied
<1>1. UsedUp \in Token
  BY DEF UsedUp, Token
<1>2. 0 \in 0..MaxLatency
  OBVIOUS
<1> QED BY <1>1, <1>2 DEF Moved, CallState, Phase

LEMMA EndedType ==
    ASSUME call \in [Calls -> CallState], NEW c \in Calls, NEW how \in Ends
    PROVE  LET r == [Moved(c, how) EXCEPT !.retried = FALSE, !.next = 1,
                                          !.client = NoClients] IN
           /\ r \in CallState
           /\ r.op = call[c].op /\ r.phase = how /\ r.next = 1
           /\ r.applied = call[c].applied
<1>1. NoClients \in [Apis -> 0..2] /\ how \in Phase /\ 1 \in 1..3
  BY DEF NoClients, Phase
<1> DEFINE m == Moved(c, how)
<1>2. /\ m \in CallState /\ m.op = call[c].op /\ m.phase = how
      /\ m.applied = call[c].applied
  BY <1>1, MovedType
<1> HIDE DEF m
<1> DEFINE r == [m EXCEPT !.retried = FALSE, !.next = 1, !.client = NoClients]
<1>3. /\ r \in CallState /\ r.op = m.op /\ r.phase = m.phase /\ r.next = 1
      /\ r.applied = m.applied
  BY <1>1, <1>2 DEF CallState
<1> QED BY <1>2, <1>3 DEF m

\* What is owed to the others does not change.
LEMMA OwedMoves ==
    ASSUME call \in [Calls -> CallState], NEW c \in Calls, NEW r \in CallState,
           Becomes(c, r)
    PROVE  /\ Cardinality(Owed) \in Nat /\ Cardinality(Owed') \in Nat
           /\ (Owes(r) => Owes(call[c])) => Cardinality(Owed') <= Cardinality(Owed)
           /\ Cardinality(Owed') <= Cardinality(Owed) + 1
           /\ Owes(call[c]) /\ ~Owes(r) => Cardinality(Owed') = Cardinality(Owed) - 1
<1>1. IsFiniteSet(Owed) /\ Cardinality(Owed) \in Nat
  BY FS_Subset, FS_CardinalityType DEF Owed
<1>2. Owed' = IF Owes(r) THEN Owed \cup {c} ELSE Owed \ {c}
  <2>1. Owed' = {d \in Calls : Owes(call'[d])}
    BY DEF Owed, Owes
  <2> QED BY <2>1, Moves DEF Owed
<1>3. c \in Owed <=> Owes(call[c])
  BY DEF Owed
<1>4. CASE Owes(r)
  <2>1. Cardinality(Owed') = IF c \in Owed THEN Cardinality(Owed) ELSE Cardinality(Owed) + 1
    BY <1>1, <1>2, <1>4, FS_AddElement
  <2> QED BY <1>1, <1>3, <1>4, <2>1
<1>5. CASE ~Owes(r)
  <2>1. Cardinality(Owed') = IF c \in Owed THEN Cardinality(Owed) - 1 ELSE Cardinality(Owed)
    BY <1>1, <1>2, <1>5, FS_RemoveElement
  <2>2. Cardinality(Owed') \in Nat
    BY <1>1, <1>2, <1>5, FS_RemoveElement, FS_CardinalityType
  <2> QED BY <1>1, <1>3, <1>5, <2>1, <2>2
<1> QED BY <1>4, <1>5

\* A step of a call that holds no lock, before it as after it.
LEMMA LocalStep ==
    ASSUME IInv, NEW c \in Calls, NEW r, CallInv(r), r.op = call[c].op, Becomes(c, r),
           call[c].phase \notin {"secrets", "mint"}, r.phase \notin {"secrets", "mint"},
           UNCHANGED <<pool, token, jwtLock, revocations>>,
           \/ credit' = credit /\ (Owes(r) => Owes(call[c]))
           \/ credit' = credit + 1
    PROVE  IInv'
<1> USE DEF IInv
<1>1. /\ call' \in [Calls -> CallState] /\ call'[c] = r
      /\ \A d \in Calls \ {c} : call'[d] = call[d]
  BY Moves DEF CallInv
<1>2. \A d \in Calls : CallInv(call'[d])
  BY <1>1
<1>3. PoolInv'
  <2>1. \A a \in Apis, d \in Calls :
          pool'[a].holder = d <=> In(d, "secrets")' /\ Wanted(d)' = a
    BY <1>1 DEF PoolInv, In, Wanted, LastOf, Pools
  <2> QED BY <2>1 DEF PoolInv, IsOpen
<1>4. TokenInv'
  BY <1>1 DEF TokenInv, In, Fresh
<1>5. CreditInv'
  BY OwedMoves DEF CreditInv, CallInv
<1> QED BY <1>1, <1>2, <1>3, <1>4, <1>5

\* The client that was missing is acquired.
LEMMA Acquires ==
    ASSUME IInv, NEW c \in Calls, call[c].phase \in {"pool", "secrets"},
           NEW k \in 0..2, Acquired(c, k)
    PROVE  \E r : /\ CallInv(r) /\ Becomes(c, r) /\ r.op = call[c].op
                  /\ r.phase \in {"pool", "ready"}
<1> USE DEF IInv
<1> DEFINE after == IF Wanted(c) = LastOf(c) THEN "ready" ELSE "pool"
           r == [Moved(c, after) EXCEPT !.client[Wanted(c)] = k]
<1>1. call[c] \in CallState /\ CallInv(call[c])
  OBVIOUS
<1>2. /\ r \in CallState /\ r.phase = after /\ r.op = call[c].op /\ r.next = call[c].next
      /\ r.retried = call[c].retried /\ r.applied = call[c].applied
      /\ r.client = [call[c].client EXCEPT ![Wanted(c)] = k]
  <2> DEFINE m == Moved(c, after)
  <2>1. /\ m \in CallState /\ m.op = call[c].op /\ m.phase = after
        /\ m.next = call[c].next /\ m.retried = call[c].retried
        /\ m.applied = call[c].applied /\ m.client = call[c].client
    <3>1. after \in Phase
      BY DEF Phase
    <3> QED BY <3>1, MovedType
  <2>2. Wanted(c) \in Apis
    BY PoolsInOrder
  <2> HIDE DEF m, after
  <2>3. /\ [m EXCEPT !.client[Wanted(c)] = k] \in CallState
        /\ [m EXCEPT !.client[Wanted(c)] = k].op = m.op
        /\ [m EXCEPT !.client[Wanted(c)] = k].phase = m.phase
        /\ [m EXCEPT !.client[Wanted(c)] = k].next = m.next
        /\ [m EXCEPT !.client[Wanted(c)] = k].retried = m.retried
        /\ [m EXCEPT !.client[Wanted(c)] = k].applied = m.applied
        /\ [m EXCEPT !.client[Wanted(c)] = k].client = [m.client EXCEPT ![Wanted(c)] = k]
    BY <2>1, <2>2 DEF CallState
  <2> QED BY <2>1, <2>3 DEF m
<1>3. Acquiring(r)
  <2>1. call[c].client \in [Apis -> 0..2]
    BY <1>1 DEF CallState
  <2> HIDE DEF r
  <2>2. r.phase \in {"pool", "ready"} /\ (r.phase = "pool" => Wanted(c) # LastOf(c))
    BY <1>2
  <2>3. r.next \in 1..Len(PlanOf(r)) /\ ~r.retried
    BY <1>1, <1>2 DEF CallInv, Acquiring, PlanOf
  <2>4. r.phase = "pool" => r.client[LastOf(c)] = 0
    BY <1>1, <1>2, <2>1, <2>2, PoolsInOrder DEF CallInv, Acquiring, LastOf, Pools
  <2> QED BY <1>2, <2>2, <2>3, <2>4 DEF Acquiring, LastOf, Pools
<1>4. Applying(r) /\ Timely(r)
  BY <1>1, <1>2 DEF CallInv, Applying, Timely, Ends, Network
<1> QED BY <1>2, <1>3, <1>4 DEF CallInv, Acquired

\* A call ends, after its write or before it, and not as a success.
LEMMA Ending ==
    ASSUME IInv, NEW c \in Calls, NEW how \in {"error", "raw", "cancelled"},
           Ended(c, how)
    PROVE  \E r : /\ CallInv(r) /\ Becomes(c, r) /\ r.op = call[c].op
                  /\ r.phase = how
<1> USE DEF IInv
<1> DEFINE r == [Moved(c, how) EXCEPT !.retried = FALSE, !.next = 1, !.client = NoClients]
<1>1. call[c] \in CallState /\ CallInv(call[c])
  OBVIOUS
<1>2. /\ r \in CallState /\ r.phase = how /\ r.op = call[c].op /\ r.next = 1
      /\ r.applied = call[c].applied
  BY EndedType DEF Ends
<1>3. Acquiring(r)
  <2> HIDE DEF r
  <2>1. Len(PlanOf(r)) \in 1..3
    BY GoodPlans DEF GoodPlan, PlanOf
  <2>2. r.next = 1 /\ 1 \in 1..Len(PlanOf(r))
    <3>1. r.next = 1
      BY <1>2
    <3>2. \A n \in 1..3 : 1 \in 1..n
      OBVIOUS
    <3> QED BY <2>1, <3>1, <3>2
  <2>3. r.phase \notin {"pool", "secrets", "ready", "force"}
    BY <1>2
  <2> QED BY <2>2, <2>3 DEF Acquiring
<1>4. Applying(r) /\ Timely(r)
  BY <1>1, <1>2 DEF CallInv, Applying, Timely, Ends
<1> QED BY <1>2, <1>3, <1>4 DEF CallInv, Ended

LEMMA NextIndex ==
    ASSUME NEW k \in 1..3, NEW i \in 1..k, NEW n, n = i + 1 \/ n = i + 2, n <= k
    PROVE  n \in 1..3 /\ n <= k /\ n > i
<1>1. k \in Int /\ i \in Int /\ 1 <= i /\ k <= 3
  OBVIOUS
<1>2. n \in Int /\ n > i
  BY <1>1
<1> QED BY <1>1, <1>2

\* What follows a request: after one that was carried out, what its answer
\* says; after one that failed, the next unless the error was let through.
LEMMA GoingOn ==
    ASSUME IInv, NEW c \in Calls, NEW what \in Empty, GoOn(c, what),
           \/ In(c, "taken") /\ what \in {"next", Current(c).empty}
           \/ call[c].phase \notin Ends /\ ~Current(c).must /\ what = "next"
    PROVE  \E r : /\ CallInv(r) /\ Becomes(c, r) /\ r.op = call[c].op
                  /\ r.phase \in {"error", "ok", "ready"}
<1> USE DEF IInv
<1> DEFINE n == call[c].next + (IF what = "skip" THEN 2 ELSE 1)
           p == RequestsOf(call[c].op)
<1>1. call[c] \in CallState /\ CallInv(call[c])
  OBVIOUS
<1>2. GoodPlan(p) /\ (call[c].op \in Writers => WritingPlan(p))
  BY GoodPlans, WritingPlans
<1>3. /\ call[c].next \in 1..Len(p) /\ Len(p) \in 1..3 /\ Current(c) = p[call[c].next]
      /\ GoodRequest(Current(c))
      /\ Current(c).writes => call[c].next = Len(p) /\ Current(c).must
  BY <1>1, <1>2 DEF CallInv, Acquiring, PlanOf, GoodPlan, Current, Plan
<1>4. call[c].applied = IF In(c, "taken") /\ Current(c).writes THEN 1 ELSE 0
  BY <1>1 DEF CallInv, Applying, PlanOf, At, Current, Plan, In, Ends
<1>5. CASE what = "error"
  BY <1>5, Ending DEF GoOn
<1>6. CASE what # "error" /\ (what = "done" \/ n > Len(p))
  <2> DEFINE r == [Moved(c, "ok") EXCEPT !.retried = FALSE, !.next = 1, !.client = NoClients]
  <2>1. /\ r \in CallState /\ r.phase = "ok" /\ r.op = call[c].op /\ r.next = 1
        /\ r.applied = call[c].applied
    BY EndedType DEF Ends
  <2>2. Acquiring(r)
    BY <1>3, <2>1 DEF Acquiring, PlanOf
  <2>3. call[c].op \in Writers => In(c, "taken") /\ Current(c).writes
    <3>1. SUFFICES ASSUME call[c].op \in Writers
                   PROVE  In(c, "taken") /\ Current(c).writes
      OBVIOUS
    <3>2. /\ p[Len(p)].writes /\ Current(c).must /\ Current(c).empty # "done"
          /\ Current(c).empty = "skip" => call[c].next + 2 <= Len(p)
      BY <1>2, <1>3, <3>1 DEF WritingPlan
    <3>3. In(c, "taken") /\ what # "done" /\ n > Len(p)
      BY <1>6, <3>2
    <3>4. call[c].next = Len(p)
      BY <1>3, <3>2, <3>3
    <3> QED BY <1>3, <3>2, <3>3, <3>4
  <2>4. Applying(r) /\ Timely(r)
    BY <1>4, <2>1, <2>3 DEF Applying, Timely, Ends
  <2>5. Becomes(c, r)
    BY <1>6 DEF GoOn, Ended, Plan
  <2> QED BY <2>1, <2>2, <2>4, <2>5 DEF CallInv
<1>7. CASE what # "error" /\ what # "done" /\ n <= Len(p)
  <2> DEFINE r == [Moved(c, "ready") EXCEPT !.next = n, !.retried = FALSE]
  <2>1. n \in 1..3 /\ n <= Len(p) /\ n > call[c].next
    <3> HIDE DEF p
    <3>1. call[c].next \in 1..Len(p) /\ Len(p) \in 1..3
      BY <1>3
    <3>2. n = call[c].next + 1 \/ n = call[c].next + 2
      OBVIOUS
    <3>3. n <= Len(p)
      BY <1>7
    <3> HIDE DEF IInv, n
    <3> QED BY <3>1, <3>2, <3>3, NextIndex
  <2>2. /\ r \in CallState /\ r.phase = "ready" /\ r.op = call[c].op /\ r.next = n
        /\ r.applied = call[c].applied /\ ~r.retried
    <3> DEFINE m == Moved(c, "ready")
               q == [m EXCEPT !.next = n, !.retried = FALSE]
    <3>1. /\ m \in CallState /\ m.op = call[c].op /\ m.phase = "ready"
          /\ m.applied = call[c].applied
      <4>1. "ready" \in Phase
        BY DEF Phase
      <4> QED BY <4>1, MovedType
    <3> HIDE DEF m, n
    <3>2. /\ q \in CallState /\ q.op = m.op /\ q.phase = m.phase /\ q.next = n
          /\ q.applied = m.applied /\ q.retried = FALSE
      BY <2>1, <3>1 DEF CallState
    <3> QED BY <3>1, <3>2 DEF m, n
  <2>3. Acquiring(r)
    BY <2>1, <2>2 DEF Acquiring, PlanOf
  <2>4. ~Current(c).writes
    BY <1>3, <2>1
  <2>5. Applying(r) /\ Timely(r)
    BY <1>4, <2>2, <2>4 DEF Applying, Timely, Ends
  <2>6. Becomes(c, r)
    BY <1>3, <1>7 DEF GoOn, Plan
  <2> QED BY <2>2, <2>3, <2>5, <2>6 DEF CallInv
<1> QED
  <2>1. n \in Nat /\ Len(p) \in Nat
    BY <1>3
  <2> QED BY <1>5, <1>6, <1>7, <2>1

\* A WazuhError, let through or caught by the handler.
LEMMA Failing ==
    ASSUME IInv, NEW c \in Calls, call[c].phase \notin Ends, Fails(c)
    PROVE  \E r : /\ CallInv(r) /\ Becomes(c, r) /\ r.op = call[c].op
                  /\ r.phase \in {"error", "ok", "ready"}
<1>1. CASE Current(c).must
  BY <1>1, Ending DEF Fails
<1>2. CASE ~Current(c).must
  BY <1>2, GoingOn DEF Fails, Empty
<1> QED BY <1>1, <1>2
-----------------------------------------------------------------------------
(* One lemma per group of actions.                                         *)

\* Steps that take no lock and hold none: a shared or a shut pool, arguments
\* rejected, a search sent, an answer, an error (the handlers, search(), _request).
LEMMA HandlerStep ==
    ASSUME IInv, NEW c \in Calls,
           \/ AcquireShared(c) \/ AcquireShut(c) \/ RejectArguments(c) \/ Rejects(c)
           \/ Answer(c) \/ TimesOut(c)
    PROVE  IInv'
<1> USE DEF IInv
<1>0. UNCHANGED <<pool, token, jwtLock, revocations, credit>>
  BY DEF AcquireShared, AcquireShut, RejectArguments, Rejects, Answer, TimesOut
<1>1. call[c].phase \notin {"secrets", "mint"} /\ call[c].phase \notin Ends
  BY DEF AcquireShared, AcquireShut, RejectArguments, Rejects, Answer, TimesOut, In, Ends
<1>2. \E r : /\ CallInv(r) /\ Becomes(c, r) /\ r.op = call[c].op
             /\ r.phase \in {"pool", "ready", "raw", "error", "ok"}
  <2>1. CASE AcquireShared(c)
    <3>1. pool[Wanted(c)].built \in 0..2
      BY PoolsInOrder DEF PoolInv
    <3> QED BY <2>1, <3>1, Acquires DEF AcquireShared, In
  <2>2. CASE AcquireShut(c) \/ RejectArguments(c)
    BY <2>2, Ending DEF AcquireShut, RejectArguments
  <2>3. CASE Rejects(c)
    BY <2>3, <1>1, Failing DEF Rejects
  <2>4. CASE Answer(c)
    <3>1. Current(c).empty \in Empty /\ "next" \in Empty
      <4>1. GoodPlan(Plan(c)) /\ call[c].next \in 1..Len(Plan(c))
        BY GoodPlans DEF CallInv, Acquiring, PlanOf, Plan
      <4> QED BY <4>1 DEF GoodPlan, GoodRequest, Current, Empty
    <3> QED BY <2>4, <3>1, GoingOn DEF Answer
  <2>5. CASE TimesOut(c)
    BY <2>5, <1>1, Failing, Ending DEF TimesOut
  <2> QED BY <2>1, <2>2, <2>3, <2>4, <2>5
<1>3. PICK r : /\ CallInv(r) /\ Becomes(c, r) /\ r.op = call[c].op
               /\ r.phase \in {"pool", "ready", "raw", "error", "ok"}
  BY <1>2
<1>4. ~Owes(r) /\ r.phase \notin {"secrets", "mint"}
  BY <1>3 DEF Owes
<1> QED BY <1>0, <1>1, <1>3, <1>4, LocalStep

\* A request is sent with the token in hand or with none (_request, search).
LEMMA SendStep ==
    ASSUME IInv, NEW c \in Calls, SendSearch(c) \/ ReuseToken(c)
    PROVE  IInv'
<1> USE DEF IInv
<1>0. In(c, "ready") /\ UNCHANGED <<pool, token, jwtLock, revocations, credit>>
  BY DEF SendSearch, ReuseToken
<1>1. CASE SendSearch(c)
  <2> DEFINE r == Moved(c, "sent")
  <2>1. /\ r \in CallState /\ r.phase = "sent" /\ r.op = call[c].op
        /\ r.next = call[c].next /\ r.applied = call[c].applied
    BY MovedType DEF Phase, Network
  <2> HIDE DEF r
  <2>2. At(r).api = "indexer"
    BY <1>1, <2>1 DEF SendSearch, Api, Current, Plan, At, PlanOf
  <2>3. CallInv(r) /\ ~Owes(r)
    BY <1>0, <2>1, <2>2 DEF CallInv, Acquiring, Applying, Timely, Owes, PlanOf, Ends, In
  <2>4. Becomes(c, r)
    BY <1>1 DEF SendSearch, r
  <2> QED BY <1>0, <2>1, <2>3, <2>4, LocalStep DEF In
<1>2. CASE ReuseToken(c)
  <2> DEFINE r == [call[c] EXCEPT !.phase = "sent", !.token = token, !.waited = 0]
  <2>1. /\ r \in CallState /\ r.phase = "sent" /\ r.op = call[c].op /\ r.token = token
        /\ r.waited = 0 /\ r.next = call[c].next /\ r.applied = call[c].applied
    <3>1. token \in Token /\ 0 \in 0..MaxLatency /\ call[c] \in CallState
      BY DEF TokenInv
    <3> QED BY <3>1 DEF CallState, Network
  <2> HIDE DEF r
  <2>2. r.token.age <= RefreshAt - 1 + MaxLatency + r.waited
    BY <1>2, <2>1 DEF ReuseToken, Fresh, TokenInv, Token
  <2>3. CallInv(r) /\ ~Owes(r)
    BY <1>0, <2>1, <2>2 DEF CallInv, Acquiring, Applying, Timely, Owes, PlanOf, Ends, In
  <2>4. Becomes(c, r)
    BY <1>2 DEF ReuseToken, Send, Becomes, r
  <2> QED BY <1>0, <2>1, <2>3, <2>4, LocalStep DEF In
<1> QED BY <1>1, <1>2

\* The manager carries a request out, or refuses it with 401; a first 401
\* sends the call to the lock (_request).
LEMMA ManagerStep ==
    ASSUME IInv, NEW c \in Calls, CarriesOut(c) \/ Refuses(c) \/ Replay(c)
    PROVE  IInv'
<1> USE DEF IInv
<1>0. UNCHANGED <<pool, token, jwtLock, revocations>>
  BY DEF CarriesOut, Refuses, Replay
<1>1. CASE CarriesOut(c)
  <2> DEFINE n == call[c].applied + (IF Current(c).writes THEN 1 ELSE 0)
             r == [call[c] EXCEPT !.phase = "taken", !.token = UsedUp, !.applied = n]
  <2>1. call[c].applied = 0 /\ In(c, "sent")
    BY <1>1 DEF CarriesOut, CallInv, Applying, Ends, In
  <2>2. n = (IF Current(c).writes THEN 1 ELSE 0) /\ n \in 0..2
    BY <2>1
  <2>3. /\ r \in CallState /\ r.phase = "taken" /\ r.op = call[c].op
        /\ r.next = call[c].next /\ r.applied = n
    <3>1. UsedUp \in Token
      BY DEF UsedUp, Token
    <3> HIDE DEF n
    <3> QED BY <2>2, <3>1 DEF CallState, Network
  <2>4. Becomes(c, r)
    BY <1>1 DEF CarriesOut, Becomes
  <2> HIDE DEF r
  <2>5. At(r) = Current(c)
    BY <2>3 DEF At, PlanOf, Current, Plan
  <2>6. CallInv(r) /\ ~Owes(r)
    BY <2>1, <2>2, <2>3, <2>5
    DEF CallInv, Acquiring, Applying, Timely, Owes, PlanOf, Ends, In
  <2> QED BY <1>0, <1>1, <2>1, <2>3, <2>4, <2>6, LocalStep DEF CarriesOut, In
<1>2. CASE Refuses(c)
  <2> DEFINE r == [call[c] EXCEPT !.phase = "refused"]
  <2>1. /\ r \in CallState /\ r.phase = "refused" /\ r.op = call[c].op
        /\ r.next = call[c].next /\ r.applied = call[c].applied
        /\ r.token = call[c].token
    BY DEF CallState, Network
  <2> HIDE DEF r
  <2>2. r.token.revoked
    <3>1. call[c].token.age <= RefreshAt - 1 + MaxLatency + call[c].waited
      BY <1>2 DEF Refuses, CallInv, Timely, In, Api, Current, Plan, At, PlanOf
    <3>2. call[c].waited \in 0..MaxLatency /\ call[c].token \in Token
      BY DEF CallState
    <3>3. call[c].token.age < Lifetime
      BY <3>1, <3>2, MarginAssumption DEF Token
    <3> QED BY <1>2, <2>1, <3>3 DEF Refuses, Valid
  <2>3. CallInv(r)
    BY <1>2, <2>1, <2>2 DEF Refuses, CallInv, Acquiring, Applying, Timely, PlanOf, Ends, In
  <2>4. Becomes(c, r) /\ credit' = credit + 1 /\ In(c, "sent")
    BY <1>2 DEF Refuses, Becomes, r
  <2> QED BY <1>0, <2>1, <2>3, <2>4, LocalStep DEF In
<1>3. CASE Replay(c)
  <2>0. In(c, "refused") /\ credit' = credit
    BY <1>3 DEF Replay
  <2>1. CASE call[c].retried
    <3>1. PICK r : /\ CallInv(r) /\ Becomes(c, r) /\ r.op = call[c].op
                   /\ r.phase \in {"error", "ok", "ready"}
      BY <1>3, <2>1, Failing DEF Replay, In, Ends
    <3>2. ~Owes(r) /\ r.phase \notin {"secrets", "mint"}
      BY <3>1 DEF Owes
    <3> QED BY <1>0, <2>0, <3>1, <3>2, LocalStep DEF In
  <2>2. CASE ~call[c].retried
    <3> DEFINE m == Moved(c, "force")
               r == [m EXCEPT !.retried = TRUE]
    <3>1. /\ m \in CallState /\ m.phase = "force" /\ m.op = call[c].op
          /\ m.next = call[c].next /\ m.applied = call[c].applied
      BY MovedType DEF Phase
    <3>2. Becomes(c, r)
      BY <1>3, <2>2 DEF Replay
    <3> HIDE DEF m
    <3>3. /\ r \in CallState /\ r.phase = "force" /\ r.op = call[c].op /\ r.retried
          /\ r.next = call[c].next /\ r.applied = call[c].applied
      BY <3>1 DEF CallState
    <3> HIDE DEF r
    <3>4. CallInv(r)
      BY <2>0, <3>3 DEF CallInv, Acquiring, Applying, Timely, PlanOf, Ends, In
    <3>5. Owes(call[c])
      BY <2>0, <2>2 DEF Owes, In
    <3> QED BY <1>0, <2>0, <3>2, <3>3, <3>4, <3>5, LocalStep DEF In
  <2> QED BY <2>1, <2>2
<1> QED BY <1>1, <1>2, <1>3

\* A pool's first client is fetched, built or not (acquire of both pools).
LEMMA PoolStep ==
    ASSUME IInv, NEW c \in Calls, AcquireFirst(c) \/ BuildClient(c) \/ SecretsFail(c)
    PROVE  IInv'
<1> USE DEF IInv
<1> DEFINE w == Wanted(c)
<1>0. /\ UNCHANGED <<token, jwtLock, revocations, credit>>
      /\ call[c].phase \in {"pool", "secrets"} /\ w \in Apis
  BY PoolsInOrder DEF AcquireFirst, BuildClient, SecretsFail, In
<1>1. PICK r : /\ CallInv(r) /\ Becomes(c, r) /\ r.op = call[c].op
               /\ r.phase \in {"pool", "secrets", "ready", "raw"}
               /\ AcquireFirst(c) <=> r.phase = "secrets"
               /\ r.phase = "secrets" => r.client = call[c].client
  <2>1. CASE AcquireFirst(c)
    <3> DEFINE r == Moved(c, "secrets")
    <3>1. /\ r \in CallState /\ r.phase = "secrets" /\ r.op = call[c].op
          /\ r.next = call[c].next /\ r.applied = call[c].applied
          /\ r.retried = call[c].retried /\ r.client = call[c].client
      BY MovedType DEF Phase
    <3>2. Becomes(c, r)
      BY <2>1 DEF AcquireFirst
    <3> HIDE DEF r
    <3>3. CallInv(r)
      BY <2>1, <3>1 DEF AcquireFirst, CallInv, Acquiring, Applying, Timely, PlanOf, Ends, In
    <3> QED BY <2>1, <3>1, <3>2, <3>3
  <2>2. CASE BuildClient(c)
    <3>1. pool[w].built + 1 \in 0..2 /\ ~AcquireFirst(c)
      BY <1>0, <2>2 DEF BuildClient, AcquireFirst, In, PoolInv, IsOpen
    <3> QED BY <2>2, <3>1, Acquires DEF BuildClient, In
  <2>3. CASE SecretsFail(c)
    BY <2>3, Ending DEF SecretsFail, AcquireFirst, In
  <2> QED BY <2>1, <2>2, <2>3
<1>2. /\ call' \in [Calls -> CallState] /\ call'[c] = r
      /\ \A d \in Calls \ {c} : call'[d] = call[d]
  BY <1>1, Moves DEF CallInv
<1>3. PoolInv'
  <2>1. \A d \in Calls \ {c} :
          /\ call'[d] = call[d] /\ (In(d, "secrets")' <=> In(d, "secrets"))
          /\ Wanted(d)' = Wanted(d)
    BY <1>2 DEF In, Wanted, LastOf, Pools
  <2>2. CASE AcquireFirst(c)
    <3>1. /\ pool' = [pool EXCEPT ![w].holder = c] /\ pool[w].holder = Nobody
          /\ ~IsOpen(w) /\ ~pool[w].shut /\ In(c, "pool")
      BY <2>2 DEF AcquireFirst, LockFree
    <3>2. In(c, "secrets")' /\ Wanted(c)' = w
      BY <1>1, <1>2, <2>2 DEF In, Wanted, LastOf, Pools
    <3>3. \A a \in Apis, d \in Calls :
            pool'[a].holder = d <=> In(d, "secrets")' /\ Wanted(d)' = a
      BY <1>0, <2>1, <3>1, <3>2 DEF PoolInv, In
    <3> HIDE DEF w
    <3> QED BY <1>0, <3>1, <3>3 DEF PoolInv, IsOpen, Apis
  <2>3. CASE BuildClient(c)
    <3>1. /\ pool' = [pool EXCEPT ![w].holder = Nobody, ![w].built = @ + 1]
          /\ In(c, "secrets") /\ pool[w].holder = c /\ ~In(c, "secrets")'
      BY <1>0, <1>1, <1>2, <2>3 DEF BuildClient, AcquireFirst, In, PoolInv
    <3>2. \A a \in Apis, d \in Calls :
            pool'[a].holder = d <=> In(d, "secrets")' /\ Wanted(d)' = a
      BY <1>0, <2>1, <3>1 DEF PoolInv
    <3> HIDE DEF w
    <3>3. /\ pool[w].built = pool[w].closed /\ ~pool[w].shut
          /\ w = "server" => pool[w].closed = 0
      BY <1>0, <3>1 DEF PoolInv, IsOpen
    <3> QED BY <1>0, <3>1, <3>2, <3>3 DEF PoolInv, IsOpen, Apis
  <2>4. CASE SecretsFail(c)
    <3>1. /\ pool' = [pool EXCEPT ![w].holder = Nobody]
          /\ In(c, "secrets") /\ pool[w].holder = c /\ ~In(c, "secrets")'
      BY <1>0, <1>1, <1>2, <2>4 DEF SecretsFail, AcquireFirst, In, PoolInv
    <3>2. \A a \in Apis, d \in Calls :
            pool'[a].holder = d <=> In(d, "secrets")' /\ Wanted(d)' = a
      BY <1>0, <2>1, <3>1 DEF PoolInv
    <3> HIDE DEF w
    <3> QED BY <1>0, <3>1, <3>2 DEF PoolInv, IsOpen, Apis
  <2> QED BY <2>2, <2>3, <2>4
<1>4. TokenInv'
  BY <1>0, <1>1, <1>2 DEF TokenInv, In, Fresh
<1>5. CreditInv'
  <2>1. ~Owes(r)
    BY <1>1 DEF Owes
  <2> QED BY <1>0, <1>1, <2>1, OwedMoves DEF CreditInv, CallInv
<1> QED BY <1>0, <1>1, <1>2, <1>3, <1>4, <1>5

\* The one that finds no fresh token mints, or whose request was refused.
LEMMA MintStep ==
    ASSUME IInv, NEW c \in Calls,
           \/ MintIfAbsent(c) \/ MintByForce(c) \/ Minted(c) \/ MintFails(c)
    PROVE  IInv'
<1> USE DEF IInv
<1>0. UNCHANGED <<pool, revocations>>
  BY DEF MintIfAbsent, MintByForce, StartMint, Minted, MintFails
<1>1. CASE MintIfAbsent(c) \/ MintByForce(c)
  <2> DEFINE r == Moved(c, "mint")
  <2>1. /\ r \in CallState /\ r.phase = "mint" /\ r.op = call[c].op
        /\ r.next = call[c].next /\ r.applied = call[c].applied
        /\ r.retried = call[c].retried
    BY MovedType DEF Phase, Network
  <2>2. /\ Becomes(c, r) /\ jwtLock = Nobody /\ jwtLock' = c
        /\ UNCHANGED <<token, credit>>
        /\ In(c, "force") \/ (In(c, "ready") /\ ~Fresh)
    BY <1>1 DEF MintIfAbsent, MintByForce, StartMint
  <2> HIDE DEF r
  <2>3. CallInv(r)
    BY <2>1, <2>2 DEF CallInv, Acquiring, Applying, Timely, PlanOf, Ends, In
  <2>4. /\ call' \in [Calls -> CallState] /\ call'[c] = r
        /\ \A d \in Calls \ {c} : call'[d] = call[d]
    BY <2>1, <2>2, Moves
  <2>5. PoolInv'
    <3>1. \A a \in Apis, d \in Calls :
            pool'[a].holder = d <=> In(d, "secrets")' /\ Wanted(d)' = a
      BY <1>0, <2>1, <2>2, <2>4 DEF PoolInv, In, Wanted, LastOf, Pools
    <3> QED BY <1>0, <3>1 DEF PoolInv, IsOpen
  <2>6. TokenInv'
    <3>1. \A d \in Calls : ~In(d, "mint")
      BY <2>2 DEF TokenInv
    <3>2. \A d \in Calls : In(d, "mint")' <=> d = c
      BY <2>1, <2>4, <3>1 DEF In
    <3>3. ~call'[c].retried => ~Fresh'
      BY <2>1, <2>2, <2>4 DEF Fresh, CallInv, Acquiring, In, TokenInv
    <3> QED BY <2>2, <3>2, <3>3 DEF TokenInv
  <2>7. CreditInv'
    <3>1. Owes(r) => Owes(call[c])
      BY <2>1, <2>2 DEF Owes, In, CallInv, Acquiring
    <3> QED BY <2>1, <2>2, <3>1, OwedMoves DEF CreditInv
  <2> QED BY <1>0, <2>3, <2>4, <2>5, <2>6, <2>7
<1>2. CASE Minted(c)
  <2>0. /\ In(c, "mint") /\ jwtLock = c /\ jwtLock' = Nobody /\ c # Nobody
        /\ credit' = IF Fresh THEN credit - 1 ELSE credit
    BY <1>2 DEF Minted, TokenInv
  <2>1. PICK age \in 0..call[c].waited, hit \in {FALSE, call[c].token.revoked} :
          token' = [consumed |-> 0, age |-> age, revoked |-> hit] /\ Send(c, token')
    BY <1>2 DEF Minted
  <2>2. /\ call[c].waited \in 0..MaxLatency /\ call[c].token.revoked \in BOOLEAN
        /\ call[c] \in CallState
    BY DEF CallState, Token
  <2>3. /\ token' \in Token /\ token'.consumed = 0 /\ token'.age = age
        /\ age <= MaxLatency
    <3>1. age \in 0..Lifetime /\ age <= MaxLatency /\ hit \in BOOLEAN
      <4>1. MaxLatency <= Lifetime /\ MaxLatency \in Nat /\ Lifetime \in Nat
        BY MarginAssumption
      <4>2. call[c].waited \in Nat /\ call[c].waited <= MaxLatency
        BY <2>2, <4>1
      <4>3. age \in Nat /\ age <= call[c].waited
        BY <2>1, <4>2
      <4>4. hit \in BOOLEAN
        BY <2>2
      <4> QED BY <4>1, <4>2, <4>3, <4>4
    <3> QED BY <2>1, <3>1 DEF Token
  <2> DEFINE r == [call[c] EXCEPT !.phase = "sent", !.token = token', !.waited = 0]
  <2>4. /\ r \in CallState /\ r.phase = "sent" /\ r.op = call[c].op /\ r.token = token'
        /\ r.waited = 0 /\ r.next = call[c].next /\ r.applied = call[c].applied
    <3>1. 0 \in 0..MaxLatency
      OBVIOUS
    <3> QED BY <2>2, <2>3, <3>1 DEF CallState, Network
  <2>5. Becomes(c, r)
    BY <2>1 DEF Send, Becomes
  <2> HIDE DEF r
  <2>6. r.token.age <= RefreshAt - 1 + MaxLatency + r.waited
    BY <2>3, <2>4 DEF Token
  <2>7. CallInv(r) /\ ~Owes(r)
    BY <2>0, <2>4, <2>6 DEF CallInv, Acquiring, Applying, Timely, Owes, PlanOf, Ends, In
  <2>8. /\ call' \in [Calls -> CallState] /\ call'[c] = r
        /\ \A d \in Calls \ {c} : call'[d] = call[d]
    BY <2>4, <2>5, Moves
  <2>9. PoolInv'
    <3>1. \A a \in Apis, d \in Calls :
            pool'[a].holder = d <=> In(d, "secrets")' /\ Wanted(d)' = a
      <4>1. ~In(c, "secrets") /\ ~In(c, "secrets")'
        BY <2>0, <2>4, <2>8 DEF In
      <4>2. \A d \in Calls \ {c} : /\ In(d, "secrets")' <=> In(d, "secrets")
                                   /\ Wanted(d)' = Wanted(d)
        BY <2>8 DEF In, Wanted, LastOf, Pools
      <4> QED BY <1>0, <4>1, <4>2 DEF PoolInv
    <3> QED BY <1>0, <3>1 DEF PoolInv, IsOpen
  <2>10. TokenInv'
    <3>1. \A d \in Calls : ~In(d, "mint")'
      BY <2>0, <2>4, <2>8 DEF TokenInv, In
    <3> QED BY <2>0, <2>3, <3>1 DEF TokenInv
  <2>11. CreditInv'
    <3>1. Fresh => Owes(call[c])
      BY <2>0 DEF TokenInv, Owes, In
    <3>2. /\ Cardinality(Owed) \in Nat /\ Cardinality(Owed') \in Nat
          /\ Cardinality(Owed') <= Cardinality(Owed)
          /\ Owes(call[c]) => Cardinality(Owed') = Cardinality(Owed) - 1
      BY <2>4, <2>5, <2>7, OwedMoves
    <3> QED BY <2>0, <3>1, <3>2 DEF CreditInv
  <2> QED BY <1>0, <2>7, <2>8, <2>9, <2>10, <2>11
<1>3. CASE MintFails(c)
  <2>0. /\ In(c, "mint") /\ jwtLock = c /\ jwtLock' = Nobody /\ c # Nobody
        /\ UNCHANGED <<token, credit>>
    BY <1>3 DEF MintFails, TokenInv
  <2>1. PICK r : /\ CallInv(r) /\ Becomes(c, r) /\ r.op = call[c].op
                 /\ r.phase \in {"error", "ok", "ready"}
    BY <1>3, Failing DEF MintFails, In, Ends
  <2>2. /\ call' \in [Calls -> CallState] /\ call'[c] = r
        /\ \A d \in Calls \ {c} : call'[d] = call[d]
    BY <2>1, Moves DEF CallInv
  <2>3. PoolInv'
    <3>1. \A a \in Apis, d \in Calls :
            pool'[a].holder = d <=> In(d, "secrets")' /\ Wanted(d)' = a
      BY <1>0, <2>0, <2>1, <2>2 DEF PoolInv, In, Wanted, LastOf, Pools
    <3> QED BY <1>0, <3>1 DEF PoolInv, IsOpen
  <2>4. TokenInv'
    <3>1. \A d \in Calls : ~In(d, "mint")'
      BY <2>0, <2>1, <2>2 DEF TokenInv, In
    <3> QED BY <2>0, <3>1 DEF TokenInv
  <2>5. CreditInv'
    <3>1. ~Owes(r)
      BY <2>1 DEF Owes
    <3> QED BY <2>0, <2>1, <3>1, OwedMoves DEF CreditInv, CallInv
  <2> QED BY <1>0, <2>1, <2>2, <2>3, <2>4, <2>5
<1> QED BY <1>1, <1>2, <1>3

\* The connection breaks or the caller is cancelled at an await: whatever lock
\* the call holds is given back (async with).
LEMMA EndStep ==
    ASSUME IInv, NEW c \in Calls, Breaks(c) \/ Cancel(c)
    PROVE  IInv'
<1> USE DEF IInv
<1>0. Unlocked(c) /\ UNCHANGED <<token, revocations, credit>>
  BY DEF Breaks, Cancel
<1>1. PICK r : /\ CallInv(r) /\ Becomes(c, r) /\ r.op = call[c].op
               /\ r.phase \in {"raw", "cancelled"}
  BY Ending DEF Breaks, Cancel
<1>2. /\ call' \in [Calls -> CallState] /\ call'[c] = r
      /\ \A d \in Calls \ {c} : call'[d] = call[d]
  BY <1>1, Moves DEF CallInv
<1>3. PoolInv'
  <2>1. ~In(c, "secrets")'
    BY <1>1, <1>2 DEF In
  <2>2. \A d \in Calls \ {c} : /\ In(d, "secrets")' <=> In(d, "secrets")
                               /\ Wanted(d)' = Wanted(d)
    BY <1>2 DEF In, Wanted, LastOf, Pools
  <2>3. \A a \in Apis :
          /\ pool'[a] = IF pool[a].holder = c THEN [pool[a] EXCEPT !.holder = Nobody]
                                              ELSE pool[a]
          /\ pool'[a] \in [built : 0..2, closed : 0..1,
                           holder : Calls \cup {Nobody}, shut : BOOLEAN]
          /\ pool'[a].built = pool[a].built /\ pool'[a].closed = pool[a].closed
          /\ pool'[a].shut = pool[a].shut
          /\ pool'[a].holder = IF pool[a].holder = c THEN Nobody ELSE pool[a].holder
    BY <1>0 DEF Unlocked, PoolInv
  <2>4. pool' \in [Apis -> [built : 0..2, closed : 0..1,
                            holder : Calls \cup {Nobody}, shut : BOOLEAN]]
    BY <1>0, <2>3 DEF Unlocked
  <2>5. \A a \in Apis, d \in Calls :
          pool'[a].holder = d <=> In(d, "secrets")' /\ Wanted(d)' = a
    <3>1. \A a \in Apis : pool'[a].holder # c
      BY <2>3
    <3>2. \A a \in Apis, d \in Calls \ {c} : pool'[a].holder = d <=> pool[a].holder = d
      BY <2>3
    <3> QED BY <2>1, <2>2, <3>1, <3>2 DEF PoolInv
  <2> QED BY <2>3, <2>4, <2>5 DEF PoolInv, IsOpen, Apis
<1>4. TokenInv'
  <2>1. jwtLock' = IF jwtLock = c THEN Nobody ELSE jwtLock
    BY <1>0 DEF Unlocked
  <2>2. ~In(c, "mint")' /\ \A d \in Calls \ {c} : In(d, "mint")' <=> In(d, "mint")
    BY <1>1, <1>2 DEF In
  <2>3. \A d \in Calls : In(d, "mint")' <=> jwtLock' = d
    BY <2>1, <2>2 DEF TokenInv
  <2>4. \A d \in Calls : In(d, "mint")' /\ ~call'[d].retried => ~Fresh'
    BY <1>0, <1>2, <2>2 DEF TokenInv, Fresh
  <2> QED BY <1>0, <2>1, <2>3, <2>4 DEF TokenInv
<1>5. CreditInv'
  <2>1. ~Owes(r)
    BY <1>1 DEF Owes
  <2> QED BY <1>0, <1>1, <2>1, OwedMoves DEF CreditInv, CallInv
<1> QED BY <1>0, <1>1, <1>2, <1>3, <1>4, <1>5

\* The pools are closed (aclose_all of both).
LEMMA CloseStep ==
    ASSUME IInv, CloseIndexerPool \/ CloseServerPool
    PROVE  IInv'
<1> USE DEF IInv
<1>0. UNCHANGED <<call, token, jwtLock, revocations, credit>>
  BY DEF CloseIndexerPool, CloseServerPool
<1>1. PoolInv'
  <2>1. \A d \in Calls, a \in Apis : (In(d, "secrets") /\ Wanted(d) = a)'
                                       <=> In(d, "secrets") /\ Wanted(d) = a
    BY <1>0 DEF In, Wanted, LastOf, Pools
  <2>2. CASE CloseIndexerPool
    BY <2>1, <2>2 DEF CloseIndexerPool, PoolInv, IsOpen, Apis
  <2>3. CASE CloseServerPool
    BY <2>1, <2>3 DEF CloseServerPool, LockFree, PoolInv, IsOpen, Apis
  <2> QED BY <2>2, <2>3
<1>2. Owed' = Owed
  BY <1>0 DEF Owed, Owes
<1>3. CreditInv' /\ TokenInv'
  BY <1>0, <1>2 DEF CreditInv, TokenInv, In, Fresh
<1> QED BY <1>0, <1>1, <1>3

LEMMA OlderToken ==
    ASSUME NEW t \in Token
    PROVE  /\ Older(t) \in Token
           /\ Older(t).revoked = t.revoked
           /\ t.age \in Int /\ Older(t).age \in Int /\ Older(t).age <= t.age + 1
           /\ t.age <= t.consumed + MaxLatency
                => Older(t).age <= Older(t).consumed + MaxLatency
           /\ Older(t).consumed < RefreshAt => t.consumed < RefreshAt
<1>1. ASSUME NEW n \in 0..Lifetime
      PROVE  /\ Saturated(n) \in 0..Lifetime /\ Saturated(n) >= n /\ Saturated(n) <= n + 1
             /\ n < Lifetime => Saturated(n) = n + 1
  BY DEF Saturated
<1>2. t.consumed \in 0..Lifetime /\ t.age \in 0..Lifetime /\ t.revoked \in BOOLEAN
  BY DEF Token
<1>3. /\ Older(t) \in Token /\ Older(t).revoked = t.revoked
      /\ Older(t).age = Saturated(t.age) /\ Older(t).consumed = Saturated(t.consumed)
  BY <1>1, <1>2 DEF Older, Token
<1>4. t.age <= t.consumed + MaxLatency
        => Saturated(t.age) <= Saturated(t.consumed) + MaxLatency
  BY <1>1, <1>2 DEF Saturated
<1> QED BY <1>1, <1>2, <1>3, <1>4

\* The manager revokes its tokens, or time passes: only tokens and times on
\* the network change.
LEMMA OutsideStep ==
    ASSUME IInv, Revoke \/ Tick
    PROVE  IInv'
<1> USE DEF IInv
<1>0. UNCHANGED <<pool, jwtLock, credit>> /\ revocations' \in 0..MaxRevocations
  <2>1. CASE Revoke  BY <2>1 DEF Revoke
  <2>2. CASE Tick    BY <2>2 DEF Tick
  <2> QED BY <2>1, <2>2
<1>1. ASSUME NEW d \in Calls
      PROVE  /\ CallInv(call'[d]) /\ call'[d].phase = call[d].phase
             /\ call'[d].retried = call[d].retried /\ call'[d].op = call[d].op
             /\ call'[d].client = call[d].client
  <2>1. call[d] \in CallState /\ CallInv(call[d]) /\ call[d].token \in Token
        /\ call[d].waited \in 0..MaxLatency
    BY DEF CallState
  <2>2. CASE Revoke /\ call[d].phase \in {"mint", "sent"}
    <3> DEFINE r == [call[d] EXCEPT !.token.revoked = TRUE]
    <3>1. call'[d] = r
      BY <2>2 DEF Revoke
    <3>2. /\ r \in CallState /\ r.phase = call[d].phase /\ r.retried = call[d].retried
          /\ r.op = call[d].op /\ r.client = call[d].client /\ r.next = call[d].next
          /\ r.applied = call[d].applied /\ r.waited = call[d].waited
          /\ r.token.age = call[d].token.age
      BY <2>1 DEF CallState, Token
    <3> HIDE DEF r
    <3>3. CallInv(r)
      BY <2>1, <2>2, <3>2 DEF CallInv, Acquiring, Applying, Timely, PlanOf, At
    <3> QED BY <3>1, <3>2, <3>3
  <2>3. CASE Tick /\ call[d].phase \in Network
    <3> DEFINE r == [call[d] EXCEPT !.waited = @ + 1, !.token = Older(@)]
    <3>1. call'[d] = r /\ call[d].waited < MaxLatency
      BY <2>3 DEF Tick
    <3>2. /\ r \in CallState /\ r.phase = call[d].phase /\ r.retried = call[d].retried
          /\ r.op = call[d].op /\ r.client = call[d].client /\ r.next = call[d].next
          /\ r.applied = call[d].applied /\ r.waited = call[d].waited + 1
          /\ r.token = Older(call[d].token)
      <4>1. call[d].waited + 1 \in 0..MaxLatency /\ Older(call[d].token) \in Token
        BY <2>1, <3>1, OlderToken
      <4> QED BY <2>1, <4>1 DEF CallState
    <3> HIDE DEF r
    <3>3. Timely(r)
      <4>1. /\ r.token.revoked = call[d].token.revoked
            /\ r.token.age <= call[d].token.age + 1
            /\ r.token.age \in Int /\ call[d].token.age \in Int
        BY <2>1, <3>2, OlderToken
      <4>2. At(r) = At(call[d])
        BY <3>2 DEF At, PlanOf
      <4> QED BY <2>1, <3>2, <4>1, <4>2 DEF CallInv, Timely
    <3>4. CallInv(r)
      BY <2>1, <3>2, <3>3 DEF CallInv, Acquiring, Applying, PlanOf, At
    <3> QED BY <3>1, <3>2, <3>4
  <2>4. CASE call'[d] = call[d]
    BY <2>1, <2>4
  <2> QED BY <2>2, <2>3, <2>4 DEF Revoke, Tick
<1>2. call' \in [Calls -> CallState]
  BY <1>1 DEF CallInv, Revoke, Tick
<1>3. PoolInv'
  <2>1. \A d \in Calls, a \in Apis : (In(d, "secrets") /\ Wanted(d) = a)'
                                       <=> In(d, "secrets") /\ Wanted(d) = a
    BY <1>1 DEF In, Wanted, LastOf, Pools
  <2> QED BY <1>0, <2>1 DEF PoolInv, IsOpen
<1>4. TokenInv'
  <2>1. \A d \in Calls : /\ In(d, "mint")' <=> In(d, "mint")
                         /\ call'[d].retried = call[d].retried
    BY <1>1 DEF In
  <2>2. /\ token' \in Token /\ token'.age <= token'.consumed + MaxLatency
        /\ Fresh' => Fresh
    <3>1. CASE Revoke
      BY <3>1 DEF Revoke, TokenInv, Token, Fresh
    <3>2. CASE Tick
      <4>1. token' = Older(token) /\ token \in Token /\ token.age <= token.consumed + MaxLatency
        BY <3>2 DEF Tick, TokenInv
      <4> QED BY <4>1, OlderToken DEF Fresh
    <3> QED BY <3>1, <3>2
  <2> QED BY <1>0, <2>1, <2>2 DEF TokenInv
<1>5. CreditInv'
  <2>1. Owed' = Owed
    BY <1>1 DEF Owed, Owes
  <2> QED BY <1>0, <2>1 DEF CreditInv
<1> QED BY <1>0, <1>1, <1>2, <1>3, <1>4, <1>5
-----------------------------------------------------------------------------
(* The theorems.                                                           *)

LEMMA InvariantInit == Init => IInv
<1> SUFFICES ASSUME Init PROVE IInv
  OBVIOUS
<1>1. ASSUME NEW c \in Calls
      PROVE  /\ CallInv(call[c]) /\ call[c].phase = "pool" /\ ~call[c].retried
  <2>1. PICK op \in Ops : call[c] = NewCall(op)
    BY DEF Init
  <2> DEFINE r == NewCall(op)
  <2>2. UsedUp \in Token /\ NoClients \in [Apis -> 0..2] /\ \A a \in Apis : NoClients[a] = 0
    BY DEF UsedUp, Token, NoClients
  <2>3. /\ r \in CallState /\ r.phase = "pool" /\ r.next = 1 /\ r.retried = FALSE
        /\ r.applied = 0 /\ r.client = NoClients /\ r.op = op
    <3>1. 0 \in 0..MaxLatency
      OBVIOUS
    <3> QED BY <2>2, <3>1 DEF NewCall, CallState
  <2>4. r.client[PoolsOf(op)[Len(PoolsOf(op))]] = 0
    <3>1. PoolsOf(op)[Len(PoolsOf(op))] \in Apis
      BY <2>1, <2>3, PoolsInOrder DEF LastOf, Pools
    <3> QED BY <2>2, <2>3, <3>1
  <2>5. 1 \in 1..Len(PlanOf(r))
    <3>1. Len(PlanOf(r)) \in 1..3
      BY GoodPlans DEF GoodPlan, PlanOf
    <3> QED BY <3>1
  <2> HIDE DEF r
  <2>6. CallInv(r)
    BY <2>3, <2>4, <2>5 DEF CallInv, Acquiring, Applying, Timely, Ends
  <2> QED BY <2>1, <2>3, <2>6 DEF r
<1>2. call \in [Calls -> CallState]
  <2>1. \A c \in Calls : call[c] \in CallState
    BY <1>1 DEF CallInv
  <2> QED BY <2>1 DEF Init
<1>3. PoolInv
  BY <1>1 DEF Init, NewPool, PoolInv, IsOpen, In, Apis
<1>4. TokenInv
  <2>1. UsedUp \in Token /\ UsedUp.age <= UsedUp.consumed + MaxLatency
    BY DEF UsedUp, Token
  <2> QED BY <1>1, <2>1 DEF Init, TokenInv, In
<1>5. CreditInv
  <2>1. Owed = {}
    BY <1>1 DEF Owed, Owes
  <2> QED BY <2>1, FS_EmptySet DEF Init, CreditInv
<1> QED BY <1>1, <1>2, <1>3, <1>4, <1>5 DEF Init, IInv

LEMMA Inductive == IInv /\ [Next]_vars => IInv'
<1> SUFFICES ASSUME IInv, [Next]_vars PROVE IInv'
  OBVIOUS
<1>1. CASE UNCHANGED vars
  BY <1>1 DEF vars, IInv, PoolInv, TokenInv, CreditInv, IsOpen, In, Wanted, LastOf, Pools,
              Fresh, Owed
<1>2. CASE Next
  BY <1>2, HandlerStep, SendStep, ManagerStep, PoolStep, MintStep, EndStep, CloseStep,
     OutsideStep DEF Next, Proceed
<1> QED BY <1>1, <1>2

LEMMA Invariant == Spec => []IInv
BY InvariantInit, Inductive, PTL DEF Spec

\* Calls, pools and tokens stay within their types: no plan runs past its last
\* request, no pool builds more than twice, no write is sent twice.
THEOREM TypeCorrect == Spec => []TypeOK
<1>1. IInv => TypeOK
  BY DEF IInv, PoolInv, TokenInv, TypeOK
<1> QED BY <1>1, Invariant, PTL

\* A write reaches the manager at most once per call, replayed, timed out or
\* aborted, and exactly once if the call reports success, save for a response
\* on a group that may be empty (_request, the handlers of tools/write.py).
THEOREM WritesAreAppliedOnce == Spec => []WritesOnce
<1>1. IInv => WritesOnce
  BY DEF IInv, CallInv, Applying, WritesOnce, In, Writers
<1> QED BY <1>1, Invariant, PTL

\* A token that is refreshed at REFRESH_AT_FRACTION of its lifetime is never
\* refused for its age, if a mint and a request fit into what is left of it
\* (_ensure_jwt).
THEOREM NoExpiredToken == Spec => []RefusedOnlyIfRevoked
<1>1. IInv => RefusedOnlyIfRevoked
  BY DEF IInv, CallInv, Timely, RefusedOnlyIfRevoked, In
<1> QED BY <1>1, Invariant, PTL

\* Every mint that replaces a fresh token is paid for by a refusal, however
\* many calls wait for the lock (_ensure_jwt, _refresh_jwt_force).
THEOREM MintsAreEntitled == Spec => []NoMintStampede
<1>1. IInv => NoMintStampede
  <2> SUFFICES ASSUME IInv PROVE credit >= 0
    BY DEF NoMintStampede
  <2>1. Cardinality(Owed) \in Nat
    BY FS_Subset, FS_CardinalityType DEF Owed
  <2> QED BY <2>1 DEF IInv, CreditInv
<1> QED BY <1>1, Invariant, PTL

\* A pool has at most one client open and a shut one none, whoever was waiting
\* for credentials (acquire and aclose_all of both pools).
THEOREM OneClientPerPool == Spec => []PoolsHoldOneClient
<1>1. IInv => PoolsHoldOneClient
  BY DEF IInv, PoolInv, PoolsHoldOneClient, Apis
<1> QED BY <1>1, Invariant, PTL
=============================================================================
