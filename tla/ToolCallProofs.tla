----------------------------- MODULE ToolCallProofs -----------------------------
(***************************************************************************)
(* Proofs about ToolCall, for any number of calls and sinks, any set of    *)
(* requests and any configuration; and about AlertSearch, what the         *)
(* searching tools return.                                                 *)
(*                                                                         *)
(* Inv is inductive: the state of the lifespan with that of the sinks, and *)
(* per call what holds at each place where it waits.  So is SearchInv: the *)
(* cursor lies between what a walk has brought and what it has left.       *)
(***************************************************************************)
EXTENDS ToolCall, AlertSearch, SequenceTheorems, FiniteSetTheorems, WellFoundedInduction, TLAPS

EventSet == [outcome : Outcomes, heard : SUBSET Sinks]
Serving  == {"up", "stopping", "closing", "down"}
Inside   == {"client", "check", "request"}

Allowed(r) == is_allowed(r.role, r.tool, RbacPolicy(r.tenant))

Announced(c) ==
    IsWrite(req[c].tool) =>
        /\ Len(trail[c]) >= 1
        /\ trail[c][1].outcome = "write.requested"
        /\ trail[c][1].heard = Routed(req[c].tenant) \/ GoingDown

CallInv(c) ==
    /\ stage[c] = "free" => trail[c] = <<>> /\ wire[c] = "none"
    /\ stage[c] # "free" => req[c] \in Requests /\ server \in Serving
    /\ stage[c] = "limiter" => trail[c] = <<>> /\ wire[c] = "none" /\ Allowed(req[c])
    /\ stage[c] \in Inside =>
         /\ Allowed(req[c]) /\ Refusal(req[c]) = "none"
         /\ Completed(c) = {} /\ Len(trail[c]) <= 1
         /\ Announced(c)
    /\ stage[c] \in {"client", "check"} => wire[c] = "none"
    /\ stage[c] = "check" =>
         ArAllowed(req[c].tenant, req[c].tool, req[c].command, req[c].group)
    /\ wire[c] # "none" =>
         /\ stage[c] \in {"request", "ended"}
         /\ Allowed(req[c]) /\ Refusal(req[c]) = "none"
         /\ ArAllowed(req[c].tenant, req[c].tool, req[c].command, req[c].group)
         /\ Announced(c)
    /\ stage[c] = "ended" =>
         (trail[c] = <<>> /\ wire[c] = "none") \/ Completed(c) = {Len(trail[c])}
    /\ \A i \in Completed(c) : trail[c][i].outcome = "ok" => wire[c] = "done"

Inv ==
    /\ TypeOK
    /\ SinksFollowServer
    /\ \A c \in Calls : CallInv(c)
-----------------------------------------------------------------------------
(* Lemmas.                                                                 *)

\* Before the shutdown everyone concerned hears an event.
LEMMA Hearing ==
    ASSUME TypeOK, SinksFollowServer, NEW t, NEW o \in Outcomes
    PROVE  /\ Event(t, o) \in EventSet
           /\ Event(t, o).outcome = o
           /\ server = "up" => Event(t, o).heard = Routed(t)
  BY DEF Event, EventSet, Listeners, Routed, TypeOK, SinksFollowServer, Started

\* Appending a completion event to a trail without one.
LEMMA Finished ==
    ASSUME NEW s \in Seq(EventSet), NEW e \in EventSet,
           {i \in 1..Len(s) : s[i].outcome \in Completions} = {},
           e.outcome \in Completions
    PROVE  /\ Append(s, e) \in Seq(EventSet)
           /\ Len(Append(s, e)) = Len(s) + 1
           /\ \A i \in 1..Len(s) : Append(s, e)[i] = s[i]
           /\ Append(s, e)[Len(s) + 1] = e
           /\ {i \in 1..Len(Append(s, e)) : Append(s, e)[i].outcome \in Completions}
                = {Len(Append(s, e))}
  <1>1. /\ Append(s, e) \in Seq(EventSet)
        /\ Len(Append(s, e)) = Len(s) + 1
        /\ \A i \in 1..Len(s) : Append(s, e)[i] = s[i]
        /\ Append(s, e)[Len(s) + 1] = e
    OBVIOUS
  <1>2. Len(s) \in Nat
    OBVIOUS
  <1>3. \A i \in 1..(Len(s) + 1) :
            Append(s, e)[i].outcome \in Completions <=> i = Len(s) + 1
    <2> SUFFICES ASSUME NEW i \in 1..(Len(s) + 1)
                 PROVE  Append(s, e)[i].outcome \in Completions <=> i = Len(s) + 1
      OBVIOUS
    <2>1. CASE i = Len(s) + 1
      BY <1>1, <2>1
    <2>2. CASE i # Len(s) + 1
      <3>1. i \in 1..Len(s)
        BY <1>2, <2>2
      <3> QED
        BY <1>1, <1>2, <2>2, <3>1
    <2> QED
      BY <2>1, <2>2
  <1> QED
    BY <1>1, <1>2, <1>3

\* A call that does not move keeps its invariant while the lifespan stands still.
LEMMA Others ==
    ASSUME Inv, NEW d \in Calls, UNCHANGED emitterVars,
           stage'[d] = stage[d], req'[d] = req[d], wire'[d] = wire[d],
           trail'[d] = trail[d]
    PROVE  CallInv(d)'
  BY DEF Inv, CallInv, Completed, Announced, GoingDown, emitterVars

\* ... and also while it is going down.
LEMMA LifespanKeepsCalls ==
    ASSUME Inv, Lifespan \/ (server = "closing" /\ server' = "down"), UNCHANGED callVars,
           NEW d \in Calls
    PROVE  CallInv(d)'
  <1>1. server \in Serving => server' \in Serving
    BY DEF Lifespan, StartFails, BeginShutdown, StartSink, RollBack, StopSink, Serving
  <1>2. GoingDown => GoingDown'
    BY DEF Lifespan, StartFails, BeginShutdown, StartSink, RollBack, StopSink, GoingDown
  <1>3. UNCHANGED <<stage, req, wire, trail>>
    BY DEF callVars
  <1> QED
    BY <1>1, <1>2, <1>3 DEF Inv, CallInv, Completed, Announced

\* The lifespan keeps its own invariant.
LEMMA LifespanStep ==
    ASSUME Inv, Lifespan \/ (server = "closing" /\ server' = "down" /\ UNCHANGED sink),
           UNCHANGED callVars
    PROVE  TypeOK' /\ SinksFollowServer'
  <1> USE EmitterAssumption DEF Sinks
  <1>1. TypeOK'
    BY DEF Inv, TypeOK, Lifespan, StartFails, BeginShutdown, StartSink, RollBack, StopSink,
           callVars
  <1>2. CASE StartFails \/ BeginShutdown
    <2>1. Started' = Started
      BY <1>2 DEF StartFails, BeginShutdown, Started
    <2> QED
      BY <1>1, <1>2, <2>1 DEF Inv, TypeOK, SinksFollowServer, StartFails, BeginShutdown
  <1>3. ASSUME NEW s \in Sinks, StartSink(s)
        PROVE  SinksFollowServer'
    BY <1>3 DEF Inv, TypeOK, SinksFollowServer, StartSink, Started
  <1>4. ASSUME NEW s \in Sinks, RollBack(s)
        PROVE  SinksFollowServer'
    BY <1>4 DEF Inv, TypeOK, SinksFollowServer, RollBack, Started
  <1>5. ASSUME NEW s \in Sinks, StopSink(s)
        PROVE  SinksFollowServer'
    BY <1>5 DEF Inv, TypeOK, SinksFollowServer, StopSink, Started
  <1>6. CASE server = "closing" /\ server' = "down" /\ UNCHANGED sink
    BY <1>1, <1>6 DEF Inv, TypeOK, SinksFollowServer, Started
  <1>7. CASE Lifespan
    <2> HIDE DEF Sinks
    <2> QED
      BY <1>1, <1>2, <1>3, <1>4, <1>5, <1>7 DEF Lifespan
  <1> QED
    BY <1>1, <1>6, <1>7

\* A call that ends with a completion event.
LEMMA FinishStep ==
    ASSUME Inv, NEW c \in Calls, NEW o \in Completions,
           stage[c] = "limiter" \/ stage[c] \in Inside,
           o = "ok" => wire[c] = "done",
           Finish(c, o), UNCHANGED <<emitterVars, req, wire>>
    PROVE  /\ CallInv(c)'
           /\ trail' \in [Calls -> Seq(EventSet)]
           /\ \A d \in Calls : Len(trail'[d]) <= 2
  <1> DEFINE e == Event(req[c].tenant, o)
  <1>1. TypeOK /\ SinksFollowServer /\ CallInv(c)
    BY DEF Inv
  <1>2. /\ e \in EventSet
        /\ e.outcome = o
    BY <1>1, Hearing DEF Completions
  <1>3. trail \in [Calls -> Seq(EventSet)] /\ \A d \in Calls : Len(trail[d]) <= 2
    BY <1>1 DEF TypeOK, EventSet
  <1>4. {i \in 1..Len(trail[c]) : trail[c][i].outcome \in Completions} = {}
        /\ Len(trail[c]) <= 1
    BY <1>1 DEF CallInv, Completed
  <1>5. /\ trail' = [trail EXCEPT ![c] = Append(trail[c], e)]
        /\ stage' = [stage EXCEPT ![c] = "ended"]
    BY DEF Finish
  <1> HIDE DEF e
  <1>6. trail'[c] = Append(trail[c], e) /\ \A d \in Calls \ {c} : trail'[d] = trail[d]
    BY <1>3, <1>5
  <1>7. /\ Append(trail[c], e) \in Seq(EventSet)
        /\ Len(Append(trail[c], e)) = Len(trail[c]) + 1
        /\ \A i \in 1..Len(trail[c]) : Append(trail[c], e)[i] = trail[c][i]
        /\ Append(trail[c], e)[Len(trail[c]) + 1] = e
        /\ {i \in 1..Len(Append(trail[c], e)) :
               Append(trail[c], e)[i].outcome \in Completions}
             = {Len(Append(trail[c], e))}
    BY <1>2, <1>3, <1>4, Finished
  <1>8. stage'[c] = "ended"
    BY <1>1, <1>5 DEF TypeOK
  <1>9. Len(trail[c]) \in Nat
    BY <1>3
  <1>10. trail' \in [Calls -> Seq(EventSet)] /\ \A d \in Calls : Len(trail'[d]) <= 2
    BY <1>3, <1>4, <1>5, <1>6, <1>7, <1>9
  <1>11. Completed(c)' = {Len(trail'[c])}
    BY <1>6, <1>7 DEF Completed
  <1>13. Announced(c) => Announced(c)'
    BY <1>6, <1>7, <1>9 DEF Announced, GoingDown, emitterVars
  <1>14. CallInv(c)'
    <2>1. \A i \in Completed(c)' : trail'[c][i].outcome = o
      BY <1>2, <1>6, <1>7, <1>11
    <2> QED
      BY <1>1, <1>8, <1>11, <1>13, <2>1 DEF CallInv, Inside, emitterVars
  <1> QED
    BY <1>10, <1>14
-----------------------------------------------------------------------------
(* One lemma per kind of step.                                             *)

\* The parts of TypeOK that a call's step may disturb.
TypeOfCalls ==
    /\ stage \in [Calls -> Waits \cup {"free", "ended"}]
    /\ req \in [Calls -> Requests \cup {NoRequest}]
    /\ charged \in [Calls -> BOOLEAN]
    /\ wire \in [Calls -> {"none", "sent", "done", "failed"}]
    /\ trail \in [Calls -> Seq(EventSet)]
    /\ \A c \in Calls : Len(trail[c]) <= 2

\* ... which a step that moves one call keeps.
LEMMA CallTyped ==
    ASSUME TypeOK, NEW c \in Calls,
           NEW t \in Seq(EventSet), Len(t) <= 2, trail' = [trail EXCEPT ![c] = t],
           NEW p \in Waits \cup {"free", "ended"}, stage' = [stage EXCEPT ![c] = p],
           req' \in [Calls -> Requests \cup {NoRequest}],
           charged' \in [Calls -> BOOLEAN],
           wire' \in [Calls -> {"none", "sent", "done", "failed"}]
    PROVE  TypeOfCalls'
  <1>1. trail \in [Calls -> Seq(EventSet)] /\ \A d \in Calls : Len(trail[d]) <= 2
    BY DEF TypeOK, EventSet
  <1>2. trail' \in [Calls -> Seq(EventSet)] /\ \A d \in Calls : Len(trail'[d]) <= 2
    BY <1>1
  <1>3. stage' \in [Calls -> Waits \cup {"free", "ended"}]
    BY DEF TypeOK
  <1> QED
    BY <1>2, <1>3 DEF TypeOfCalls, EventSet

LEMMA DispatchStep ==
    ASSUME Inv, NEW c \in Calls, NEW r \in Requests, Dispatch(c, r)
    PROVE  TypeOfCalls' /\ CallInv(c)'
  <1>1. TypeOK /\ SinksFollowServer /\ CallInv(c)
    BY DEF Inv
  <1>2. /\ stage[c] = "free" /\ trail[c] = <<>> /\ wire[c] = "none" /\ server = "up"
        /\ req' = [req EXCEPT ![c] = r]
        /\ UNCHANGED <<emitterVars, charged, wire>>
    BY <1>1 DEF Dispatch, CallInv
  <1>3. /\ req'[c] = r /\ wire'[c] = "none"
        /\ server' \in Serving
        /\ req' \in [Calls -> Requests \cup {NoRequest}]
    BY <1>1, <1>2 DEF TypeOK, Serving, emitterVars
  <1>4. CASE ~ Allowed(r)
    <2>1. /\ trail' = [trail EXCEPT ![c] = trail[c] \o Denial(r)]
          /\ stage' = [stage EXCEPT ![c] = "ended"]
      BY <1>4 DEF Dispatch, Allowed
    <2> DEFINE u == Event(r.tenant, "unregistered")
               f == Event(r.tenant, "forbidden")
    <2>2. /\ u \in EventSet /\ u.outcome = "unregistered"
          /\ f \in EventSet /\ f.outcome = "forbidden"
      BY <1>1, Hearing DEF Outcomes
    <2>3. Denial(r) = <<f>> \/ Denial(r) = <<u, f>>
      BY DEF Denial
    <2> HIDE DEF u, f
    <2>4. Denial(r) \in Seq(EventSet) /\ Len(Denial(r)) <= 2
      <3>1. /\ <<f>> \in Seq(EventSet) /\ <<u, f>> \in Seq(EventSet)
            /\ Len(<<f>>) = 1 /\ Len(<<u, f>>) = 2
        BY <2>2
      <3>2. CASE Denial(r) = <<f>>
        BY <3>1, <3>2
      <3>3. CASE Denial(r) = <<u, f>>
        BY <3>1, <3>3
      <3> QED
        BY <2>3, <3>2, <3>3
    <2>5. trail[c] \o Denial(r) = Denial(r)
      BY <1>2, <2>4
    <2>6. trail'[c] = Denial(r) /\ stage'[c] = "ended"
      BY <1>1, <2>1, <2>5 DEF TypeOK
    <2>7. TypeOfCalls'
      BY <1>1, <1>2, <1>3, <2>1, <2>4, <2>5 DEF TypeOfCalls, TypeOK, EventSet
    <2>8. Completed(c)' = {Len(trail'[c])}
      <3>1. CASE Denial(r) = <<f>>
        BY <2>2, <2>6, <3>1 DEF Completed, Completions, Outcomes
      <3>2. CASE Denial(r) = <<u, f>>
        BY <2>2, <2>6, <3>2 DEF Completed, Completions, Outcomes
      <3> QED
        BY <2>3, <3>1, <3>2
    <2>10. \A i \in Completed(c)' : trail'[c][i].outcome # "ok"
      BY <2>2, <2>3, <2>6, <2>8
    <2>11. CallInv(c)'
      BY <1>2, <1>3, <2>6, <2>8, <2>10 DEF CallInv, Inside
    <2> QED
      BY <2>7, <2>11
  <1>5. CASE Allowed(r)
    <2>1. /\ trail' = trail
          /\ \/ stage' = [stage EXCEPT ![c] = "ended"]
             \/ stage' = [stage EXCEPT ![c] = "limiter"]
      BY <1>5 DEF Dispatch, Allowed, Quietly
    <2>2. TypeOfCalls'
      BY <1>1, <1>2, <1>3, <2>1 DEF TypeOfCalls, TypeOK, EventSet, Waits
    <2>3. stage'[c] \in {"ended", "limiter"} /\ trail'[c] = <<>>
      BY <1>1, <1>2, <2>1 DEF TypeOK
    <2>4. Completed(c)' = {}
      BY <2>3 DEF Completed
    <2>5. CallInv(c)'
      BY <1>3, <1>5, <2>3, <2>4 DEF CallInv, Inside, Allowed
    <2> QED
      BY <2>2, <2>4, <2>5
  <1> QED
    BY <1>4, <1>5

\* acquire() has returned: a write is announced, then accepted or refused.
LEMMA AdmitStep ==
    ASSUME Inv, NEW c \in Calls, Admit(c)
    PROVE  TypeOfCalls' /\ CallInv(c)'
  <1> DEFINE r == req[c]
             a == Event(r.tenant, "write.requested")
             d == Event(r.tenant, Refusal(r))
  <1>1. TypeOK /\ SinksFollowServer /\ CallInv(c)
    BY DEF Inv
  <1>2. /\ stage[c] = "limiter" /\ trail[c] = <<>> /\ wire[c] = "none"
        /\ r \in Requests /\ server \in Serving /\ Allowed(r)
        /\ UNCHANGED <<emitterVars, req, wire>>
        /\ charged' = [charged EXCEPT ![c] = TRUE]
    BY <1>1 DEF Admit, CallInv
  <1>3. Refusal(r) \in {"none", "parse_error", "forbidden"}
    BY DEF Refusal
  <1>4. /\ a \in EventSet /\ a.outcome = "write.requested"
        /\ a.heard = Routed(r.tenant) \/ GoingDown
    BY <1>1, <1>2, Hearing DEF Outcomes, Serving, GoingDown
  <1>5. Refusal(r) # "none" =>
          /\ d \in EventSet /\ d.outcome = Refusal(r)
    BY <1>1, <1>3, Hearing DEF Outcomes
  <1>6. Announcement(r) = IF IsWrite(r.tool) THEN <<a>> ELSE <<>>
    BY DEF Announcement
  <1>7. /\ req'[c] = r /\ wire'[c] = "none"
        /\ server' \in Serving /\ (GoingDown => GoingDown')
    BY <1>2 DEF emitterVars, GoingDown
  <1> HIDE DEF a, d
  <1>8. /\ <<a>> \in Seq(EventSet) /\ <<>> \in Seq(EventSet)
        /\ <<>> \o <<a>> = <<a>> /\ <<>> \o <<>> = <<>>
        /\ Len(<<a>>) = 1 /\ Len(<<>>) = 0 /\ <<a>>[1] = a
    BY <1>4
  <1>9. trail[c] \o Announcement(r) = IF IsWrite(r.tool) THEN <<a>> ELSE <<>>
    BY <1>2, <1>6, <1>8
  <1>10. CASE Refusal(r) = "none"
    <2>1. /\ trail' = [trail EXCEPT ![c] = IF IsWrite(r.tool) THEN <<a>> ELSE <<>>]
          /\ stage' = [stage EXCEPT ![c] = "client"]
      BY <1>9, <1>10 DEF Admit
    <2>2. TypeOfCalls'
      <3>1. /\ (IF IsWrite(r.tool) THEN <<a>> ELSE <<>>) \in Seq(EventSet)
            /\ Len(IF IsWrite(r.tool) THEN <<a>> ELSE <<>>) <= 2
        BY <1>8
      <3>2. /\ req' \in [Calls -> Requests \cup {NoRequest}]
            /\ charged' \in [Calls -> BOOLEAN]
            /\ wire' \in [Calls -> {"none", "sent", "done", "failed"}]
        BY <1>1, <1>2 DEF TypeOK
      <3> QED
        BY <1>1, <2>1, <3>1, <3>2, CallTyped DEF Waits
    <2>3. /\ trail'[c] = (IF IsWrite(r.tool) THEN <<a>> ELSE <<>>)
          /\ stage'[c] = "client"
      BY <1>1, <2>1 DEF TypeOK
    <2>4. Completed(c)' = {} /\ Len(trail'[c]) <= 1
      BY <1>4, <1>7, <1>8, <2>3 DEF Completed, Completions
    <2>5. Announced(c)'
      BY <1>2, <1>4, <1>7, <1>8, <2>3 DEF Announced, GoingDown, Routed
    <2>6. CallInv(c)'
      BY <1>2, <1>7, <1>10, <2>3, <2>4, <2>5 DEF CallInv, Inside, Allowed
    <2> QED
      BY <2>2, <2>4, <2>6
  <1>11. CASE Refusal(r) # "none"
    <2> DEFINE s == IF IsWrite(r.tool) THEN <<a>> ELSE <<>>
    <2>1. /\ trail' = [trail EXCEPT ![c] = Append(s, d)]
          /\ stage' = [stage EXCEPT ![c] = "ended"]
      BY <1>9, <1>11 DEF Admit, d
    <2>2. s \in Seq(EventSet) /\ Len(s) <= 1 /\ Len(s) \in Nat
      BY <1>8
    <2>3. {i \in 1..Len(s) : s[i].outcome \in Completions} = {}
      BY <1>4, <1>8 DEF Completions
    <2>4. d \in EventSet /\ d.outcome \in Completions /\ d.outcome # "ok"
      BY <1>3, <1>5, <1>11 DEF Completions, Outcomes
    <2>5. \A i \in 1..Len(s) : s[i] = a
      BY <1>8
    <2> HIDE DEF s
    <2>6. /\ Append(s, d) \in Seq(EventSet)
          /\ Len(Append(s, d)) = Len(s) + 1
          /\ \A i \in 1..Len(s) : Append(s, d)[i] = s[i]
          /\ Append(s, d)[Len(s) + 1] = d
          /\ {i \in 1..Len(Append(s, d)) : Append(s, d)[i].outcome \in Completions}
               = {Len(Append(s, d))}
      BY <2>2, <2>3, <2>4, Finished
    <2>7. TypeOfCalls'
      <3>1. Append(s, d) \in Seq(EventSet) /\ Len(Append(s, d)) <= 2
        BY <2>2, <2>6
      <3>2. /\ req' \in [Calls -> Requests \cup {NoRequest}]
            /\ charged' \in [Calls -> BOOLEAN]
            /\ wire' \in [Calls -> {"none", "sent", "done", "failed"}]
        BY <1>1, <1>2 DEF TypeOK
      <3> QED
        BY <1>1, <2>1, <3>1, <3>2, CallTyped
    <2>8. trail'[c] = Append(s, d) /\ stage'[c] = "ended"
      BY <1>1, <2>1 DEF TypeOK
    <2>9. Completed(c)' = {Len(trail'[c])} /\ trail'[c][Len(trail'[c])] = d
      BY <2>6, <2>8 DEF Completed
    <2>11. CallInv(c)'
      BY <1>2, <1>7, <2>4, <2>8, <2>9 DEF CallInv, Inside
    <2> QED
      BY <2>7, <2>11
  <1> QED
    BY <1>10, <1>11

\* The ways to end with one event.
LEMMA EndingStep ==
    ASSUME Inv, NEW c \in Calls,
           \/ Limit(c) \/ Succeed(c) \/ Fail(c) \/ Cancel(c)
           \/ ClientReady(c) /\ stage'[c] = "ended"
    PROVE  TypeOfCalls' /\ CallInv(c)'
  <1>1. TypeOK
    BY DEF Inv
  <1>2. /\ UNCHANGED <<emitterVars, req, wire>>
        /\ charged' \in [Calls -> BOOLEAN]
        /\ \E o \in Completions : /\ Finish(c, o)
                                  /\ stage[c] = "limiter" \/ stage[c] \in Inside
                                  /\ o = "ok" => wire[c] = "done"
    <2>1. CASE Limit(c)
      BY <1>1, <2>1 DEF Limit, TypeOK, Completions, Outcomes
    <2>2. CASE Succeed(c) \/ Fail(c) \/ Cancel(c)
      BY <1>1, <2>2 DEF Succeed, Fail, Cancel, TypeOK, Completions, Outcomes, Inside, Waits
    <2>3. CASE ClientReady(c) /\ stage'[c] = "ended"
      <3>1. ~ (Quietly(c, "check") \/ Quietly(c, "request"))
        BY <1>1, <2>3 DEF Quietly, TypeOK
      <3> QED
        BY <1>1, <2>3, <3>1 DEF ClientReady, TypeOK, Completions, Outcomes, Inside
    <2> QED
      BY <2>1, <2>2, <2>3
  <1>3. PICK o \in Completions : /\ Finish(c, o)
                                 /\ stage[c] = "limiter" \/ stage[c] \in Inside
                                 /\ o = "ok" => wire[c] = "done"
    BY <1>2
  <1>4. /\ CallInv(c)'
        /\ trail' \in [Calls -> Seq(EventSet)]
        /\ \A d \in Calls : Len(trail'[d]) <= 2
    BY <1>2, <1>3, FinishStep
  <1>5. stage' \in [Calls -> Waits \cup {"free", "ended"}]
    BY <1>1, <1>3 DEF Finish, TypeOK
  <1> QED
    BY <1>1, <1>2, <1>4, <1>5 DEF TypeOfCalls, TypeOK

\* The steps that emit nothing.
LEMMA QuietStep ==
    ASSUME Inv, NEW c \in Calls,
           \/ LimiterRaises(c) \/ CheckPasses(c) \/ Wazuh(c)
           \/ ClientReady(c) /\ stage'[c] # "ended"
    PROVE  TypeOfCalls' /\ CallInv(c)'
  <1>1. TypeOK /\ CallInv(c)
    BY DEF Inv
  <1>2. UNCHANGED <<emitterVars, req, trail>>
    <2>1. CASE LimiterRaises(c) \/ CheckPasses(c) \/ Wazuh(c)
      BY <2>1 DEF LimiterRaises, CheckPasses, Wazuh, Quietly
    <2>2. CASE ClientReady(c) /\ stage'[c] # "ended"
      <3>1. ~ Finish(c, "forbidden")
        BY <1>1, <2>2 DEF Finish, TypeOK
      <3> QED
        BY <2>2, <3>1 DEF ClientReady, Quietly
    <2> QED
      BY <2>1, <2>2
  <1>3. TypeOfCalls'
    BY <1>1, <1>2 DEF TypeOfCalls, TypeOK, EventSet, LimiterRaises, CheckPasses, Wazuh,
                      ClientReady, Quietly, Finish, Waits
  <1>4. Completed(c)' = Completed(c) /\ (Announced(c) => Announced(c)')
        /\ (server \in Serving => server' \in Serving)
    BY <1>1, <1>2 DEF Completed, Announced, GoingDown, emitterVars
  <1>5. CallInv(c)'
    <2>1. CASE LimiterRaises(c)
      <3>1. stage'[c] = "ended" /\ stage[c] = "limiter" /\ wire' = wire
        BY <1>1, <2>1 DEF LimiterRaises, Quietly, TypeOK
      <3> QED
        BY <1>1, <1>2, <1>4, <3>1 DEF CallInv, Inside, Completed
    <2>2. CASE CheckPasses(c)
      <3>1. /\ stage'[c] = "request" /\ stage[c] = "check"
            /\ wire'[c] = "sent"
        BY <1>1, <2>2 DEF CheckPasses, Quietly, TypeOK
      <3> QED
        BY <1>1, <1>2, <1>4, <3>1 DEF CallInv, Inside
    <2>3. CASE Wazuh(c)
      <3>1. stage' = stage /\ wire[c] = "sent" /\ wire'[c] \in {"done", "failed"}
        BY <1>1, <2>3 DEF Wazuh, TypeOK
      <3> QED
        BY <1>1, <1>2, <1>4, <3>1 DEF CallInv
    <2>4. CASE ClientReady(c) /\ stage'[c] # "ended"
      <3>1. ~ Finish(c, "forbidden")
        BY <1>1, <2>4 DEF Finish, TypeOK
      <3>2. /\ stage[c] = "client"
            /\ ArAllowed(req[c].tenant, req[c].tool, req[c].command, req[c].group)
            /\ \/ stage'[c] = "check" /\ wire' = wire
               \/ stage'[c] = "request" /\ wire'[c] = "sent"
        BY <1>1, <2>4, <3>1 DEF ClientReady, Quietly, TypeOK
      <3> QED
        BY <1>1, <1>2, <1>4, <3>2 DEF CallInv, Inside
    <2> QED
      BY <2>1, <2>2, <2>3, <2>4
  <1> QED
    BY <1>3, <1>4, <1>5
-----------------------------------------------------------------------------
(* The invariant is inductive.                                             *)

LEMMA InitInv == Init => Inv
  <1> SUFFICES ASSUME Init PROVE Inv
    OBVIOUS
  <1>1. TypeOK
    BY DEF Init, EmitterInit, TypeOK, Waits
  <1>2. SinksFollowServer
    BY DEF Init, EmitterInit, SinksFollowServer
  <1>3. ASSUME NEW c \in Calls PROVE CallInv(c)
    BY <1>3 DEF Init, CallInv, Completed, Inside
  <1> QED
    BY <1>1, <1>2, <1>3 DEF Inv

LEMMA CallStepInv ==
    ASSUME Inv, NEW c \in Calls, CallStep(c)
    PROVE  Inv'
  <1>1. TypeOfCalls' /\ CallInv(c)'
    <2>1. CASE \E r \in Requests : Dispatch(c, r)
      BY <2>1, DispatchStep
    <2>2. CASE Admit(c)
      BY <2>2, AdmitStep
    <2>3. CASE Limit(c) \/ Succeed(c) \/ Fail(c) \/ Cancel(c)
      BY <2>3, EndingStep
    <2>4. CASE LimiterRaises(c) \/ CheckPasses(c) \/ Wazuh(c)
      BY <2>4, QuietStep
    <2>5. CASE ClientReady(c)
      BY <2>5, EndingStep, QuietStep
    <2> QED
      BY <2>1, <2>2, <2>3, <2>4, <2>5 DEF CallStep
  <1>2. /\ UNCHANGED emitterVars
        /\ \A d \in Calls \ {c} : /\ stage'[d] = stage[d] /\ req'[d] = req[d]
                                  /\ wire'[d] = wire[d] /\ trail'[d] = trail[d]
    BY DEF Inv, TypeOK, CallStep, Dispatch, Admit, Limit, LimiterRaises, ClientReady,
           CheckPasses, Succeed, Fail, Cancel, Wazuh, Finish, Quietly
  <1>3. \A d \in Calls : CallInv(d)'
    BY <1>1, <1>2, Others
  <1>4. TypeOK' /\ SinksFollowServer'
    BY <1>1, <1>2 DEF Inv, TypeOK, TypeOfCalls, EventSet, SinksFollowServer, Started,
                      emitterVars
  <1> QED
    BY <1>3, <1>4 DEF Inv

LEMMA NextInv == Inv /\ [Next]_vars => Inv'
  <1> SUFFICES ASSUME Inv, [Next]_vars PROVE Inv'
    OBVIOUS
  <1>1. CASE Lifespan /\ UNCHANGED callVars
    BY <1>1, LifespanStep, LifespanKeepsCalls DEF Inv
  <1>2. ASSUME NEW c \in Calls, CallStep(c) PROVE Inv'
    BY <1>2, CallStepInv
  <1>3. CASE ShutDown
    <2>1. server = "closing" /\ server' = "down" /\ UNCHANGED sink /\ UNCHANGED callVars
      BY <1>3 DEF ShutDown, callVars
    <2> QED
      BY <2>1, LifespanStep, LifespanKeepsCalls DEF Inv
  <1>4. CASE UNCHANGED vars
    <2>1. UNCHANGED emitterVars /\ UNCHANGED callVars
      BY <1>4 DEF vars
    <2>2. \A d \in Calls : CallInv(d)'
      BY <2>1, Others DEF callVars
    <2> QED
      BY <2>1, <2>2 DEF Inv, TypeOK, SinksFollowServer, Started, emitterVars, callVars
  <1> QED
    BY <1>1, <1>2, <1>3, <1>4 DEF Next

LEMMA Invariance == Spec => []Inv
  BY InitInv, NextInv, PTL DEF Spec
-----------------------------------------------------------------------------
(* The theorems.                                                           *)

\* The state keeps its type, and no call ever has more than two audit events.
THEOREM TypeCorrect == Spec => []TypeOK
  <1>1. Inv => TypeOK
    BY DEF Inv
  <1> QED
    BY <1>1, Invariance, PTL

\* A write request that reaches Wazuh is one the role, the write allowlist and the
\* allowlist of its arguments permit, announced in the trail before.
THEOREM WritesMandated == Spec => []WritesAreMandated
  <1>1. Inv => WritesAreMandated
    <2> SUFFICES ASSUME Inv, NEW c \in Calls, IsWrite(req[c].tool), wire[c] # "none"
                 PROVE  /\ Mandated(req[c])
                        /\ trail[c] # <<>> /\ trail[c][1].outcome = "write.requested"
                        /\ {s \in Sinks : Owner[s] \in {Global, req[c].tenant}}
                             = trail[c][1].heard \/ GoingDown
      BY DEF WritesAreMandated
    <2>1. CallInv(c)
      BY DEF Inv
    <2>2. Mandated(req[c])
      BY <2>1 DEF CallInv, Mandated, Allowed, Refusal
    <2>3. Announced(c)
      BY <2>1 DEF CallInv
    <2> QED
      BY <2>2, <2>3 DEF Announced, Routed
  <1> QED
    BY <1>1, Invariance, PTL

\* The trail of a call says how it ended, once, and "ok" only for what was done.
THEOREM TrailTells == Spec => []TrailTellsTheEnd
  <1>1. Inv => TrailTellsTheEnd
    <2> SUFFICES ASSUME Inv, NEW c \in Calls
                 PROVE  /\ stage[c] \in Waits => Completed(c) = {}
                        /\ stage[c] = "ended" /\ (trail[c] # <<>> \/ wire[c] # "none")
                             => Completed(c) = {Len(trail[c])}
                        /\ \A i \in Completed(c) :
                              trail[c][i].outcome = "ok" => wire[c] = "done"
      BY DEF TrailTellsTheEnd
    <2>1. CallInv(c)
      BY DEF Inv
    <2>2. stage[c] = "limiter" => Completed(c) = {}
      BY <2>1 DEF CallInv, Completed
    <2> QED
      BY <2>1, <2>2 DEF CallInv, Waits, Inside
  <1> QED
    BY <1>1, Invariance, PTL

\* No sink outlives the emitter, and requests are served with all of them started.
THEOREM SinksFollow == Spec => []SinksFollowServer
  <1>1. Inv => SinksFollowServer
    BY DEF Inv
  <1> QED
    BY <1>1, Invariance, PTL

-----------------------------------------------------------------------------
(* What the searching tools return (AlertSearch).                          *)

\* A document that passes every fragment of a query.
Fits(q, d) == /\ \A g \in q.must : FragmentMatches(g, d)
              /\ \A g \in q.mustNot : ~FragmentMatches(g, d)

\* The query a builder makes of a search asks for what the caller does.
Faithful(q, a, after) ==
    /\ q.after = after /\ q.size = a.size
    /\ q.index = IF IsVuln(a) THEN "vulns" ELSE "alerts"
    /\ IF IsVuln(a) THEN q.lookback = {} ELSE a.range \in Int /\ q.lookback = {a.range}
    /\ \A d \in Documents : Fits(q, d) <=> Asked(a, d)

\* What a builder that does not raise returns.
LEMMA QueryIs ==
    ASSUME NEW condition, NEW q0, NEW q \in If(condition, q0)
    PROVE  condition /\ q = q0
BY DEF If

\* The parts of a query.
LEMMA FieldsOfQuery ==
    ASSUME NEW index, NEW lookback, NEW must, NEW mustNot, NEW size, NEW after
    PROVE  LET q == Query(index, lookback, must, mustNot, size, after)
           IN  /\ q.index = index /\ q.lookback = lookback /\ q.must = must
               /\ q.mustNot = mustNot /\ q.size = size /\ q.after = after
BY DEF Query

\* Fragments, one kind at a time.
LEMMA Fragments ==
    ASSUME NEW d, NEW field, NEW v, NEW vs
    PROVE  /\ FragmentMatches(Term(field, v), d) <=> v \in d.f[field]
           /\ FragmentMatches(Terms(field, vs), d) <=> d.f[field] \cap vs # {}
           /\ FragmentMatches(Exists(field), d) <=> d.f[field] # {}
           /\ FragmentMatches(RangeOf("gte", field, v), d) <=> \E w \in d.f[field] : w >= v
BY DEF FragmentMatches, Term, Terms, Exists, RangeOf

\* A validated size is not clamped.
LEMMA SizeKept == \A a \in Searches : Clamped(a.size) = a.size
BY SearchAssumption, QueryAssumption DEF Clamped

\* A valid time range is a number of ticks.
LEMMA RangeKept == \A n : ValidTimeRange(n) => n \in Int
BY QueryAssumption DEF ValidTimeRange

\* "This severity and all above" is what the caller means by a minimum.
LEMMA SeverityKept ==
    ASSUME NEW d \in Documents, NEW s \in 1..4
    PROVE  (d.f["severity"] \cap (s..4) # {}) <=> (\E v \in d.f["severity"] : v >= s)
BY SearchAssumption

\* The hunt grammar: after a ne has changed sides, each clause holds of the
\* documents the caller means (_build_hunt_dsl).
LEMMA HuntFaithful ==
    ASSUME NEW a, NEW after, NEW q \in BuildHunt(a, after)
    PROVE  /\ q.after = after /\ q.size = a.size /\ q.index = "alerts"
           /\ a.range \in Int /\ q.lookback = {a.range}
           /\ \A d : Fits(q, d) <=> HuntHolds(a, d)
<1> DEFINE must == OfOthers(a.must) \cup OfNe(a.mustNot)
           mustNot == OfNe(a.must) \cup OfOthers(a.mustNot)
<1>1. ValidHunt(a) /\ q = Query("alerts", {a.range}, must, mustNot, a.size, after)
  BY QueryIs DEF BuildHunt
<1>2. a.range \in Int
  BY <1>1, RangeKept DEF ValidHunt
<1>3. q.must = must /\ q.mustNot = mustNot
  BY <1>1, FieldsOfQuery
<1>4. ASSUME NEW d, NEW c, c.op = "ne"
      PROVE  FragmentMatches(Fragment(c), d) <=> ~ClauseHolds(c, d)
  <2>1. Fragment(c) = [kind |-> "term", field |-> c.field, v |-> c.v]
    BY <1>4 DEF Fragment
  <2>2. FragmentMatches(Fragment(c), d) <=> \E v \in d.f[c.field] : v \in c.v
    BY <2>1 DEF FragmentMatches
  <2> QED BY <1>4, <2>2 DEF ClauseHolds
<1>5. ASSUME NEW d, NEW c, c.op # "ne"
      PROVE  FragmentMatches(Fragment(c), d) <=> ClauseHolds(c, d)
  BY <1>5 DEF ClauseHolds
<1>6. ASSUME NEW d PROVE Fits(q, d) <=> HuntHolds(a, d)
  <2>1. (\A g \in must : FragmentMatches(g, d))
        <=> /\ \A c \in a.must : c.op # "ne" => ClauseHolds(c, d)
            /\ \A c \in a.mustNot : c.op = "ne" => ~ClauseHolds(c, d)
    BY <1>4, <1>5 DEF OfOthers, OfNe
  <2>2. (\A g \in mustNot : ~FragmentMatches(g, d))
        <=> /\ \A c \in a.must : c.op = "ne" => ClauseHolds(c, d)
            /\ \A c \in a.mustNot : c.op # "ne" => ~ClauseHolds(c, d)
    BY <1>4, <1>5 DEF OfOthers, OfNe
  <2> QED BY <1>3, <2>1, <2>2 DEF Fits, HuntHolds
<1>7. q.after = after /\ q.size = a.size /\ q.index = "alerts" /\ q.lookback = {a.range}
  <2> HIDE DEF must, mustNot
  <2> QED BY <1>1 DEF Query
<1> QED BY <1>2, <1>6, <1>7

\* A query over the alerts of a time range is faithful if its fragments are.
LEMMA AlertsQuery ==
    ASSUME NEW a \in Searches, ~IsVuln(a), NEW after, NEW must, ValidTimeRange(a.range),
           NEW q, q = Query("alerts", {a.range}, must, {}, Clamped(a.size), after),
           \A d \in Documents : (\A g \in must : FragmentMatches(g, d)) <=> Asked(a, d)
    PROVE  Faithful(q, a, after)
<1>1. /\ q.after = after /\ q.size = a.size /\ q.index = "alerts" /\ q.lookback = {a.range}
      /\ q.must = must /\ q.mustNot = {}
  BY SizeKept DEF Query
<1> QED BY <1>1, RangeKept DEF Faithful, Fits

\* The same of vulnerabilities.
LEMMA VulnsQuery ==
    ASSUME NEW a \in Searches, IsVuln(a), NEW after, NEW must,
           NEW q, q = Query("vulns", {}, must, {}, Clamped(a.size), after),
           \A d \in Documents : (\A g \in must : FragmentMatches(g, d)) <=> Asked(a, d)
    PROVE  Faithful(q, a, after)
<1>1. /\ q.after = after /\ q.size = a.size /\ q.index = "vulns" /\ q.lookback = {}
      /\ q.must = must /\ q.mustNot = {}
  BY SizeKept DEF Query
<1> QED BY <1>1 DEF Faithful, Fits

\* Every builder asks for what its caller does.
LEMMA BuildFaithful ==
    ASSUME NEW a \in Searches, NEW after, NEW q \in Build(a, after)
    PROVE  Faithful(q, a, after)
<1>1. CASE a.tool = "search_alerts"
  <2> DEFINE must == {RangeOf("gte", "rule.level", l) : l \in a.level}
                       \cup {Term("agent.id", i) : i \in a.agent}
  <2>1. ValidTimeRange(a.range)
        /\ q = Query("alerts", {a.range}, must, {}, Clamped(a.size), after)
    BY <1>1, QueryIs DEF Build, BuildSearchAlerts
  <2>2. ASSUME NEW d PROVE (\A g \in must : FragmentMatches(g, d)) <=> Asked(a, d)
    <3>1. Asked(a, d) <=> /\ \A l \in a.level : \E v \in d.f["rule.level"] : v >= l
                          /\ \A i \in a.agent : i \in d.f["agent.id"]
      BY <1>1 DEF Asked
    <3> QED BY <3>1, Fragments
  <2>3. ~IsVuln(a)
    BY <1>1 DEF IsVuln
  <2> HIDE DEF must
  <2> QED BY <2>1, <2>2, <2>3, AlertsQuery
<1>2. CASE a.tool = "alerts_by_agent"
  <2> DEFINE must == {Term("agent.id", a.agent)}
  <2>1. ValidTimeRange(a.range)
        /\ q = Query("alerts", {a.range}, must, {}, Clamped(a.size), after)
    BY <1>2, QueryIs DEF Build, BuildAlertsByAgent
  <2>2. ASSUME NEW d PROVE (\A g \in must : FragmentMatches(g, d)) <=> Asked(a, d)
    <3>1. Asked(a, d) <=> a.agent \in d.f["agent.id"]
      BY <1>2 DEF Asked
    <3> QED BY <3>1, Fragments
  <2>3. ~IsVuln(a)
    BY <1>2 DEF IsVuln
  <2> HIDE DEF must
  <2> QED BY <2>1, <2>2, <2>3, AlertsQuery
<1>3. CASE a.tool = "alerts_by_mitre"
  <2> DEFINE must == {Term("rule.mitre.id", a.technique)}
  <2>1. ValidTimeRange(a.range)
        /\ q = Query("alerts", {a.range}, must, {}, Clamped(a.size), after)
    BY <1>3, QueryIs DEF Build, BuildAlertsByMitre
  <2>2. ASSUME NEW d PROVE (\A g \in must : FragmentMatches(g, d)) <=> Asked(a, d)
    <3>1. Asked(a, d) <=> a.technique \in d.f["rule.mitre.id"]
      BY <1>3 DEF Asked
    <3> QED BY <3>1, Fragments
  <2>3. ~IsVuln(a)
    BY <1>3 DEF IsVuln
  <2> HIDE DEF must
  <2> QED BY <2>1, <2>2, <2>3, AlertsQuery
<1>4. CASE a.tool = "list_vulnerabilities_by_agent"
  <2> DEFINE must == {Term("agent.id", a.agent)} \cup AtLeast(a.severity)
  <2>1. a.severity \subseteq 1..4
        /\ q = Query("vulns", {}, must, {}, Clamped(a.size), after)
    BY <1>4, QueryIs DEF Build, BuildVulnsByAgent
  <2>2. ASSUME NEW d \in Documents
        PROVE  (\A g \in must : FragmentMatches(g, d)) <=> Asked(a, d)
    <3>1. Asked(a, d) <=> /\ a.agent \in d.f["agent.id"]
                          /\ \A s \in a.severity : \E v \in d.f["severity"] : v >= s
      BY <1>4 DEF Asked
    <3>2. (\A g \in AtLeast(a.severity) : FragmentMatches(g, d))
          <=> \A s \in a.severity : \E v \in d.f["severity"] : v >= s
      BY <2>1, Fragments, SeverityKept DEF AtLeast
    <3> QED BY <3>1, <3>2, Fragments
  <2>3. IsVuln(a)
    BY <1>4 DEF IsVuln
  <2> HIDE DEF must
  <2> QED BY <2>1, <2>2, <2>3, VulnsQuery
<1>5. CASE a.tool = "search_vulnerabilities"
  <2> DEFINE must == {Term("cve", c) : c \in a.cve} \cup AtLeast(a.severity)
  <2>1. a.severity \subseteq 1..4
        /\ q = Query("vulns", {}, must, {}, Clamped(a.size), after)
    BY <1>5, QueryIs DEF Build, BuildSearchVulns
  <2>2. ASSUME NEW d \in Documents
        PROVE  (\A g \in must : FragmentMatches(g, d)) <=> Asked(a, d)
    <3>1. Asked(a, d) <=> /\ \A c \in a.cve : c \in d.f["cve"]
                          /\ \A s \in a.severity : \E v \in d.f["severity"] : v >= s
      BY <1>5 DEF Asked
    <3>2. (\A g \in AtLeast(a.severity) : FragmentMatches(g, d))
          <=> \A s \in a.severity : \E v \in d.f["severity"] : v >= s
      BY <2>1, Fragments, SeverityKept DEF AtLeast
    <3> QED BY <3>1, <3>2, Fragments
  <2>3. IsVuln(a)
    BY <1>5 DEF IsVuln
  <2> HIDE DEF must
  <2> QED BY <2>1, <2>2, <2>3, VulnsQuery
<1>6. CASE a.tool = "fim_history_for_path"
  <2> DEFINE must == {Term("syscheck.path", a.path)}
  <2>1. ValidTimeRange(a.range)
        /\ q = Query("alerts", {a.range}, must, {}, Clamped(a.size), after)
    BY <1>6, QueryIs DEF Build, BuildFimHistory
  <2>2. ASSUME NEW d PROVE (\A g \in must : FragmentMatches(g, d)) <=> Asked(a, d)
    <3>1. Asked(a, d) <=> a.path \in d.f["syscheck.path"]
      BY <1>6 DEF Asked
    <3> QED BY <3>1, Fragments
  <2>3. ~IsVuln(a)
    BY <1>6 DEF IsVuln
  <2> HIDE DEF must
  <2> QED BY <2>1, <2>2, <2>3, AlertsQuery
<1>7. CASE a.tool = "fim_changes_by_agent"
  <2> DEFINE must == {Term("agent.id", a.agent), Exists("syscheck.path")}
  <2>1. ValidTimeRange(a.range)
        /\ q = Query("alerts", {a.range}, must, {}, Clamped(a.size), after)
    BY <1>7, QueryIs DEF Build, BuildFimChanges
  <2>2. ASSUME NEW d PROVE (\A g \in must : FragmentMatches(g, d)) <=> Asked(a, d)
    <3>1. Asked(a, d) <=> a.agent \in d.f["agent.id"] /\ d.f["syscheck.path"] # {}
      BY <1>7 DEF Asked
    <3> QED BY <3>1, Fragments
  <2>3. ~IsVuln(a)
    BY <1>7 DEF IsVuln
  <2> HIDE DEF must
  <2> QED BY <2>1, <2>2, <2>3, AlertsQuery
<1>8. CASE a.tool = "hunt_query"
  <2>1. q \in BuildHunt(a, after)
    BY <1>8 DEF Build
  <2>2. ~IsVuln(a) /\ \A d : Asked(a, d) <=> HuntHolds(a, d)
    BY <1>8 DEF IsVuln, Asked
  <2> QED BY <2>1, <2>2, HuntFaithful DEF Faithful
<1>9. CASE a.tool = "pivot_by_ioc"
  <2> DEFINE c == [field |-> PivotField(a.kind), op |-> "eq", v |-> {a.value}]
             h == [range |-> a.range, size |-> a.size, mustNot |-> {}, must |-> {c}]
  <2>1. q \in BuildHunt(h, after)
    BY <1>9 DEF Build, BuildPivot
  <2>2. ~IsVuln(a) /\ \A d : Asked(a, d) <=> a.value \in d.f[PivotField(a.kind)]
    BY <1>9 DEF IsVuln, Asked
  <2>3. ASSUME NEW d PROVE HuntHolds(h, d) <=> a.value \in d.f[PivotField(a.kind)]
    <3>1. Fragment(c) = Term(PivotField(a.kind), a.value) /\ c.op # "ne"
      BY DEF Fragment, Term
    <3>2. ClauseHolds(c, d) <=> a.value \in d.f[PivotField(a.kind)]
      BY <3>1, Fragments DEF ClauseHolds
    <3> HIDE DEF c
    <3> QED BY <3>2 DEF HuntHolds
  <2>4. h.range = a.range /\ h.size = a.size
    OBVIOUS
  <2> HIDE DEF h
  <2>5. /\ q.after = after /\ q.size = a.size /\ q.index = "alerts"
        /\ a.range \in Int /\ q.lookback = {a.range}
        /\ \A d : Fits(q, d) <=> HuntHolds(h, d)
    BY <2>1, <2>4, HuntFaithful
  <2> QED BY <2>2, <2>3, <2>5 DEF Faithful
<1> QED BY <1>1, <1>2, <1>3, <1>4, <1>5, <1>6, <1>7, <1>8, <1>9, SearchAssumption DEF SearchTools

\* A set of points in time has an earliest one.
LEMMA Earliest ==
    ASSUME NEW T \in SUBSET Nat, T # {}
    PROVE  \E x \in T : \A y \in T : x <= y
<1> DEFINE R == OpToRel(<, Nat)
<1>1. PICK x \in T : \A y \in T : <<y, x>> \notin R
  <2>1. IsWellFoundedOn(R, Nat)
    BY NatLessThanWellFounded
  <2> HIDE DEF R
  <2> QED BY <2>1, WFMin, Zenon
<1>2. \A y \in T : ~(y < x)
  BY <1>1 DEF OpToRel
<1> QED BY <1>2

\* next_cursor is the time of the oldest document of the page.
LEMMA CursorIsOldest ==
    ASSUME NEW page \in SUBSET Documents, page # {}
    PROVE  \E t \in Nat : /\ NextCursor(page) = {t} /\ \E d \in page : d.at = t
                         /\ \A d \in page : d.at >= t
<1> DEFINE T == {d.at : d \in page}
<1>1. T \in SUBSET Nat /\ T # {}
  BY SearchAssumption
<1>2. \E x \in T : \A y \in T : x <= y
  BY <1>1, Earliest
<1>3. Least(T) \in T /\ \A y \in T : Least(T) <= y
  BY <1>2 DEF Least
<1>4. NextCursor(page) = {Least(T)}
  BY DEF NextCursor
<1>5. /\ Least(T) \in Nat /\ \E d \in page : d.at = Least(T)
      /\ \A d \in page : d.at >= Least(T)
  BY <1>1, <1>3
<1> QED BY <1>4, <1>5

\* What a page brings: the newest documents behind the cursor, a full page or
\* all of them.
LEMMA PageIs ==
    ASSUME NEW q, q.size \in Nat \ {0}, NEW examined \in SUBSET Documents,
           NEW page \in Pages(q, examined)
    PROVE  /\ page \subseteq examined /\ \A d \in page, t \in q.after : d.at < t
           /\ \A d \in page, e \in examined \ page : (\A t \in q.after : e.at < t) => d.at >= e.at
           /\ Cardinality(page) # q.size =>
                 \A e \in examined : (\A t \in q.after : e.at < t) => e \in page
           /\ page = {} => Cardinality(page) # q.size
<1> DEFINE behind == {d \in examined : \A t \in q.after : d.at < t}
           fill   == IF Cardinality(behind) < q.size THEN Cardinality(behind) ELSE q.size
<1>1. page \subseteq behind /\ Cardinality(page) = fill
      /\ \A d \in page, e \in behind \ page : d.at >= e.at
  BY DEF Pages
<1>2. IsFiniteSet(behind)
  BY SearchAssumption, FS_Subset
<1>3. Cardinality(page) # q.size => page = behind
  BY <1>1, <1>2, FS_Subset, FS_CardinalityType
<1>4. page = {} => Cardinality(page) # q.size
  BY FS_EmptySet
<1> QED BY <1>1, <1>3, <1>4

\* While a walk lasts, what it has not brought is behind its cursor.
Left ==
    \A a \in request : \A d \in Wanted(a) \ seen :
        cut \/ d.at \in edges \/ (walk = "walking" /\ \A t \in cursor : d.at < t)

SearchInv ==
    /\ SearchTypeOK
    /\ walk = "idle" => request = {}
    /\ walk = "walking" => \E t \in Nat : cursor = {t} /\ \A d \in seen : d.at >= t
    /\ \A a \in request : IsVuln(a) \/ a.range \in Int
    /\ NoAlertTwice /\ ReturnedAsAsked /\ Left

\* One page: from the cursor on, nothing again, nothing unasked, nothing left out.
LEMMA FetchKeeps ==
    ASSUME SearchTypeOK, NoAlertTwice, NEW a \in Searches, NEW after, NEW before \in SUBSET Documents,
           \/ after = {} /\ before = {}
           \/ \E t \in Nat : after = {t} /\ \A d \in before : d.at >= t,
           \A d \in before : Asked(a, d),
           Fetch(a, after, before), request' = {a}, present' \subseteq corpus, UNCHANGED env,
           \A d \in Wanted(a)' \ before :
               cut \/ d.at \in edges \/ \A t \in after : d.at < t
    PROVE  SearchInv'
<1>1. PICK q \in Build(a, after) : \E ex \in Examined(q, corpus, now) :
         \E page \in Pages(q, ex) :
           /\ cursor' = NextCursor(page)
           /\ walk' = IF Truncated(a, page) THEN "walking" ELSE "done"
           /\ seen' = before \cup page
           /\ repeated' = (repeated \/ before \cap page # {})
           /\ edges' = IF Truncated(a, page) THEN edges \cup NextCursor(page) ELSE edges
           /\ cut' = (cut \/ ex # Matching(q, corpus, now))
  BY DEF Fetch
<1>2. PICK ex \in Examined(q, corpus, now) : \E page \in Pages(q, ex) :
           /\ cursor' = NextCursor(page)
           /\ walk' = IF Truncated(a, page) THEN "walking" ELSE "done"
           /\ seen' = before \cup page
           /\ repeated' = (repeated \/ before \cap page # {})
           /\ edges' = IF Truncated(a, page) THEN edges \cup NextCursor(page) ELSE edges
           /\ cut' = (cut \/ ex # Matching(q, corpus, now))
  BY <1>1
<1>3. PICK page \in Pages(q, ex) :
           /\ cursor' = NextCursor(page)
           /\ walk' = IF Truncated(a, page) THEN "walking" ELSE "done"
           /\ seen' = before \cup page
           /\ repeated' = (repeated \/ before \cap page # {})
           /\ edges' = IF Truncated(a, page) THEN edges \cup NextCursor(page) ELSE edges
           /\ cut' = (cut \/ ex # Matching(q, corpus, now))
  BY <1>2
<1>4. Faithful(q, a, after)
  BY BuildFaithful
<1>5. corpus \subseteq Documents /\ corpus' = corpus /\ now' = now
  BY DEF SearchTypeOK, env
<1>6. ex \subseteq Matching(q, corpus, now) /\ ex \subseteq Documents
  <2>1. ex \subseteq Matching(q, corpus, now)
    BY DEF Examined
  <2> QED BY <1>5, <2>1 DEF Matching
<1>7. q.after = after /\ q.size = a.size /\ q.size \in Nat \ {0}
  BY <1>4, SearchAssumption DEF Faithful
<1>8. /\ page \subseteq ex /\ \A d \in page, t \in after : d.at < t
      /\ \A d \in page, e \in ex \ page : (\A t \in after : e.at < t) => d.at >= e.at
      /\ ~Truncated(a, page) => \A e \in ex : (\A t \in after : e.at < t) => e \in page
      /\ page = {} => ~Truncated(a, page)
  BY <1>6, <1>7, PageIs DEF Truncated
<1>9. page \in SUBSET Documents /\ \A d \in page : d.at \in Nat /\ Asked(a, d)
  <2>1. \A d \in page : d \in Documents /\ Fits(q, d)
    BY <1>5, <1>6, <1>8 DEF Matching, Fits
  <2> QED BY <2>1, <1>4, SearchAssumption DEF Faithful
<1>10. page # {} => \E t \in Nat : /\ NextCursor(page) = {t} /\ \E d \in page : d.at = t
                                   /\ \A d \in page : d.at >= t
  BY <1>9, CursorIsOldest
<1>11. before \cap page = {} /\ \A d \in before, e \in page : d.at > e.at
  <2>1. \A d \in before : d.at \in Nat
    BY SearchAssumption
  <2>2. CASE before = {}
    BY <2>2
  <2>3. CASE \E t \in Nat : after = {t} /\ \A d \in before : d.at >= t
    <3>1. PICK t \in Nat : after = {t} /\ \A d \in before : d.at >= t
      BY <2>3
    <3>2. \A e \in page : e.at \in Nat /\ e.at < t
      BY <1>8, <1>9, <3>1
    <3>3. \A d \in before, e \in page : d.at > e.at
      BY <2>1, <3>1, <3>2
    <3> QED BY <1>9, <3>3
  <2> QED BY <2>2, <2>3
<1>12. SearchTypeOK'
  <2>1. NextCursor(page) \in {{}} \cup {{d.at} : d \in Documents}
    BY <1>9, <1>10 DEF NextCursor
  <2>2. edges' \subseteq {d.at : d \in Documents}
    BY <1>3, <2>1 DEF SearchTypeOK
  <2>3. repeated' \in BOOLEAN /\ cut' \in BOOLEAN /\ walk' \in {"idle", "walking", "done"}
    BY <1>3
  <2> QED BY <1>3, <1>5, <1>9, <2>1, <2>2, <2>3 DEF SearchTypeOK
<1>13. walk' # "idle"
  BY <1>3
<1>14. walk' = "walking" => \E t \in Nat : cursor' = {t} /\ \A d \in seen' : d.at >= t
  <2> SUFFICES ASSUME walk' = "walking"
               PROVE  \E t \in Nat : cursor' = {t} /\ \A d \in seen' : d.at >= t
    OBVIOUS
  <2>1. page # {}
    BY <1>3, <1>8
  <2>2. PICK t \in Nat : /\ NextCursor(page) = {t} /\ \E d \in page : d.at = t
                        /\ \A d \in page : d.at >= t
    BY <1>10, <2>1
  <2>3. \A d \in before : d.at \in Nat /\ d.at >= t
    BY <1>11, <2>2, SearchAssumption
  <2> QED BY <1>3, <2>2, <2>3
<1>15. \A x \in request' : IsVuln(x) \/ x.range \in Int
  BY <1>4 DEF Faithful
<1>16. NoAlertTwice'
  BY <1>3, <1>11 DEF NoAlertTwice
<1>17. ReturnedAsAsked'
  BY <1>3, <1>9 DEF ReturnedAsAsked
<1>18. Left'
  <2> SUFFICES ASSUME NEW d \in Wanted(a)', d \notin seen'
               PROVE  \/ cut' \/ d.at \in edges'
                      \/ (walk' = "walking" /\ \A t \in cursor' : d.at < t)
    BY DEF Left
  <2>1. CASE cut \/ d.at \in edges
    BY <1>3, <2>1
  <2>2. CASE ~cut' /\ \A t \in after : d.at < t
    <3>1. d \in corpus /\ d.index = q.index /\ Asked(a, d) /\ \A n \in q.lookback : d.at >= now - n
      BY <1>4, <1>5 DEF Wanted, Faithful
    <3>2. Fits(q, d)
      BY <1>4, <1>5, <3>1 DEF Faithful
    <3>3. d \in ex
      <4>1. ex = Matching(q, corpus, now)
        BY <1>3, <2>2
      <4> QED BY <4>1, <3>1, <3>2 DEF Matching, Fits
    <3>4. d \notin page
      BY <1>3
    <3>5. Truncated(a, page) /\ page # {} /\ \A e \in page : e.at >= d.at
      BY <1>8, <2>2, <3>3, <3>4
    <3>6. PICK t \in Nat : NextCursor(page) = {t} /\ \E e \in page : e.at = t
      BY <1>10, <3>5
    <3>7. d.at \in Nat /\ d.at <= t
      BY <1>5, <3>1, <3>5, <3>6, SearchAssumption
    <3> QED BY <1>3, <3>5, <3>6, <3>7
  <2> QED BY <1>3, <2>1, <2>2
<1> QED BY <1>12, <1>13, <1>14, <1>15, <1>16, <1>17, <1>18 DEF SearchInv

\* Documents that arrive, and time, take nothing from what is left to bring.
LEMMA SearchStep == SearchInv /\ [SearchNext]_searchVars => SearchInv'
<1> SUFFICES ASSUME SearchInv, [SearchNext]_searchVars PROVE SearchInv'
  OBVIOUS
<1>1. ASSUME NEW a \in Searches, FirstPage(a) PROVE SearchInv'
  <2>1. \A d \in Wanted(a)' \ {} : cut \/ d.at \in edges \/ \A t \in {} : d.at < t
    OBVIOUS
  <2>2. request' = {a} /\ present' \subseteq corpus /\ UNCHANGED env /\ Fetch(a, {}, {})
    BY <1>1 DEF FirstPage
  <2>3. SearchTypeOK /\ NoAlertTwice
    BY DEF SearchInv
  <2> DEFINE none == {}
  <2>4. /\ Fetch(a, none, none) /\ none \in SUBSET Documents /\ \A d \in none : Asked(a, d)
        /\ \A d \in Wanted(a)' \ none : cut \/ d.at \in edges \/ \A t \in none : d.at < t
        /\ none = {}
    BY <2>1, <2>2
  <2> HIDE DEF none
  <2> QED BY <2>2, <2>3, <2>4, FetchKeeps
<1>2. ASSUME NEW a \in Searches, FollowCursor(a) PROVE SearchInv'
  <2>1. /\ walk = "walking" /\ a \in request /\ Fetch(a, cursor, seen)
        /\ UNCHANGED env /\ request' = request /\ present' = present
    BY <1>2 DEF FollowCursor
  <2>2. SearchTypeOK /\ NoAlertTwice /\ Left /\ ReturnedAsAsked
        /\ \E t \in Nat : cursor = {t} /\ \A d \in seen : d.at >= t
    BY <2>1 DEF SearchInv
  <2>3. request' = {a} /\ present' \subseteq corpus /\ seen \in SUBSET Documents
    BY <2>1, <2>2 DEF SearchTypeOK
  <2>4. \A d \in seen : Asked(a, d)
    BY <2>1, <2>2 DEF ReturnedAsAsked
  <2>5. \A d \in Wanted(a)' \ seen : cut \/ d.at \in edges \/ \A t \in cursor : d.at < t
    <3>1. Wanted(a)' = Wanted(a)
      BY <2>1 DEF Wanted, env
    <3> QED BY <2>1, <2>2, <3>1 DEF Left
  <2> QED BY <2>1, <2>2, <2>3, <2>4, <2>5, FetchKeeps
<1>3. ASSUME NEW d \in Documents, Index(d) PROVE SearchInv'
  <2>1. SearchTypeOK'
    BY <1>3 DEF Index, SearchInv, SearchTypeOK
  <2> QED BY <1>3, <2>1 DEF Index, SearchInv, NoAlertTwice, ReturnedAsAsked, Left, Wanted
<1>4. CASE Tick
  <2>1. SearchTypeOK' /\ now \in Nat /\ now' = now + 1
    BY <1>4, SearchAssumption DEF Tick, SearchInv, SearchTypeOK
  <2>2. UNCHANGED <<corpus, request, cursor, walk, seen, repeated, present, edges, cut>>
    BY <1>4 DEF Tick
  <2>3. \A a \in request : Wanted(a)' \subseteq Wanted(a)
    <3> SUFFICES ASSUME NEW a \in request, NEW d \in Wanted(a)' PROVE d \in Wanted(a)
      OBVIOUS
    <3>1. d \in present /\ d.at \in Nat /\ (IsVuln(a) \/ a.range \in Int)
      BY <2>2, SearchAssumption DEF SearchInv, SearchTypeOK, Wanted
    <3> QED BY <2>1, <2>2, <3>1 DEF Wanted
  <2>4. Left'
    BY <2>2, <2>3 DEF SearchInv, Left
  <2> QED BY <2>1, <2>2, <2>4 DEF SearchInv, NoAlertTwice, ReturnedAsAsked
<1>5. CASE UNCHANGED searchVars
  <2>1. Left'
    BY <1>5 DEF searchVars, SearchInv, Left, Wanted
  <2> QED BY <1>5, <2>1 DEF searchVars, SearchInv, SearchTypeOK, NoAlertTwice, ReturnedAsAsked
<1> QED BY <1>1, <1>2, <1>3, <1>4, <1>5 DEF SearchNext

\* Nothing is promised before the first page.
LEMMA SearchStart == SearchInit => SearchInv
<1> SUFFICES ASSUME SearchInit PROVE SearchInv
  OBVIOUS
<1>1. SearchTypeOK
  <2>1. 0 \in 0..MaxNow
    BY SearchAssumption
  <2> QED BY <2>1 DEF SearchInit, SearchTypeOK
<1> QED BY <1>1 DEF SearchInit, SearchInv, NoAlertTwice, ReturnedAsAsked, Left

\* No walk through the pages of a search returns a document twice, whatever is
\* indexed meanwhile (next_cursor of the searching tools, search_after).
THEOREM NothingTwice == SearchSpec => []NoAlertTwice
<1>1. SearchInv => NoAlertTwice
  BY DEF SearchInv
<1> QED BY <1>1, SearchStart, SearchStep, PTL DEF SearchSpec

\* What any of the nine tools returns is what its caller asked for (the builders
\* of wazuh/query.py, _build_hunt_dsl).
THEOREM NothingUnasked == SearchSpec => []ReturnedAsAsked
<1>1. SearchInv => ReturnedAsAsked
  BY DEF SearchInv
<1> QED BY <1>1, SearchStart, SearchStep, PTL DEF SearchSpec

\* A walk that has ended misses only documents at the very time of a page's end,
\* or what the indexer did not examine, for any size, corpus and arrivals
\* (next_cursor, truncated, terminate_after).
THEOREM NothingMissed == SearchSpec => []MissedForAReason
<1>1. SearchInv => MissedForAReason
  BY DEF SearchInv, Left, MissedForAReason
<1> QED BY <1>1, SearchStart, SearchStep, PTL DEF SearchSpec
=============================================================================
