------------------------------- MODULE ToolCall -------------------------------
(***************************************************************************)
(* A tool call over HTTP: the RBAC hook of server.py, the decorator        *)
(* instrumented_tool of observability/decorators.py, the inner handlers of *)
(* server.py and the write tools of tools/write.py, for concurrent calls   *)
(* that may be cancelled wherever they wait, with the audit emitter and    *)
(* the shutdown of the server.                                             *)
(*                                                                         *)
(* A call waits in four places: in limiter.acquire, for the client of its  *)
(* upstream, for a check made before the request, and for the request.     *)
(* Between two of them it runs without interruption, so an action goes     *)
(* from one wait to the next.                                              *)
(***************************************************************************)
EXTENDS RbacPolicy, AuditEmitter, Sequences

CONSTANTS
    Calls,     \* bound: the calls made
    Requests   \* what may be asked: tenant and role of the session, tool, args

ASSUME RequestsAssumption ==
    Requests \subseteq [tenant : STRING, role : STRING, tool : Seq(STRING),
                        command : STRING, group : STRING,
                        schema : BOOLEAN, valid : BOOLEAN]

VARIABLES
    stage,     \* per call: where it waits
    req,       \* per call: its request
    charged,   \* history, per call: a rate-limit token was consumed for it
    wire,      \* external, per call: its request at Wazuh
    trail      \* history, per call: its audit events and who heard them

callVars == <<stage, req, charged, wire, trail>>
vars == <<emitterVars, callVars>>

NoRequest == [tool |-> <<"none", "none">>]
Waits == {"limiter", "client", "check", "request"}
Outcomes == {"unregistered", "forbidden", "rate_limited", "write.requested",
             "parse_error", "error", "cancelled", "ok"}
Completions == Outcomes \ {"write.requested", "unregistered"}

TypeOK ==
    /\ server \in {"starting", "rollback", "failed", "up", "stopping", "closing", "down"}
    /\ sink \in [Sinks -> {"idle", "running", "stopped"}]
    /\ stage \in [Calls -> Waits \cup {"free", "ended"}]
    /\ req \in [Calls -> Requests \cup {NoRequest}]
    /\ charged \in [Calls -> BOOLEAN]
    /\ wire \in [Calls -> {"none", "sent", "done", "failed"}]
    /\ trail \in [Calls -> Seq([outcome : Outcomes, heard : SUBSET Sinks])]
    /\ \A c \in Calls : Len(trail[c]) <= 2   \* "requested + completion-or-error"

Init ==
    /\ EmitterInit
    /\ stage = [c \in Calls |-> "free"]
    /\ req = [c \in Calls |-> NoRequest]
    /\ charged = [c \in Calls |-> FALSE]
    /\ wire = [c \in Calls |-> "none"]
    /\ trail = [c \in Calls |-> <<>>]
-----------------------------------------------------------------------------
(* Steps of a call.                                                        *)

Event(t, outcome) == [outcome |-> outcome, heard |-> Listeners(t)]

\* audit.emit for a call that returns or raises.
Finish(c, outcome) ==
    /\ trail' = [trail EXCEPT ![c] = Append(@, Event(req[c].tenant, outcome))]
    /\ stage' = [stage EXCEPT ![c] = "ended"]

Quietly(c, next) ==
    /\ stage' = [stage EXCEPT ![c] = next]
    /\ UNCHANGED trail

\* The resolver reports an unregistered tenant, then the hook the denial.
Denial(r) ==
    IF r.tenant \in Tenants
    THEN <<Event(r.tenant, "forbidden")>>
    ELSE <<Event(r.tenant, "unregistered"), Event(r.tenant, "forbidden")>>

\* _rbac_call_tool: a denial is audited here and looks like an unknown tool.  What
\* is allowed goes to FastMCP, which holds the arguments against the schema made
\* from the tool's Args.  The decorator asks the policy again, with the same answer.
Dispatch(c, r) ==
    LET allowed == is_allowed(r.role, r.tool, RbacPolicy(r.tenant)) IN
    /\ server = "up"
    /\ stage[c] = "free"
    /\ req' = [req EXCEPT ![c] = r]
    /\ \/ ~ allowed /\ trail' = [trail EXCEPT ![c] = @ \o Denial(r)]
                    /\ stage' = [stage EXCEPT ![c] = "ended"]
       \/ allowed /\ ~ r.schema /\ Quietly(c, "ended")
       \/ allowed /\ r.schema /\ Quietly(c, "limiter")
    /\ UNCHANGED <<emitterVars, charged, wire>>

\* An inner handler that checks its arguments only.
RefusalArgsOnly(r) == IF r.valid THEN "none" ELSE "parse_error"

\* What the inner handler checks before it first waits: its Args, then
\* _check_write_allowed.
Refusal(r) ==
    IF ~ r.valid THEN "parse_error"
    ELSE IF IsWrite(r.tool) /\ ~ WriteAllowed(r.tenant, r.tool) THEN "forbidden"
    ELSE "none"

Announcement(r) ==
    IF IsWrite(r.tool) THEN <<Event(r.tenant, "write.requested")>> ELSE <<>>

\* acquire() returned: the call is charged, a write announced, the handler called.
Admit(c) ==
    LET announced == trail[c] \o Announcement(req[c])
        refusal   == Refusal(req[c]) IN
    /\ stage[c] = "limiter"
    /\ charged' = [charged EXCEPT ![c] = TRUE]
    /\ \/ /\ refusal = "none"
          /\ trail' = [trail EXCEPT ![c] = announced]
          /\ stage' = [stage EXCEPT ![c] = "client"]
       \/ /\ refusal # "none"
          /\ trail' = [trail EXCEPT ![c] = Append(announced, Event(req[c].tenant, refusal))]
          /\ stage' = [stage EXCEPT ![c] = "ended"]
    /\ UNCHANGED <<emitterVars, req, wire>>

\* acquire() raised rate_limited: by then the tenant's token may be gone.
Limit(c) ==
    /\ stage[c] = "limiter"
    /\ \E b \in BOOLEAN : charged' = [charged EXCEPT ![c] = b]
    /\ Finish(c, "rate_limited")
    /\ UNCHANGED <<emitterVars, req, wire>>

\* acquire() raised anything else, an error reply of Redis or the cancellation of
\* the call: neither is caught around it.
LimiterRaises(c) ==
    /\ stage[c] = "limiter"
    /\ \E b \in BOOLEAN : charged' = [charged EXCEPT ![c] = b]
    /\ Quietly(c, "ended")
    /\ UNCHANGED <<emitterVars, req, wire>>

\* The pool hands out its client.  run_active_response and its group form look
\* their argument up now; restart_manager asks for the cluster's status first.
ClientReady(c) ==
    LET r == req[c] IN
    /\ stage[c] = "client"
    /\ \/ /\ ~ ArAllowed(r.tenant, r.tool, r.command, r.group)
          /\ Finish(c, "forbidden")
          /\ UNCHANGED wire
       \/ /\ ArAllowed(r.tenant, r.tool, r.command, r.group)
          /\ r.tool = RestartManager
          /\ Quietly(c, "check")
          /\ UNCHANGED wire
       \/ /\ ArAllowed(r.tenant, r.tool, r.command, r.group)
          /\ r.tool # RestartManager
          /\ Quietly(c, "request")
          /\ wire' = [wire EXCEPT ![c] = "sent"]
    /\ UNCHANGED <<emitterVars, req, charged>>

\* The manager is up, and clustered if the whole cluster is to be restarted.
CheckPasses(c) ==
    /\ stage[c] = "check"
    /\ Quietly(c, "request")
    /\ wire' = [wire EXCEPT ![c] = "sent"]
    /\ UNCHANGED <<emitterVars, req, charged>>

\* Wazuh carries the request out, or refuses it; also after the call has gone.
Wazuh(c) ==
    /\ wire[c] = "sent"
    /\ \E w \in {"done", "failed"} : wire' = [wire EXCEPT ![c] = w]
    /\ UNCHANGED <<emitterVars, stage, req, charged, trail>>

Succeed(c) ==
    /\ stage[c] = "request" /\ wire[c] = "done"
    /\ Finish(c, "ok")
    /\ UNCHANGED <<emitterVars, req, charged, wire>>

\* The handler raises where it waits: no client, a failed check, an error or a
\* timeout instead of an answer, whatever Wazuh has done.
Fail(c) ==
    /\ stage[c] \in Waits \ {"limiter"}
    /\ Finish(c, "error")
    /\ UNCHANGED <<emitterVars, req, charged, wire>>

\* A cancellation that the decorator does not audit.
CancelSilently(c) ==
    /\ stage[c] \in Waits \ {"limiter"}
    /\ Quietly(c, "ended")
    /\ UNCHANGED <<emitterVars, req, charged, wire>>

\* The client gives up, or the session manager is closed: CancelledError is a
\* BaseException, audited and raised again.
Cancel(c) ==
    /\ stage[c] \in Waits \ {"limiter"}
    /\ Finish(c, "cancelled")
    /\ UNCHANGED <<emitterVars, req, charged, wire>>

\* The session manager has ended its calls.
ShutDown ==
    /\ server = "closing"
    /\ \A c \in Calls : stage[c] \in {"free", "ended"}
    /\ server' = "down"
    /\ UNCHANGED <<sink, callVars>>

Lifespan ==
    \/ StartFails \/ BeginShutdown
    \/ \E s \in Sinks : StartSink(s) \/ RollBack(s) \/ StopSink(s)

CallStep(c) ==
    \/ \E r \in Requests : Dispatch(c, r)
    \/ Admit(c) \/ Limit(c) \/ LimiterRaises(c)
    \/ ClientReady(c) \/ CheckPasses(c) \/ Succeed(c) \/ Fail(c) \/ Cancel(c)
    \/ Wazuh(c)

Next ==
    \/ Lifespan /\ UNCHANGED callVars
    \/ \E c \in Calls : CallStep(c)
    \/ ShutDown

Spec == Init /\ [][Next]_vars
-----------------------------------------------------------------------------
(* Properties.                                                             *)

GoingDown == server \in {"stopping", "closing", "down"}

Mandated(r) ==
    /\ is_allowed(r.role, r.tool, RbacPolicy(r.tenant))
    /\ WriteAllowed(r.tenant, r.tool)
    /\ ArAllowed(r.tenant, r.tool, r.command, r.group)

\* A write request reaches Wazuh only if the role, the tenant's write_allowlist and
\* the allowlist the code looks its argument up in all permit it (for the response on
\* a group that is the group's: see FourGates), and only after its write.requested
\* event, which no sink concerned has missed unless the server was going down.
WritesAreMandated ==
    \A c \in Calls : IsWrite(req[c].tool) /\ wire[c] # "none" =>
        /\ Mandated(req[c])
        /\ trail[c] # <<>> /\ trail[c][1].outcome = "write.requested"
        /\ {s \in Sinks : Owner[s] \in {Global, req[c].tenant}} = trail[c][1].heard
             \/ GoingDown

Completed(c) == {i \in 1..Len(trail[c]) : trail[c][i].outcome \in Completions}

\* The trail of a call says how it ended: no completion event while it waits, one
\* as the last event when it has ended, and "ok" only for what Wazuh has done.  A
\* call that sent a request never ends without it.
TrailTellsTheEnd ==
    \A c \in Calls :
        /\ stage[c] \in Waits => Completed(c) = {}
        /\ stage[c] = "ended" /\ (trail[c] # <<>> \/ wire[c] # "none")
             => Completed(c) = {Len(trail[c])}
        /\ \A i \in Completed(c) : trail[c][i].outcome = "ok" => wire[c] = "done"

\* No sink outlives the emitter's stop() or a start() that failed half-way, and
\* requests are served with every sink started (audit.py, the lifespan of http.py).
SinksFollowServer ==
    /\ server \in {"failed", "closing", "down"} => Started = {}
    /\ server = "up" => Started = Sinks

\* Does not hold.  "Four-gate model: [...] 4. `command_name` in
\* `active_response_allowlist`" (docs/api-reference.md:315, and the tool's own
\* description in server.py): a response runs on a group only if the role, the
\* write_allowlist, the group's allowlist and the command's all permit it.
FourGates ==
    \A c \in Calls : req[c].tool = RunArOnGroup /\ wire[c] # "none" =>
        /\ Mandated(req[c])
        /\ req[c].command \in Config[req[c].tenant].commands

\* Does not hold.  "never lose an audit for a call we charged for"
\* (decorators.py, where the handler's BaseException is caught).
ChargedCallsAudited ==
    \A c \in Calls : stage[c] = "ended" /\ charged[c] => trail[c] # <<>>
=============================================================================
