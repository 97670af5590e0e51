----------------------------- MODULE AlertQuery -----------------------------
(***************************************************************************)
(* The queries the read tools send to the Wazuh indexer: the builders of   *)
(* wazuh/query.py and the hunt grammar of tools/hunt.py.                   *)
(*                                                                         *)
(* A document is a record [id, index, at, f]: `at` is the time it is       *)
(* sorted by and f gives each field the set of its values, {} when the     *)
(* document does not have the field.  Values are numbers; as in a string,  *)
(* the prefixes of a value are what is left when final digits are dropped. *)
(* An optional argument is a set with at most one element.                 *)
(***************************************************************************)
EXTENDS Integers, FiniteSets

CONSTANTS
    MaxSize,        \* MAX_ALERT_SIZE
    MaxLookback,    \* _MAX_LOOKBACK_SECONDS, in ticks
    MaxClauses,     \* _MAX_CLAUSES
    MaxIn,          \* _MAX_IN_LENGTH
    MinPrefix,      \* _MIN_PREFIX_LENGTH: the least number that long
    TerminateAfter  \* TERMINATE_AFTER

ASSUME QueryAssumption ==
    /\ {MaxSize, MaxLookback, MaxIn, TerminateAfter} \subseteq Nat \ {0}
    /\ {MaxClauses, MinPrefix} \subseteq Nat

FieldAllowlist ==
    {"agent.id", "agent.name", "agent.ip", "rule.id", "rule.level", "rule.groups",
     "rule.mitre.id", "rule.mitre.tactic", "location", "decoder.name", "full_log",
     "data.srcip", "data.dstip", "data.srcuser", "data.dstuser", "data.srcport",
     "data.dstport", "data.url", "data.hostname", "syscheck.path",
     "syscheck.sha256_after", "syscheck.md5_after", "timestamp", "@timestamp"}

(* Fragments of the query DSL.                                              *)
Term(field, v)        == [kind |-> "term", field |-> field, v |-> {v}]
Terms(field, vs)      == [kind |-> "terms", field |-> field, v |-> vs]
RangeOf(op, field, v) == [kind |-> op, field |-> field, v |-> {v}]
Exists(field)         == [kind |-> "exists", field |-> field, v |-> {}]

\* lookback: gte now-<time_range>, or {} for a query over all times.
\* after: search_after, or {}.
Query(index, lookback, must, mustNot, size, after) ==
    [index |-> index, lookback |-> lookback, must |-> must, mustNot |-> mustNot,
     size |-> size, after |-> after]

\* "30d" itself is refused.
ValidTimeRange(ticks) == ticks \in 1..(MaxLookback - 1)

Clamped(size) == IF size < 1 THEN 1 ELSE IF size > MaxSize THEN MaxSize ELSE size

-----------------------------------------------------------------------------
(* wazuh/query.py: one builder per tool.  The guard is a set: {} where the  *)
(* builder raises ValueError, and the query otherwise.                      *)
If(condition, query) == IF condition THEN {query} ELSE {}

BuildSearchAlerts(a, after) ==
    If(ValidTimeRange(a.range) /\ a.level \subseteq 0..15,
       Query("alerts", {a.range},
             {RangeOf("gte", "rule.level", l) : l \in a.level}
               \cup {Term("agent.id", i) : i \in a.agent},
             {}, Clamped(a.size), after))

BuildAlertsByAgent(a, after) ==
    If(ValidTimeRange(a.range),
       Query("alerts", {a.range}, {Term("agent.id", a.agent)}, {},
             Clamped(a.size), after))

BuildAlertsByMitre(a, after) ==
    If(ValidTimeRange(a.range),
       Query("alerts", {a.range}, {Term("rule.mitre.id", a.technique)}, {},
             Clamped(a.size), after))

\* _SEVERITIES are 1..4; min_severity asks for it and all above.
AtLeast(severities) ==
    {Terms("severity", s..4) : s \in severities}

BuildVulnsByAgent(a, after) ==
    If(a.severity \subseteq 1..4,
       Query("vulns", {}, {Term("agent.id", a.agent)} \cup AtLeast(a.severity),
             {}, Clamped(a.size), after))

BuildSearchVulns(a, after) ==
    If(a.cve \cup a.severity # {} /\ a.severity \subseteq 1..4,
       Query("vulns", {}, {Term("cve", c) : c \in a.cve} \cup AtLeast(a.severity),
             {}, Clamped(a.size), after))

BuildFimHistory(a, after) ==
    If(ValidTimeRange(a.range),
       Query("alerts", {a.range}, {Term("syscheck.path", a.path)}, {},
             Clamped(a.size), after))

BuildFimChanges(a, after) ==
    If(ValidTimeRange(a.range),
       Query("alerts", {a.range},
             {Term("agent.id", a.agent), Exists("syscheck.path")}, {},
             Clamped(a.size), after))

-----------------------------------------------------------------------------
(* tools/hunt.py: clauses [field, op, v], where v is the set of the values  *)
(* the caller listed.                                                       *)
ValidClause(c) ==
    /\ c.field \in FieldAllowlist
    /\ CASE c.op = "in"     -> Cardinality(c.v) \in 1..MaxIn
         [] c.op = "exists" -> c.v = {}
         [] c.op = "prefix" -> \A p \in c.v : p >= MinPrefix
         [] OTHER           -> Cardinality(c.v) = 1

ValidHunt(a) ==
    /\ ValidTimeRange(a.range)
    /\ a.size \in 1..MaxSize
    /\ Cardinality(a.must) + Cardinality(a.mustNot) \in 1..MaxClauses
    /\ \A c \in a.must \cup a.mustNot : ValidClause(c)

\* _render_clause(); eq and ne render alike.
Fragment(c) ==
    [kind |-> CASE c.op \in {"eq", "ne"} -> "term"
                [] c.op = "in"           -> "terms"
                [] OTHER                 -> c.op,
     field |-> c.field, v |-> c.v]

OfNe(clauses)     == {Fragment(c) : c \in {d \in clauses : d.op = "ne"}}
OfOthers(clauses) == {Fragment(c) : c \in {d \in clauses : d.op # "ne"}}

\* Mutant: ne is taken for a must_not wherever it stands.
BuildHuntNeAlwaysNot(a, after) ==
    If(ValidHunt(a),
       Query("alerts", {a.range}, OfOthers(a.must),
             OfNe(a.must \cup a.mustNot) \cup OfOthers(a.mustNot), a.size, after))

\* _build_hunt_dsl(): a ne changes sides.
BuildHunt(a, after) ==
    If(ValidHunt(a),
       Query("alerts", {a.range}, OfOthers(a.must) \cup OfNe(a.mustNot),
             OfNe(a.must) \cup OfOthers(a.mustNot), a.size, after))

\* pivot_by_ioc(): a hunt for the value in the first of two fields.
PivotField(kind) ==
    CASE kind = "ip" -> "data.srcip" [] kind = "hash" -> "syscheck.sha256_after"
      [] kind = "user" -> "data.srcuser" [] kind = "domain" -> "data.hostname"

BuildPivot(a, after) ==
    BuildHunt([range |-> a.range, size |-> a.size, mustNot |-> {},
               must |-> {[field |-> PivotField(a.kind), op |-> "eq", v |-> {a.value}]}],
              after)

-----------------------------------------------------------------------------
(* External: what OpenSearch makes of a query.                              *)
Starts(p, v) == v = p \/ v \div 10 = p \/ v \div 100 = p

FragmentMatches(g, d) ==
    \E v \in d.f[g.field] :
        CASE g.kind \in {"term", "terms"} -> v \in g.v
          [] g.kind = "exists" -> TRUE
          [] g.kind = "prefix" -> \E p \in g.v : Starts(p, v)
          [] g.kind = "gt"     -> \E w \in g.v : v > w
          [] g.kind = "gte"    -> \E w \in g.v : v >= w
          [] g.kind = "lt"     -> \E w \in g.v : v < w
          [] g.kind = "lte"    -> \E w \in g.v : v <= w

\* The documents a query matches, its search_after aside.
Matching(q, corpus, now) ==
    {d \in corpus :
        /\ d.index = q.index
        /\ \A n \in q.lookback : d.at >= now - n
        /\ \A g \in q.must : FragmentMatches(g, d)
        /\ \A g \in q.mustNot : ~FragmentMatches(g, d)}

\* A shard stops after collecting TerminateAfter documents, in no set order.
Examined(q, corpus, now) ==
    LET all == Matching(q, corpus, now)
    IN  IF Cardinality(all) <= TerminateAfter THEN {all}
        ELSE {s \in SUBSET all : Cardinality(s) = TerminateAfter}

\* The newest of them behind the cursor; which of equals come first is open.
Pages(q, examined) ==
    LET behind == {d \in examined : \A t \in q.after : d.at < t}
        fill   == IF Cardinality(behind) < q.size THEN Cardinality(behind) ELSE q.size
    IN  {p \in SUBSET behind :
            /\ Cardinality(p) = fill
            /\ \A d \in p, e \in behind \ p : d.at >= e.at}

-----------------------------------------------------------------------------
(* What the caller of a hunt asked for, clause by clause: a ne is the       *)
(* opposite of the eq, wherever it stands.                                  *)
ClauseHolds(c, d) == IF c.op = "ne" THEN d.f[c.field] \cap c.v = {}
                     ELSE FragmentMatches(Fragment(c), d)

HuntHolds(a, d) ==
    /\ \A c \in a.must : ClauseHolds(c, d)
    /\ \A c \in a.mustNot : ~ClauseHolds(c, d)
=============================================================================
