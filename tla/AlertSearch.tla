----------------------------- MODULE AlertSearch -----------------------------
(***************************************************************************)
(* A client that walks through the result of a search page by page: it     *)
(* repeats its call with the next_cursor of the page before, as long as    *)
(* that page says it was truncated (tools/alerts.py, fim.py, vulns.py,     *)
(* hunt.py).  The server keeps nothing between two pages.  Meanwhile time  *)
(* moves the lookback on, and alerts arrive, some of them late.            *)
(***************************************************************************)
EXTENDS AlertQuery

CONSTANTS
    Documents,      \* everything that is ever indexed
    Searches,       \* the searches a client may make
    MaxNow          \* bound on the clock

SearchTools ==
    {"search_alerts", "alerts_by_agent", "alerts_by_mitre", "list_vulnerabilities_by_agent",
     "search_vulnerabilities", "fim_history_for_path", "fim_changes_by_agent", "hunt_query",
     "pivot_by_ioc"}

\* The tools' arguments are validated: size is at least 1 and at most 100.
ASSUME SearchAssumption ==
    /\ IsFiniteSet(Documents) /\ MaxNow \in Nat
    /\ \A d \in Documents : d.at \in Nat /\ d.f["severity"] \subseteq 1..4
    /\ \A a \in Searches : a.tool \in SearchTools /\ a.size \in 1..MaxSize

VARIABLES
    corpus,     \* external: the documents indexed so far
    now,        \* external: the clock of the indexer
    request,    \* the search of the walk, or {} before it
    cursor,     \* next_cursor of the latest page, {} if there was none
    walk,       \* "idle", "walking" or "done"
    seen,       \* history: the documents returned so far
    repeated,   \* history: was one of them returned before?
    present,    \* history: what was indexed when the walk began
    edges,      \* history: the times at which truncated pages ended
    cut         \* history: did a query hit TerminateAfter?

env  == <<corpus, now>>
searchVars == <<corpus, now, request, cursor, walk, seen, repeated, present, edges, cut>>

SearchTypeOK ==
    /\ corpus \subseteq Documents /\ now \in 0..MaxNow
    /\ request \in {{}} \cup {{a} : a \in Searches}
    /\ cursor \in {{}} \cup {{d.at} : d \in Documents}
    /\ walk \in {"idle", "walking", "done"}
    /\ seen \subseteq Documents /\ present \subseteq corpus
    /\ repeated \in BOOLEAN /\ cut \in BOOLEAN
    /\ edges \subseteq {d.at : d \in Documents}

SearchInit ==
    /\ corpus = {} /\ now = 0
    /\ request = {} /\ cursor = {} /\ walk = "idle"
    /\ seen = {} /\ repeated = FALSE /\ present = {} /\ edges = {} /\ cut = FALSE
-----------------------------------------------------------------------------
Build(a, after) ==
    CASE a.tool = "search_alerts"          -> BuildSearchAlerts(a, after)
      [] a.tool = "alerts_by_agent"        -> BuildAlertsByAgent(a, after)
      [] a.tool = "alerts_by_mitre"        -> BuildAlertsByMitre(a, after)
      [] a.tool = "list_vulnerabilities_by_agent" -> BuildVulnsByAgent(a, after)
      [] a.tool = "search_vulnerabilities" -> BuildSearchVulns(a, after)
      [] a.tool = "fim_history_for_path"   -> BuildFimHistory(a, after)
      [] a.tool = "fim_changes_by_agent"   -> BuildFimChanges(a, after)
      [] a.tool = "hunt_query"             -> BuildHunt(a, after)
      [] a.tool = "pivot_by_ioc"           -> BuildPivot(a, after)

Least(S) == CHOOSE n \in S : \A m \in S : n <= m
Most(S)  == CHOOSE n \in S : \A m \in S : n >= m

\* Mutant: the sort value of the first hit, raw_hits[0].
CursorOfFirst(page) == IF page = {} THEN {} ELSE {Most({d.at : d \in page})}

\* raw_hits[-1]["sort"], the hits being sorted by time, newest first.
NextCursor(page) == IF page = {} THEN {} ELSE {Least({d.at : d \in page})}

\* Mutant: an exact fit is taken for the end.
TruncatedAbove(a, page) == Cardinality(page) > a.size

\* truncated: len(alerts) == args.size.
Truncated(a, page) == Cardinality(page) = a.size

\* One call of the tool: search the indexer, shape the answer.
Fetch(a, after, before) ==
    \E q \in Build(a, after) : \E ex \in Examined(q, corpus, now) :
    \E page \in Pages(q, ex) :
        /\ cursor' = NextCursor(page)
        /\ walk' = IF Truncated(a, page) THEN "walking" ELSE "done"
        /\ seen' = before \cup page
        /\ repeated' = (repeated \/ before \cap page # {})
        /\ edges' = IF Truncated(a, page) THEN edges \cup NextCursor(page) ELSE edges
        /\ cut' = (cut \/ ex # Matching(q, corpus, now))

FirstPage(a) ==
    /\ walk = "idle"
    /\ request' = {a}
    /\ present' = corpus
    /\ Fetch(a, {}, {})
    /\ UNCHANGED env

FollowCursor(a) ==
    /\ walk = "walking" /\ a \in request
    /\ Fetch(a, cursor, seen)
    /\ UNCHANGED <<env, request, present>>

\* External: a document is indexed, up to one tick after its time.
Index(d) ==
    /\ d \notin corpus /\ d.at \in (now - 1)..now
    /\ corpus' = corpus \cup {d}
    /\ UNCHANGED <<now, request, cursor, walk, seen, repeated, present, edges, cut>>

Tick ==
    /\ now < MaxNow
    /\ now' = now + 1
    /\ UNCHANGED <<corpus, request, cursor, walk, seen, repeated, present, edges, cut>>

SearchNext ==
    \/ \E a \in Searches : FirstPage(a) \/ FollowCursor(a)
    \/ \E d \in Documents : Index(d)
    \/ Tick

SearchSpec == SearchInit /\ [][SearchNext]_searchVars
-----------------------------------------------------------------------------
\* What the caller of each tool asked for, the time range aside.
Asked(a, d) ==
    CASE a.tool = "search_alerts" ->
            (\A l \in a.level : \E v \in d.f["rule.level"] : v >= l)
              /\ \A i \in a.agent : i \in d.f["agent.id"]
      [] a.tool = "alerts_by_agent" -> a.agent \in d.f["agent.id"]
      [] a.tool = "alerts_by_mitre" -> a.technique \in d.f["rule.mitre.id"]
      [] a.tool = "list_vulnerabilities_by_agent" ->
            a.agent \in d.f["agent.id"]
              /\ \A s \in a.severity : \E v \in d.f["severity"] : v >= s
      [] a.tool = "search_vulnerabilities" ->
            (\A c \in a.cve : c \in d.f["cve"])
              /\ \A s \in a.severity : \E v \in d.f["severity"] : v >= s
      [] a.tool = "fim_history_for_path" -> a.path \in d.f["syscheck.path"]
      [] a.tool = "fim_changes_by_agent" ->
            a.agent \in d.f["agent.id"] /\ d.f["syscheck.path"] # {}
      [] a.tool = "hunt_query"   -> HuntHolds(a, d)
      [] a.tool = "pivot_by_ioc" -> a.value \in d.f[PivotField(a.kind)]

IsVuln(a) == a.tool \in {"list_vulnerabilities_by_agent", "search_vulnerabilities"}
Wanted(a) == {d \in present : /\ d.index = IF IsVuln(a) THEN "vulns" ELSE "alerts"
                              /\ Asked(a, d)
                              /\ IsVuln(a) \/ d.at >= now - a.range}

\* No walk returns a document twice, whatever is indexed while it lasts.
NoAlertTwice == ~repeated

\* What a walk returns is what was asked for, in the caller's sense of each
\* clause: after the builders have turned clauses into must and must_not.
ReturnedAsAsked == \A a \in request : \A d \in seen : Asked(a, d)

\* A walk that has come to its end has returned every document that was there
\* from its beginning and still is in range, unless the document shares its
\* time with the end of a page (the sort has no tie-breaker, and the cursor
\* goes past the whole instant) or the indexer stopped at terminate_after.
MissedForAReason ==
    walk = "done" =>
        \A a \in request : \A d \in Wanted(a) \ seen : cut \/ d.at \in edges
=============================================================================
