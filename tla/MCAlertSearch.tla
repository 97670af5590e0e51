---------------------------- MODULE MCAlertSearch ----------------------------
(* Six documents, two of them of one instant, and a search of each kind.     *)
EXTENDS AlertSearch, TLC

Doc(id, index, at, fields) ==
    [id |-> id, index |-> index, at |-> at,
     f |-> fields @@ ("@timestamp" :> {at})
             @@ [x \in FieldAllowlist \cup {"severity", "cve"} |-> {}]]

MCDocuments ==
    {Doc(1, "alerts", 1, "agent.id" :> {1} @@ "rule.level" :> {3}
                           @@ "rule.mitre.id" :> {1110, 1078}),
     Doc(2, "alerts", 1, "agent.id" :> {1} @@ "rule.level" :> {10}
                           @@ "syscheck.path" :> {7}),
     Doc(3, "alerts", 2, "agent.id" :> {1} @@ "rule.level" :> {12}
                           @@ "data.srcip" :> {1921} @@ "rule.mitre.id" :> {1110}),
     Doc(4, "alerts", 2, "agent.id" :> {2} @@ "data.srcip" :> {10}
                           @@ "rule.level" :> {5} @@ "syscheck.path" :> {7}),
     Doc(5, "alerts", 3, "agent.id" :> {1} @@ "rule.level" :> {10}
                           @@ "data.srcip" :> {1921}),
     Doc(6, "vulns", 1, "agent.id" :> {1} @@ "severity" :> {3} @@ "cve" :> {5}),
     Doc(7, "vulns", 2, "agent.id" :> {1} @@ "severity" :> {4} @@ "cve" :> {6})}

C(field, op, v) == [field |-> field, op |-> op, v |-> v]
Hunt(must, mustNot, size) ==
    [tool |-> "hunt_query", range |-> 3, must |-> must, mustNot |-> mustNot,
     size |-> size]

MCSearches ==
    {[tool |-> "search_alerts", range |-> 3, level |-> {}, agent |-> {}, size |-> 1],
     [tool |-> "search_alerts", range |-> 4, level |-> {10}, agent |-> {1}, size |-> 2],
     [tool |-> "search_alerts", range |-> 5, level |-> {}, agent |-> {}, size |-> 1],
     [tool |-> "alerts_by_agent", range |-> 2, agent |-> 1, size |-> 2],
     [tool |-> "alerts_by_mitre", range |-> 3, technique |-> 1110, size |-> 1],
     [tool |-> "list_vulnerabilities_by_agent", agent |-> 1, severity |-> {3}, size |-> 1],
     [tool |-> "search_vulnerabilities", cve |-> {}, severity |-> {}, size |-> 1],
     [tool |-> "search_vulnerabilities", cve |-> {6}, severity |-> {4}, size |-> 1],
     [tool |-> "fim_history_for_path", range |-> 3, path |-> 7, size |-> 1],
     [tool |-> "fim_changes_by_agent", range |-> 3, agent |-> 1, size |-> 1],
     [tool |-> "pivot_by_ioc", range |-> 3, kind |-> "ip", value |-> 1921, size |-> 1],
     Hunt({C("rule.level", "gte", {5}), C("agent.id", "in", {1, 2})},
          {C("data.srcip", "prefix", {192})}, 1),
     Hunt({C("rule.level", "ne", {10})}, {}, 2),
     Hunt({C("@timestamp", "gt", {0})}, {C("agent.id", "ne", {1})}, 1),
     Hunt({C("data.srcip", "exists", {}), C("rule.level", "lt", {12})},
          {C("rule.level", "lte", {5})}, 1)}
=============================================================================
