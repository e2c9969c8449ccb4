---------------------------- MODULE MCScanCommand ----------------------------
(* An instance of ScanCommand: three analyzers, the second of which applies to *)
(* one of two files and the third of which asks a provider; up to three        *)
(* derived views, which do not fit the inspection events; and references among *)
(* four addresses, one of which is denied and two of which may be fetched.     *)
EXTENDS ScanCommand

CONSTANTS f1, f2, v1, v2, v3

MCFile == {f1, f2}
MCViews == <<v1, v2, v3>>
MCSourceOf == [v \in {v1, v2, v3} |-> IF v = v1 THEN f2 ELSE f1]
MCAnalyzers == <<"static", "flow", "semantic">>
MCApplies == <<{f1, f2}, {f1}, {f1, f2}>>
MCTypes == <<{"pattern", "ast"}, {"taint"}, {"semantic-provider"}>>
MCShallow == {3}
MCProvider == {3}
MCRequired == {"pattern", "ast", "taint"}

Plain == [oversized |-> FALSE, contract |-> FALSE, baseline |-> FALSE, requireComplete |-> FALSE,
          failOnIncomplete |-> FALSE, transitive |-> FALSE, policy |-> FALSE, api |-> FALSE,
          wanted |-> {1, 2}, opaque |-> {}, views |-> 1]

MCRequest == {
    [Plain EXCEPT !.wanted = {1, 2, 3}, !.contract = TRUE],
    [Plain EXCEPT !.wanted = {1, 2, 3}, !.policy = TRUE, !.views = 3],
    [Plain EXCEPT !.policy = TRUE, !.wanted = {2, 3}],
    [Plain EXCEPT !.baseline = TRUE, !.policy = TRUE],
    [Plain EXCEPT !.baseline = TRUE, !.contract = TRUE],
    [Plain EXCEPT !.oversized = TRUE],
    [Plain EXCEPT !.api = TRUE, !.opaque = {f2}, !.views = 3],
    [Plain EXCEPT !.opaque = {f2}],
    [Plain EXCEPT !.failOnIncomplete = TRUE],
    [Plain EXCEPT !.requireComplete = TRUE, !.contract = TRUE],
    [Plain EXCEPT !.transitive = TRUE, !.views = 0]}
MCTransitive == {[Plain EXCEPT !.transitive = TRUE, !.views = 0]}

\* Of a page, a file of which is opaque, the scan is completed and warns.
Report_(status, verdict, max, completed) ==
    [status |-> status, verdict |-> verdict, max |-> max, completed |-> completed]
Opaque == Report_("WARN", "REVIEW", 0, TRUE)
Clean == Report_("PASS", "CLEAR", 0, TRUE)
Partial == Report_("WARN", "REVIEW", 1, FALSE)
Bad == Report_("FAIL", "BLOCK", 3, TRUE)
MCContent == {{}, {1, 3}, {2, 3, 4}, {1, 2, 3}}
MCPages == {{}, {1, 3}, {2, 3}}
MCChild == {Clean, Opaque, Partial, Bad}
==============================================================================
