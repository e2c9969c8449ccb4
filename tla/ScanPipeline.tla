----------------------------- MODULE ScanPipeline -----------------------------
(***************************************************************************)
(* One scan (internal/analyzer/registry.go, Registry.Scan, and what        *)
(* internal/cli/cli.go makes of its result): the analyzers run one after   *)
(* the other over the files and the derived views of an artifact, under    *)
(* limits on findings, inspection events and time, in a context that may   *)
(* be cancelled at any moment; then status, severity and verdict are       *)
(* computed, recomputed after the contract and the baseline, and lowered   *)
(* when something was not analysed.                                        *)
(*                                                                         *)
(* A finding is its kind, with confidence 1; a file is what applies to it. *)
(***************************************************************************)
EXTENDS Naturals, Sequences, FiniteSets

CONSTANTS
    File,          \* files of the artifact
    Views,         \* sequence of the derived views, if they can be built
    SourceOf,      \* the file a view is derived from
    Analyzers,     \* the analyzers, in registration order
    Applies,       \* the files each analyzer applies to
    Types,         \* the analysis types each analyzer covers
    Shallow,       \* analyzers that are not run over views
    Provider,      \* analyzers that report the coverage they reached
    MaxFindings, MaxEvents,
    Request        \* the commands somebody gives

Everything == "*"
Position == DOMAIN Analyzers
ViewSet == {Views[i] : i \in DOMAIN Views}    \* a request says how many of them the artifact has

\* An artifact has a file; what is derived has a name of its own; and no analyzer
\* covers the two types of coverage that the scan itself reports.
ASSUME PipelineAssumption ==
    /\ Len(Analyzers) \in Nat /\ Position = 1 .. Len(Analyzers)
    /\ MaxFindings \in Nat /\ MaxEvents \in Nat
    /\ File # {} /\ ViewSet \cap File = {} /\ Everything \notin File
    /\ \A p \in Position : /\ Applies[p] \subseteq File
                           /\ Types[p] \cap {"derived-views", "analysis-budget"} = {}
    /\ \A r \in Request : /\ r.wanted \subseteq Position /\ r.views \in Nat
                          /\ 1 .. r.views \subseteq DOMAIN Views

Target == File \cup ViewSet \cup {Everything}
Outcome == {"completed", "out_of_scope", "skipped", "failed"}
Kind == {"low", "medium", "high", "advisory", "overdeclared", "underdeclared"}
Rank == [k \in Kind |-> CASE k \in {"low", "overdeclared"} -> 1
                          [] k \in {"medium", "advisory"} -> 2
                          [] k \in {"high", "underdeclared"} -> 3]
\* Severity weights; findings about the contract count ten more.
Weight == [low |-> 3, medium |-> 8, high |-> 18, advisory |-> 18, overdeclared |-> 13, underdeclared |-> 28]

VARIABLES
    request,     \* the command
    at,          \* where it is
    pos, view,   \* the analyzer and the view that are next
    built,       \* how many views could be built
    items,       \* the inspection ledger: <<analyzer, target, outcome>>
    found,       \* how many findings of each kind
    covered,     \* analysis types with coverage "completed"
    degraded,    \* coverage entries that are "degraded"
    exceeded,    \* budget dimensions that were exceeded
    late,        \* the deadline of the scan has passed
    cancelled,   \* the context of the caller is cancelled
    inspected,   \* history: what analyzers really finished looking at
    thorough,    \* history: the scan looked at everything it had to look at
    result       \* what the command knows of its scan: NoResult until it is judged

ledger == <<items, found, covered, degraded, exceeded, inspected>>
clock == <<late, cancelled>>
pipelineVars == <<request, at, pos, view, built, ledger, clock, thorough, result>>

NoResult == [status |-> "NONE", verdict |-> "NONE", max |-> 0, analysed |-> FALSE, decision |-> "NONE"]

PipelineInit ==
    /\ request \in Request
    /\ at = "start" /\ pos = 1 /\ view = 1 /\ built = 0
    /\ items = {} /\ found = [k \in Kind |-> 0]
    /\ covered = {} /\ degraded = {} /\ exceeded = {} /\ inspected = {}
    /\ late = FALSE /\ cancelled = FALSE
    /\ thorough = FALSE /\ result = NoResult

Dead == late \/ cancelled
Expired == late /\ ~cancelled     \* the budget's deadline, not the caller's context
Findings == found["low"] + found["medium"] + found["high"] + found["advisory"] +
            found["overdeclared"] + found["underdeclared"]
Events == Cardinality(items)
Of(outcome) == {i \in items : i[3] = outcome}
Over(used, limit) == limit > 0 /\ used > limit     \* a limit of 0 is none
TooMany == Over(Findings, MaxFindings)
Full == Over(Events + 1, MaxEvents)
Record(targets, outcome) == items \cup {<<pos, t, outcome>> : t \in targets}
InScope(v) == SourceOf[v] \in Applies[pos]
Runs(p) == p \in request.wanted          \* the domain filter

\* The preflight: an artifact over its byte limits is not analysed at all.
Start ==
    /\ at = "start"
    /\ IF request.oversized
       THEN /\ at' = "judge"
            /\ exceeded' = {"bytes"} /\ degraded' = {"analysis-budget"}
       ELSE at' = "derive" /\ UNCHANGED <<exceeded, degraded>>
    /\ UNCHANGED <<request, pos, view, built, items, found, covered, inspected, clock, thorough, result>>

\* derived.Build: stops when its context is done or a limit of its own is met.
Derive ==
    /\ at = "derive"
    /\ \E complete \in IF Dead THEN {FALSE} ELSE BOOLEAN :
          /\ built' \in IF complete THEN {request.views} ELSE 0 .. request.views
          /\ degraded' = IF complete THEN {} ELSE {"derived-views"}
          /\ exceeded' \in IF complete \/ Dead THEN {{}} ELSE {{}, {"derived"}}
    /\ at' = "budget"
    /\ UNCHANGED <<request, pos, view, items, found, covered, inspected, clock, thorough, result>>

NextAnalyzer == pos' = pos + 1 /\ view' = 1 /\ at' = "budget"

\* The checks at the head of the loop: one that fails ends it.
InBudget == ~TooMany /\ ~Full /\ ~Over(Events + Cardinality(File), MaxEvents)

OverBudget ==
    /\ at = "budget" /\ pos \in Position /\ ~InBudget
    /\ items' = Record({Everything}, "skipped")
    /\ exceeded' = IF Full \/ ~TooMany THEN exceeded \cup {"inspection_events"} ELSE exceeded
    /\ at' = "finish"
    /\ UNCHANGED <<request, built, pos, view, found, covered, degraded, inspected, clock, thorough, result>>

\* Another domain; or the deadline has passed before the analyzer started.
PassOver ==
    /\ at = "budget" /\ pos \in Position /\ InBudget
    /\ IF Runs(pos) THEN Expired /\ items' = Record(File, "skipped") ELSE items' = items
    /\ NextAnalyzer
    /\ UNCHANGED <<request, built, found, covered, degraded, exceeded, inspected, clock, thorough, result>>

\* What is in scope is entered as completed before the analyzer is called.
Begin ==
    /\ at = "budget" /\ pos \in Position /\ InBudget
    /\ Runs(pos) /\ ~Expired
    /\ items' = Record(File \cap Applies[pos], "completed") \cup
                Record(File \ Applies[pos], "out_of_scope")
    /\ at' = "invoke"
    /\ UNCHANGED <<request, built, pos, view, found, covered, degraded, exceeded, inspected, clock, thorough, result>>

Add(kinds) == found' = [k \in Kind |-> found[k] + IF k \in kinds THEN 1 ELSE 0]
Native == {{}, {"low"}, {"medium"}, {"high"}}

\* The analyzer returns; one that reports its coverage may report it degraded.
Invoke ==
    /\ at = "invoke"
    /\ \E kinds \in Native : Add(kinds)
    /\ inspected' = inspected \cup {<<pos, f>> : f \in Applies[pos]}
    /\ \E short \in IF pos \in Provider THEN BOOLEAN ELSE {FALSE} :
          /\ degraded' = IF short THEN degraded \cup Types[pos] ELSE degraded \ Types[pos]
          /\ covered' = IF short THEN covered \ Types[pos] ELSE covered \cup Types[pos]
    /\ at' = IF pos \in Shallow THEN "budget" ELSE "views"
    /\ pos' = IF pos \in Shallow THEN pos + 1 ELSE pos
    /\ UNCHANGED <<request, built, view, items, exceeded, clock, thorough, result>>

\* The entries of an analyzer that did not finish.
Interrupted(done) ==
    {i \in items : i[1] # pos \/ i[3] # "completed"} \cup
    {<<pos, i[2], done>> : i \in {j \in items : j[1] = pos /\ j[3] = "completed"}}

\* It fails because the deadline passed: what it would have inspected is skipped.
TimesOut ==
    /\ at = "invoke" /\ Expired
    /\ items' = Interrupted("skipped")
    /\ NextAnalyzer
    /\ UNCHANGED <<request, built, found, covered, degraded, exceeded, inspected, clock, thorough, result>>

\* It fails otherwise, or emits a rule that is not published: the scan fails.
Fails ==
    /\ at = "invoke"
    /\ \/ ~Expired /\ items' = Interrupted("failed")
       \/ UNCHANGED items
    /\ at' = "error"
    /\ UNCHANGED <<request, built, pos, view, found, covered, degraded, exceeded, inspected, clock, thorough, result>>

NextView == view' = view + 1 /\ UNCHANGED <<request, built, at, pos, covered, clock, thorough, result>>

\* A view outside the analyzer's scope is passed over without an entry ...
PassView ==
    /\ at = "views" /\ view <= built
    /\ ~Dead /\ ~InScope(Views[view])
    /\ NextView
    /\ UNCHANGED <<items, found, degraded, exceeded, inspected>>

\* ... and one within it is analysed, or fails: then the coverage is degraded.
LookAtView ==
    /\ at = "views" /\ view <= built
    /\ ~Dead /\ InScope(Views[view]) /\ ~Full
    /\ \/ /\ items' = Record({Views[view]}, "completed")
          /\ \E kinds \in Native : Add(kinds)
          /\ inspected' = inspected \cup {<<pos, Views[view]>>}
          /\ degraded' \in {degraded} \cup (IF pos \in Provider THEN {degraded \cup {"derived-views"}} ELSE {})
       \/ /\ items' = Record({Views[view]}, "failed")
          /\ degraded' = degraded \cup {"derived-views"}
          /\ UNCHANGED <<found, inspected>>
    /\ NextView
    /\ UNCHANGED exceeded

DropViewsSilently ==     \* mutant: a context that is done only ends the loop
    /\ at = "views" /\ view <= built
    /\ Dead \/ (InScope(Views[view]) /\ Full)
    /\ exceeded' = IF Dead THEN exceeded ELSE exceeded \cup {"inspection_events"}
    /\ NextAnalyzer
    /\ UNCHANGED <<request, built, items, found, covered, degraded, inspected, clock, thorough, result>>

\* The context is done, or the ledger is full: the other views are given up.
DropViews ==
    /\ at = "views" /\ view <= built
    /\ Dead \/ (InScope(Views[view]) /\ Full)
    /\ degraded' = degraded \cup {"derived-views"}
    /\ exceeded' = IF Dead THEN exceeded ELSE exceeded \cup {"inspection_events"}
    /\ NextAnalyzer
    /\ UNCHANGED <<request, built, items, found, covered, inspected, clock, thorough, result>>

ViewsDone ==
    /\ at = "views" /\ view > built
    /\ NextAnalyzer
    /\ UNCHANGED <<request, built, ledger, clock, thorough, result>>

AnalyzersDone ==
    /\ at = "budget" /\ pos \notin Position
    /\ at' = "finish"
    /\ UNCHANGED <<request, built, pos, view, ledger, clock, thorough, result>>

\* The end of Scan: an advisory without a contract, a chain of findings, the
\* dependency identities (which may fail), and the budgets that were exceeded.
Overrun(n) ==
    (IF Over(n, MaxFindings) THEN {"findings"} ELSE {}) \cup
    (IF Over(Events, MaxEvents) THEN {"inspection_events"} ELSE {}) \cup
    (IF late THEN {"wall_time"} ELSE {})

Finish ==
    /\ at = "finish"
    /\ \E kinds \in SUBSET {"advisory", "high"} :
          /\ "advisory" \in kinds => Findings > 0 /\ ~request.contract
          /\ "high" \in kinds => Findings > 1
          /\ Add(kinds)
          /\ exceeded' = exceeded \cup Overrun(Findings + Cardinality(kinds))
    /\ degraded' = degraded \cup (IF exceeded' = {} THEN {} ELSE {"analysis-budget"})
    /\ at' = "judge"
    /\ UNCHANGED <<request, built, pos, view, items, covered, inspected, clock, thorough, result>>

FinishFails ==
    /\ at = "finish"
    /\ at' = "error"
    /\ UNCHANGED <<request, built, pos, view, ledger, clock, thorough, result>>

-----------------------------------------------------------------------------
\* Risk: the weights and the greatest severity of what is not suppressed, and
\* the verdict, which also depends on the coverage.
Score(active) ==
    active["low"] * Weight.low + active["medium"] * Weight.medium + active["high"] * Weight.high +
    active["advisory"] * Weight.advisory + active["overdeclared"] * Weight.overdeclared +
    active["underdeclared"] * Weight.underdeclared +
    IF {"ast", "taint"} \subseteq covered THEN 0 ELSE 5

Maximum(active) ==
    CHOOSE r \in 0 .. 3 :
        /\ r = 0 \/ \E k \in Kind : active[k] > 0 /\ Rank[k] = r
        /\ \A k \in Kind : active[k] > 0 => Rank[k] <= r

StatusOf(max) == IF max >= 3 THEN "FAIL" ELSE IF max = 2 THEN "WARN" ELSE "PASS"

Verdict(active) ==
    IF Maximum(active) >= 3 \/ Score(active) >= 40 THEN "BLOCK"
    ELSE IF \/ Maximum(active) = 2 \/ Score(active) >= 10
            \/ degraded # {} \/ ~({"ast", "taint"} \subseteq covered)
         THEN "REVIEW" ELSE "CLEAR"

\* Completeness below 1, which it also is when nothing was begun.
Incomplete == request.oversized \/ Of("skipped") \cup Of("failed") # {}

\* scanAnalysisStatus and fileAnalysisStatus: the root, and each of its files.
RootAnalysed == degraded = {} /\ exceeded = {} /\ ~Incomplete

FileAnalysed(f) ==
    LET mine == {i \in items : i[2] = f} IN
    /\ \A i \in mine : i[3] \notin {"failed", "skipped"}
    /\ f \notin request.opaque
    /\ (\E i \in mine : i[3] = "completed") \/ items = {}

Analysed == RootAnalysed /\ \A f \in File : FileAnalysed(f)

Blocks(r) == r.verdict = "BLOCK" \/ r.status = "FAIL" \/ r.max >= 3

\* assurance.Finalize of the root and its files, which have different identities.
LocalState(r) == IF Blocks(r) THEN "UNSAFE" ELSE IF Analysed THEN "SAFE" ELSE "UNKNOWN"

Failed(r, max) ==
    [r EXCEPT !.status = "FAIL", !.verdict = "BLOCK", !.max = IF max > @ THEN max ELSE @]
Qualified(r) ==
    [r EXCEPT !.status = IF @ = "PASS" THEN "WARN" ELSE @,
              !.verdict = IF @ = "CLEAR" THEN "REVIEW" ELSE @]

OutcomeUnsafeOnly(r, state, max) ==     \* mutant: an unknown closure changes nothing
    IF state = "UNSAFE" THEN Failed(r, max) ELSE r

ApplyOutcome(r, state, max) ==
    IF state = "UNSAFE" THEN Failed(r, max) ELSE IF state = "UNKNOWN" THEN Qualified(r) ELSE r

\* --require-complete and --fail-on-incomplete.
Demanded(r) ==
    IF (request.requireComplete /\ Incomplete) \/ (request.failOnIncomplete /\ exceeded # {})
    THEN [r EXCEPT !.status = "FAIL", !.verdict = "BLOCK"] ELSE r

\* The status Scan returned stands only if nothing has it computed again.
FirstStatus(active) ==
    LET status == StatusOf(Maximum(active)) IN
    IF exceeded # {} /\ status = "PASS" /\ ~request.contract /\ ~request.baseline THEN "WARN" ELSE status

\* What a scan that leaves nothing out looks at: with every analyzer that was
\* asked for, all files it applies to and the views derived from them.
LookedWith(p) ==
    /\ \A f \in Applies[p] : <<p, f>> \in inspected
    /\ p \notin Shallow => \A i \in 1 .. request.views :
           SourceOf[Views[i]] \in Applies[p] => <<p, Views[i]>> \in inspected

\* A report about a file says besides that the file could be read and was looked at;
\* the public API leaves that to its caller.
Readable(f) == f \notin request.opaque /\ \E p \in request.wanted : f \in Applies[p]

Thorough ==
    /\ \A p \in request.wanted : LookedWith(p)
    /\ request.api \/ \A f \in File : Readable(f)

\* The public API (pkg/engine): a result that is cacheable is stored for later scans.
Cacheable == exceeded = {} /\ Of("failed") = {} /\ degraded = {}

Store ==
    /\ at = "judge" /\ request.api
    /\ result' = [result EXCEPT !.decision = IF Cacheable THEN "CACHED" ELSE "SCANNED"]
    /\ thorough' = Thorough
    /\ at' = "judged"
    /\ UNCHANGED <<request, pos, view, built, ledger, clock>>

\* What becomes of a scan with these findings: computed from them, lowered by the
\* closure of the files, then by the flags.
Judged(active) ==
    [status |-> FirstStatus(active), verdict |-> Verdict(active),
     max |-> Maximum(active), analysed |-> Analysed, decision |-> "NONE"]

Judgement(active) ==
    Demanded(ApplyOutcome(Judged(active), LocalState(Judged(active)), Maximum(active)))

Judge ==
    /\ at = "judge" /\ ~request.api
    /\ \E mismatches \in SUBSET (IF request.contract THEN {"overdeclared", "underdeclared"} ELSE {}),
          suppressed \in SUBSET (IF request.baseline THEN Kind ELSE {}) :
          result' = Judgement([k \in Kind |-> IF k \in suppressed THEN 0
                                             ELSE found[k] + IF k \in mismatches THEN 1 ELSE 0])
    /\ thorough' = Thorough
    /\ at' = "judged"
    /\ UNCHANGED <<request, pos, view, built, ledger, clock>>

\* The baseline cannot be read.
BaselineFails ==
    /\ at = "judge" /\ ~request.api /\ request.baseline
    /\ at' = "error"
    /\ UNCHANGED <<request, pos, view, built, ledger, clock, thorough, result>>

\* The deadline passes, and the caller gives up, at any moment.
TimePasses ==
    /\ ~late
    /\ at \notin {"start", "judge", "judged", "walk", "done", "error"}
    /\ late' = TRUE
    /\ UNCHANGED <<request, at, pos, view, built, ledger, cancelled, thorough, result>>

Cancel ==
    /\ ~cancelled /\ at \notin {"start", "walk", "done", "error"}
    /\ cancelled' = TRUE
    /\ UNCHANGED <<request, at, pos, view, built, ledger, late, thorough, result>>

PipelineStep ==
    \/ Start \/ Derive \/ OverBudget \/ PassOver \/ Begin \/ Invoke \/ TimesOut \/ Fails
    \/ PassView \/ LookAtView \/ DropViews \/ ViewsDone \/ AnalyzersDone
    \/ Finish \/ FinishFails \/ Store \/ Judge \/ BaselineFails
===============================================================================
