----------------------------- MODULE ScanCommand -----------------------------
(***************************************************************************)
(* skil scan and the commands that decide by a policy: the scan of the     *)
(* artifact (ScanPipeline), then, with --transitive, the walk of its       *)
(* references (ReferenceWalk) and the outcome of their closure; or the     *)
(* decision of policy.Check over the scan and the closure of its files.    *)
(***************************************************************************)
EXTENDS ScanPipeline, ReferenceWalk

CONSTANT Required     \* analysis types the policy requires

ASSUME PolicyAssumption == Required # {}

vars == <<pipelineVars, walkVars>>

Init == PipelineInit /\ NotWalked

\* What is kept of a scan is its result, which is what the rest depends on; its
\* deadline is over, and a walk that is cancelled is one that skips what is left.
Forget ==
    /\ late' = FALSE /\ cancelled' = FALSE
    /\ pos' = 1 /\ view' = 1 /\ built' = 0
    /\ items' = {} /\ found' = [k \in Kind |-> 0] /\ inspected' = {}
    /\ covered' = {} /\ degraded' = {} /\ exceeded' = {}

\* policy.Check under the default policy: what it asks of the scan ...
ScanMeets ==
    /\ result.max <= 2
    /\ Required \subseteq covered \ degraded
    /\ ~Incomplete
    /\ exceeded = {}

\* ... and of the closure of the scan.
ClosureMeets == Analysed /\ ~Blocks(result)

\* What else it looks at (capabilities, sources, signatures) can only deny.
Decide ==
    /\ at = "judged" /\ request.policy
    /\ \E decision \in {"DENY"} \cup (IF ScanMeets /\ ClosureMeets THEN {"ALLOW"} ELSE {}) :
          result' = [result EXCEPT !.decision = decision]
    /\ at' = "done" /\ Forget
    /\ UNCHANGED <<request, thorough, walkVars>>

Report ==
    /\ at = "judged" /\ ~request.policy /\ ~request.transitive
    /\ at' = "done" /\ Forget
    /\ UNCHANGED <<request, thorough, result, walkVars>>

Walk ==
    /\ at = "judged" /\ request.transitive
    /\ at' = "walk" /\ Forget
    /\ \E content \in Content : StartWalk(content)
    /\ UNCHANGED <<request, thorough, result>>

\* The analyzers for the children cannot be set up.
WalkFails ==
    /\ at = "judged" /\ request.transitive
    /\ at' = "error" /\ Forget
    /\ UNCHANGED <<request, thorough, result, walkVars>>

CloseWalk ==
    /\ at = "walk" /\ ~Walking
    /\ result' = ApplyOutcome(result, ClosureState(result), ClosureMaximum(result))
    /\ at' = "done"
    /\ UNCHANGED <<request, pos, view, built, ledger, clock, thorough, walkVars>>

ProgramStep ==
    \/ PipelineStep /\ UNCHANGED walkVars
    \/ Decide \/ Report \/ Walk \/ WalkFails \/ CloseWalk
    \/ at = "walk" /\ WalkStep /\ UNCHANGED pipelineVars

Environment == (TimePasses \/ Cancel) /\ UNCHANGED walkVars

Next == ProgramStep \/ Environment

Spec == Init /\ [][Next]_vars

-----------------------------------------------------------------------------
Done == at = "done"

ScanTypeOK ==
    /\ request \in Request
    /\ at \in {"start", "derive", "budget", "invoke", "views", "finish", "judge", "judged", "walk", "done", "error"}
    /\ items \subseteq Position \X Target \X Outcome
    /\ inspected \subseteq Position \X Target
    /\ found \in [Kind -> Nat]
    /\ result.status \in {"NONE", "PASS", "WARN", "FAIL"}
    /\ WalkTypeOK

\* The gate of skil scan is its status, that of a report the verdict: at the end
\* the two agree on what fails, although a score alone makes a verdict BLOCK, and
\* closures and flags set them one by one.
VerdictsAgree == Done => (result.status = "FAIL" <=> result.verdict = "BLOCK")

\* The public API stores "only complete, digest-bound scan results"
\* (pkg/engine/engine.go:16): one of them answers for all later scans.
CachedIsWhole == Done /\ result.decision = "CACHED" => thorough

\* Unsafe dominates unknown state (docs/assurance-closure.md:35): a blocked page
\* among those that were fetched fails the scan.
UnsafeDominates ==
    Done /\ (\E u \in Fetched : Blocked(scans[u])) => result.status = "FAIL"

\* It does unless a page at the last hop refers on: only then may two nodes of one
\* address differ, and the closure forget what was unsafe (closure.go:60).
UnsafeDominatesWithinReach ==
    (\A n \in nodes : n.depth <= Depth) => UnsafeDominates

ScanInv ==
    ScanTypeOK /\ VerdictsAgree /\ FollowedWithinLimits /\ CachedIsWhole /\ UnsafeDominatesWithinReach

\* PASS and CLEAR are given only after all of the artifact was really looked at, whatever
\* ended early: no analyzer or view was cut short by a limit, the deadline or a
\* cancellation; with --transitive the references followed are all there are, and the
\* scan of every page was completed without blocking it.  Not that its files could all be
\* read: a page counts by scanAnalysisStatus alone (transitive.go:324).
ClearIsEarned ==
    Done /\ result.status = "PASS" /\ result.verdict = "CLEAR" =>
        /\ thorough
        /\ \A p \in {Root} \cup Fetched : refs[p] \subseteq Fetched
        /\ \A u \in Fetched : scans[u].completed /\ ~Blocked(scans[u])

\* A policy allows an artifact only after the same, and what it requires was done
\* by an analyzer that was asked for.
AllowIsEarned ==
    Done /\ result.decision = "ALLOW" =>
        /\ thorough
        /\ \A t \in Required : \E p \in request.wanted : t \in Types[p]

\* How much is left of a command: of its phases; in the loop over the analyzers, of
\* these, of the work with the current one and of its views; in the walk, of the
\* references that may be fetched, of the pages on the stack and of the current page.
PhasesLeft == [start |-> 8, derive |-> 7, budget |-> 6, invoke |-> 6, views |-> 6, finish |-> 5,
               judge |-> 4, judged |-> 3, walk |-> 2, done |-> 1, error |-> 1]
Remaining ==
    <<PhasesLeft[at],
      IF at \in {"budget", "invoke", "views"} THEN Len(Analyzers) + 1 - pos
      ELSE IF at = "walk" THEN targets ELSE 0,
      IF at = "budget" THEN 2 ELSE IF at = "invoke" THEN 1
      ELSE IF at = "walk" THEN Len(stack) ELSE 0,
      IF at = "views" THEN built + 1 - view
      ELSE IF at = "walk" /\ Walking THEN Cardinality(Top.todo) ELSE 0>>

\* Lexicographic order.
Less(x, y) ==
    \/ x[1] < y[1]
    \/ x[1] = y[1] /\ \/ x[2] < y[2]
                      \/ x[2] = y[2] /\ (x[3] < y[3] \/ (x[3] = y[3] /\ x[4] < y[4]))

\* What is left can be compared.
RemainingIsRank ==
    Remaining \in (Nat \X Nat \X Nat \X Nat)

\* Every step of a command leaves less of it to do, and its deadline and its caller leave
\* that alone: no analyzer, view or reference is taken up twice, and what a page adds to
\* the walk is paid for by a target, however references form cycles; a command in which
\* nothing hangs has an end (registry.go:160-299, transitive.go:193-258).
EveryStepCounts ==
    [][IF ProgramStep THEN Less(Remaining', Remaining) ELSE UNCHANGED Remaining]_vars

\* How bad a judgement looks, and what no later one may undo.
Gravity == [NONE |-> 0, PASS |-> 1, CLEAR |-> 1, WARN |-> 2, REVIEW |-> 2, FAIL |-> 3, BLOCK |-> 3]
NeverBetter(r, s) ==
    /\ Gravity[r.status] <= Gravity[s.status]
    /\ Gravity[r.verdict] <= Gravity[s.verdict]
    /\ r.max <= s.max
===============================================================================
