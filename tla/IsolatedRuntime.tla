---------------------------- MODULE IsolatedRuntime ----------------------------
(***************************************************************************)
(* ProcessRuntime.Execute of internal/eval/runtime.go over the Enforcer:   *)
(* an adapter in an isolated process asks for one tool call per step, the  *)
(* host decides, runs the tool and keeps the trace.                        *)
(*                                                                         *)
(* The enforcer is created by Execute and used by nobody else, so a step   *)
(* is one action: the message of the adapter, up to two authorizations,    *)
(* the tool, and the entry in the trace.  ValidateAuthorization of the     *)
(* execution gateway is asked last, between the enforcer and the tool: it  *)
(* consumes the nonce of a single-use authorization in a ledger of its own *)
(* (ExecutionGateway), and here it is the choice between RefuseProof and   *)
(* RunTool.                                                                *)
(***************************************************************************)
EXTENDS Enforcer, Sequences

CONSTANTS
    Id,          \* the identities an adapter can give its requests
    CallOp,      \* the tools.call operation of each tool
    StepCap      \* 64

ASSUME RuntimeAssumption == CallOp \subseteq Op /\ StepCap \in Nat \ {0}

VARIABLES
    outcome,     \* "none" while Execute runs, then "final" or "error"
    step,
    seenIDs,
    trusted,     \* trustedCalls: requests with whether they were allowed
    trace,       \* what Execute returned: the calls of the trace
    effects,     \* history: the requests for which tool.Execute was called
    taken        \* history: what their operations take from each limited budget

runtimeVars == <<used, granted, expired, startupError,
                 outcome, step, seenIDs, trusted, trace, effects, taken>>

\* enforcement.New pins no digests.
RuntimeInit ==
    /\ Init /\ ~startupError
    /\ outcome = "none"
    /\ step = 0
    /\ seenIDs = {}
    /\ trusted = <<>> /\ trace = <<>> /\ effects = <<>>
    /\ taken = [b \in Budget |-> 0]

MaxSteps == IF Limit["calls"] \in 1..StepCap THEN Limit["calls"] ELSE StepCap

-----------------------------------------------------------------------------
(* The authorizations of a request: of the call, then, if it is another one, *)
(* of the operation the host derives from the call.                          *)

Spent(call, o) == IF o = call THEN After(used, call, "authorized")
                  ELSE After(After(used, call, "authorized"), o, "authorized")

Sum(call, o) ==
    LET g == Granted(granted, used, call, "authorized")
    IN  IF o = call THEN g ELSE Granted(g, After(used, call, "authorized"), o, "authorized")

CallAllowed(call) == Allows(used, call, "authorized")

AllowedOnce(call, o) == CallAllowed(call)  \* mutant: the call's authorization is enough

BothAllowed(call, o) ==
    CallAllowed(call) /\ (o = call \/ Allows(After(used, call, "authorized"), o, "authorized"))

\* A request that is well formed, and new.
Request(id) == outcome = "none" /\ step < MaxSteps /\ id \notin seenIDs

Seen(id) ==
    /\ seenIDs' = seenIDs \cup {id}
    /\ step' = step + 1

TracedAllowed(id) ==        \* mutant: a refused request is traced as allowed
    /\ trusted' = Append(trusted, [id |-> id, allowed |-> TRUE])
    /\ UNCHANGED <<expired, startupError, outcome, trace, effects, taken>>

Traced(id) ==
    /\ trusted' = Append(trusted, [id |-> id, allowed |-> FALSE])
    /\ UNCHANGED <<expired, startupError, outcome, trace, effects, taken>>

\* The tool is not available, not registered, or no operation can be derived.
RefuseTool(id) ==
    /\ Request(id) /\ Seen(id) /\ Traced(id)
    /\ UNCHANGED <<used, granted>>

RefuseCall(id, call) ==
    /\ Request(id) /\ ~CallAllowed(call) /\ Seen(id) /\ Traced(id)
    /\ used' = Spent(call, call) /\ granted' = Sum(call, call)

\* The target is outside the boundary of the evaluation, of which the enforcer is
\* not asked (within is FALSE), or the enforcer refuses the operation.
RefuseOperation(id, call, o, within) ==
    /\ Request(id) /\ CallAllowed(call) /\ o # call
    /\ ~within \/ ~BothAllowed(call, o)
    /\ Seen(id) /\ Traced(id)
    /\ used' = Spent(call, IF within THEN o ELSE call)
    /\ granted' = Sum(call, IF within THEN o ELSE call)

\* The execution authorization is missing or invalid.
RefuseProof(id, call, o) ==
    /\ Request(id) /\ BothAllowed(call, o) /\ Seen(id) /\ Traced(id)
    /\ used' = Spent(call, o) /\ granted' = Sum(call, o)

\* tool.Execute is called.
Effect(id, o) ==
    /\ effects' = Append(effects, id)
    /\ taken' = [b \in Budget |-> IF Limit[b] = 0 THEN 0 ELSE taken[b] + Amount[o][b]]

\* The tool runs; a result that fails is traced like another one.
RunTool(id, call, o) ==
    /\ Request(id) /\ BothAllowed(call, o) /\ Seen(id) /\ Effect(id, o)
    /\ used' = Spent(call, o) /\ granted' = Sum(call, o)
    /\ trusted' = Append(trusted, [id |-> id, allowed |-> TRUE])
    /\ UNCHANGED <<expired, startupError, outcome, trace>>

\* The tool has run, and its result is too long or cannot be encoded.
LoseResult(id, call, o) ==
    /\ Request(id) /\ BothAllowed(call, o) /\ Seen(id) /\ Effect(id, o)
    /\ used' = Spent(call, o) /\ granted' = Sum(call, o)
    /\ outcome' = "error"
    /\ UNCHANGED <<expired, startupError, trusted, trace>>

\* The isolated process fails, is late or says too much, its message is malformed,
\* repeats an identity or is one request too many.
FailStep ==
    /\ outcome = "none"
    /\ outcome' = "error"
    /\ UNCHANGED <<used, granted, expired, startupError, step, seenIDs, trusted, trace, effects, taken>>

Final ==
    /\ outcome = "none"
    /\ outcome' = "final"
    /\ trace' = trusted
    /\ UNCHANGED <<used, granted, expired, startupError, step, seenIDs, trusted, effects, taken>>

RuntimeExpires ==
    /\ ~expired
    /\ TimeRunsOut
    /\ UNCHANGED <<outcome, step, seenIDs, trusted, trace, effects, taken>>

HostStep ==
    \/ \E id \in Id :
        \/ RefuseTool(id)
        \/ \E call \in CallOp :
            \/ RefuseCall(id, call)
            \/ \E o \in Op :
                \/ \E within \in BOOLEAN : RefuseOperation(id, call, o, within)
                \/ RefuseProof(id, call, o) \/ RunTool(id, call, o) \/ LoseResult(id, call, o)
    \/ FailStep
    \/ Final

RuntimeNext == HostStep \/ RuntimeExpires

RuntimeSpec == RuntimeInit /\ [][RuntimeNext]_runtimeVars

-----------------------------------------------------------------------------
(* Properties *)

\* A trace shows as allowed exactly the requests in ran, in their order; no request
\* is in it twice.
Shows(calls, ran) ==
    /\ \A i, j \in DOMAIN calls : calls[i].id = calls[j].id => i = j
    /\ \A i \in DOMAIN calls : calls[i].allowed <=> \E k \in DOMAIN ran : ran[k] = calls[i].id
    /\ \A k \in DOMAIN ran : \E i \in DOMAIN calls : calls[i].id = ran[k]
    /\ \A i, j \in DOMAIN calls, k, l \in DOMAIN ran :
           calls[i].id = ran[k] /\ calls[j].id = ran[l] /\ i < j => k < l

\* Trace creation happens on the trusted host (runtime.go:71-74): a trace that is
\* returned shows as allowed exactly the tools that ran, in their order, each once.
TraceIsExact ==
    /\ outcome = "final" => Shows(trace, effects)
    /\ \A i, j \in DOMAIN effects : effects[i] = effects[j] => i = j

\* What the tools have done in all fits the contract's budgets, although a request
\* is authorized twice and most refusals are charged.
EffectsAreBudgeted == \A b \in Budget : Limit[b] > 0 => taken[b] <= Limit[b]

\* A budget that was charged is never given back, neither by a refusal nor between the
\* two authorizations of one request (enforcer.go:208-237).
NothingIsGivenBack ==
    [][\A b \in Budget : Limit[b] > 0 => used[b] <= used'[b] /\ granted[b] <= granted'[b]]_runtimeVars

==============================================================================
