------------------------------- MODULE Enforcer -------------------------------
(***************************************************************************)
(* The contract enforcer of pkg/enforcement/enforcer.go: the budgets that  *)
(* last for its lifetime, and what is charged when an operation is         *)
(* refused.  Authorize holds the mutex throughout and is one action.       *)
(*                                                                         *)
(* The checks of an operation against the contract alone (risk, retries,   *)
(* depths, trust, capability, pinned digest; enforcer.go:155-192) depend   *)
(* on nothing that changes and are the constant InContract.  The sums are  *)
(* those of Go's int64 and int: they wrap at MaxInt.                       *)
(***************************************************************************)
EXTENDS Integers

CONSTANTS
    Op,          \* operations, with their risk classified
    InContract,  \* those that pass the checks against the contract alone
    Amount,      \* what an operation takes from a budget
    Limit,       \* what the contract allows in all, 0 if it declares no limit
    MaxInt       \* the largest integer

Budget == {"calls", "bytes", "tokens", "mutations"}

\* Calls and mutations are counted; bytes and tokens are what the caller says.
ASSUME EnforcerAssumption ==
    /\ InContract \subseteq Op
    /\ MaxInt \in Nat \ {0}
    /\ Limit \in [Budget -> 0..MaxInt]
    /\ Amount \in [Op -> [Budget -> (-MaxInt - 1)..MaxInt]]
    /\ \A o \in Op : Amount[o]["calls"] \in {0, 1} /\ Amount[o]["mutations"] \in {0, 1}

VARIABLES
    used,        \* toolCalls, networkBytes, modelTokens, externalMutations
    granted,     \* the sum of what Enforcer.decisions allowed, where there is a limit
    expired,     \* MaxRuntimeSeconds have passed
    startupError \* a measured digest differs from the reviewed one

enforcerVars == <<used, granted, expired, startupError>>

Init ==
    /\ used = [b \in Budget |-> 0]
    /\ granted = [b \in Budget |-> 0]
    /\ expired = FALSE
    /\ startupError \in BOOLEAN

-----------------------------------------------------------------------------
(* Authorize, as functions of the budgets used so far *)

\* A sum of two integers, of which the second is not negative.
Wrap(n) == IF n > MaxInt THEN n - 2 * MaxInt - 2 ELSE n

WithinLast(u, b, n) ==      \* mutant: the limit is compared before the sum is made
    n >= 0 /\ (Limit[b] = 0 \/ u[b] <= Limit[b])

Within(u, b, n) == n >= 0 /\ (Limit[b] = 0 \/ Wrap(u[b] + n) <= Limit[b])

MutationsFirst ==           \* mutant: mutations are counted before the other budgets
    [calls |-> 2, bytes |-> 3, tokens |-> 4, mutations |-> 1]

\* The order in which the budgets are looked at.
Place == [calls |-> 1, bytes |-> 2, tokens |-> 3, mutations |-> 4]

\* Each budget that is within its limit is charged at once, whatever comes of those
\* after it; a budget an operation takes nothing from is not looked at.
Fits(u, o, b) == Amount[o][b] = 0 \/ Within(u, b, Amount[o][b])
Charged(u, o) == {b \in Budget : \A c \in Budget : Place[c] <= Place[b] => Fits(u, o, c)}

\* The answers of the operation authorizer; where none is required, "authorized".
Answer == {"authorized", "refused"}

\* What bars an operation before any budget.
Barred(o, proof) == startupError \/ expired \/ o \notin InContract \/ proof = "refused"

Allows(u, o, proof) == ~Barred(o, proof) /\ \A b \in Budget : Fits(u, o, b)

TokensForgotten(u, o, proof) ==     \* mutant: tokens are compared, not added up
    IF Barred(o, proof) THEN u
    ELSE [b \in Budget |->
            IF b \in Charged(u, o) \ {"tokens"} THEN Wrap(u[b] + Amount[o][b]) ELSE u[b]]

After(u, o, proof) ==
    IF Barred(o, proof) THEN u
    ELSE [b \in Budget |->
            IF b \in Charged(u, o) THEN Wrap(u[b] + Amount[o][b]) ELSE u[b]]

Granted(g, u, o, proof) ==
    IF Allows(u, o, proof)
    THEN [b \in Budget |-> IF Limit[b] = 0 THEN 0 ELSE g[b] + Amount[o][b]] ELSE g

-----------------------------------------------------------------------------
Authorize(o, proof) ==
    /\ used' = After(used, o, proof)
    /\ granted' = Granted(granted, used, o, proof)
    /\ UNCHANGED <<expired, startupError>>

TimeRunsOut ==
    /\ expired' = TRUE
    /\ UNCHANGED <<used, granted, startupError>>

Next ==
    \/ \E o \in Op, proof \in Answer : Authorize(o, proof)
    \/ TimeRunsOut

Spec == Init /\ [][Next]_enforcerVars

-----------------------------------------------------------------------------
(* Properties *)

\* No sum of a limited budget can wrap.
Roomy == \A o \in Op, b \in Budget :
    Limit[b] > 0 /\ Amount[o][b] > 0 => Limit[b] + Amount[o][b] <= MaxInt

TypeOK ==
    /\ used \in [Budget -> Int]
    /\ granted \in [Budget -> Int]
    /\ expired \in BOOLEAN
    /\ startupError \in BOOLEAN

\* The budgets are cumulative (contracts.go:107): all that was ever allowed stays
\* within the limit, whatever was refused in between.
BudgetsHold == \A b \in Budget : Limit[b] > 0 => granted[b] <= Limit[b]

\* Ledger (enforcer.go:133) never reports less than was allowed, although refusals
\* are charged in part; and mutations, which are counted last, exactly.
LedgerCovers == \A b \in Budget : Limit[b] > 0 =>
    /\ granted[b] <= used[b]
    /\ b = "mutations" => granted[b] = used[b]

\* The inductive invariant.
EnforcerInv ==
    /\ TypeOK
    /\ \A b \in Budget : Limit[b] > 0 => granted[b] >= 0 /\ used[b] <= Limit[b]
    /\ LedgerCovers
==============================================================================
