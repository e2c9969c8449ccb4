----------------------------- MODULE AttemptLedger -----------------------------
(***************************************************************************)
(* AttemptLedger of internal/provider/semantic/terminal.go: the attempts   *)
(* of one exchange with a provider, that may only be repeated while no     *)
(* output has come out of it.  Every method holds the mutex of the ledger  *)
(* and is one action.  The attempts themselves run outside: they emit      *)
(* output, and report it with their outcome when they finish, so Begin can *)
(* only know of output that has been reported.                             *)
(*                                                                         *)
(* A call that is refused changes nothing and is left out.                 *)
(***************************************************************************)
EXTENDS Naturals, Sequences, FiniteSets

CONSTANTS
    Id,          \* identities of attempts, none of them blank
    maxRetries   \* after the negative ones were made 0

ASSUME AttemptAssumption == maxRetries \in Nat

VARIABLES
    attempts,    \* the identities in AttemptLedger.attempts, in their order
    outcome,     \* their Outcome, "NONE" (the empty one) until they are finished
    emitted,     \* those whose OutputEmitted is set
    wrote,       \* those that have in fact emitted output
    overlapped   \* history: some attempt began while another was unfinished

vars == <<attempts, outcome, emitted, wrote, overlapped>>

\* TerminalOutcome.  Finish takes any of them, also RETRY_EXHAUSTED, which Terminal says
\* of the exchange, and the empty one, which leaves the attempt unfinished.
Failure == {"TRANSPORT_ERROR", "CANCELLED", "DEADLINE_EXCEEDED", "SCHEMA_INVALID",
            "PROTOCOL_ERROR", "RETRY_EXHAUSTED"}
Reported == {"COMPLETE"} \cup Failure

Init ==
    /\ attempts = <<>>
    /\ outcome = [id \in Id |-> "NONE"]
    /\ emitted = {}
    /\ wrote = {}
    /\ overlapped = FALSE

Recorded == {attempts[i] : i \in DOMAIN attempts}
Unfinished == {id \in Recorded : outcome[id] = "NONE"}
Last == attempts[Len(attempts)]

-----------------------------------------------------------------------------
BeginAfterOutput(id) ==     \* mutant: output already emitted is no obstacle
    /\ id \notin Recorded
    /\ \A a \in Recorded : outcome[a] # "COMPLETE"
    /\ Len(attempts) <= maxRetries
    /\ attempts' = Append(attempts, id)
    /\ overlapped' = (overlapped \/ Unfinished # {})
    /\ UNCHANGED <<outcome, emitted, wrote>>

BeginAfterCompletion(id) == \* mutant: nor is a completed attempt without output
    /\ id \notin Recorded
    /\ \A a \in Recorded : a \notin emitted
    /\ Len(attempts) <= maxRetries
    /\ attempts' = Append(attempts, id)
    /\ overlapped' = (overlapped \/ Unfinished # {})
    /\ UNCHANGED <<outcome, emitted, wrote>>

Begin(id) ==
    /\ id \notin Recorded
    /\ \A a \in Recorded : outcome[a] # "COMPLETE" /\ a \notin emitted
    /\ Len(attempts) <= maxRetries
    /\ attempts' = Append(attempts, id)
    /\ overlapped' = (overlapped \/ Unfinished # {})
    /\ UNCHANGED <<outcome, emitted, wrote>>

\* An attempt under way passes output on.
Emit(id) ==
    /\ id \in Unfinished
    /\ wrote' = wrote \cup {id}
    /\ UNCHANGED <<attempts, outcome, emitted, overlapped>>

FinishAgain(id, end) ==     \* mutant: a late answer replaces the outcome
    /\ id \in Recorded
    /\ outcome' = [outcome EXCEPT ![id] = end]
    /\ emitted' = IF id \in wrote THEN emitted \cup {id} ELSE emitted
    /\ UNCHANGED <<attempts, wrote, overlapped>>

\* The caller reports the output that was emitted.
Finish(id, end) ==
    /\ id \in Unfinished
    /\ outcome' = [outcome EXCEPT ![id] = end]
    /\ emitted' = IF id \in wrote THEN emitted \cup {id} ELSE emitted
    /\ UNCHANGED <<attempts, wrote, overlapped>>

\* Terminal, in the order of its returns.
Terminal ==
    IF attempts = <<>> \/ outcome[Last] = "NONE" THEN "PROTOCOL_ERROR"
    ELSE IF outcome[Last] # "COMPLETE" /\ Len(attempts) > maxRetries
         THEN "RETRY_EXHAUSTED" ELSE outcome[Last]

Next ==
    \/ \E id \in Id : Begin(id) \/ Emit(id)
    \/ \E id \in Id, end \in Reported \cup {"NONE"} : Finish(id, end)

Spec == Init /\ [][Next]_vars

-----------------------------------------------------------------------------
(* Properties *)

TypeOK ==
    /\ attempts \in Seq(Id)
    /\ outcome \in [Id -> Reported \cup {"NONE"}]
    /\ emitted \in SUBSET Id
    /\ wrote \in SUBSET Id
    /\ overlapped \in BOOLEAN

\* "A retry is permitted only while no output has been emitted by any prior
\* attempt" (terminal.go:178): with attempts one after the other, what the exchange
\* emits comes from one attempt, the last, and so does a completion.
OutputFromOneAttempt == ~overlapped =>
    \A id \in Recorded : id \in wrote \/ outcome[id] = "COMPLETE" => id = Last

\* The exchange is over: it is complete, or the attempts are used up and the last failed.
Settled == Terminal = "COMPLETE" \/ (Terminal = "RETRY_EXHAUSTED" /\ Len(attempts) > maxRetries)

\* A verdict that ends the exchange is final: whatever begins, finishes late or is
\* reported twice, COMPLETE is not taken back, and RETRY_EXHAUSTED is not once no attempt
\* is left (an attempt may have reported it of itself before).
VerdictIsFinal == [][Settled => Terminal' = Terminal]_vars

\* The inductive invariant: identities are unique, the budget is kept, the output
\* of a finished attempt is known, and only the last attempt is unfinished unless
\* attempts overlapped.
AttemptInv ==
    /\ TypeOK
    /\ Len(attempts) <= maxRetries + 1
    /\ \A i, j \in DOMAIN attempts : attempts[i] = attempts[j] => i = j
    /\ emitted \subseteq wrote /\ wrote \subseteq Recorded
    /\ \A id \in Id \ Recorded : outcome[id] = "NONE"
    /\ \A id \in Recorded : outcome[id] # "NONE" => (id \in wrote => id \in emitted)
    /\ ~overlapped => \A id \in Unfinished : id = Last
    /\ OutputFromOneAttempt
==============================================================================
