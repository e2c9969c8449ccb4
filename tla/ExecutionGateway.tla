--------------------------- MODULE ExecutionGateway ---------------------------
(***************************************************************************)
(* ExecutionGateway of internal/receipt/authorization.go, composed with    *)
(* the nonce ledgers: several processes run a gateway each, their          *)
(* goroutines validate execution authorizations and run the operations     *)
(* these permit.  ValidateAuthorization reads one source after another     *)
(* (the revocations under a lock, the assurance oracle, the file or schema *)
(* that was bound, the ledger), each of which may change before the next   *)
(* is read and before the operation runs.                                  *)
(*                                                                         *)
(* The checks that compare an authorization with the request, the trusted  *)
(* keys and the time read on entry are one input: passes.                  *)
(***************************************************************************)
EXTENDS NonceLedger

CONSTANTS
    Auth,        \* execution authorizations
    KeyOf,       \* the (AuthorizationID, Nonce) of each
    SingleUse,   \* those whose SingleUse is set
    Revocable,   \* decision IDs, subject digests, evidence digests
    NamesOf,     \* what each authorization rests on, of these
    Subject,     \* subject digests the oracle knows
    SubjectOf,   \* the subject of each authorization
    Bound        \* those for filesystem.* and mcp.* capabilities

ASSUME GatewayAssumption ==
    /\ KeyOf \in [Auth -> Key]
    /\ SingleUse \subseteq Auth
    /\ NamesOf \in [Auth -> SUBSET Revocable]
    /\ SubjectOf \in [Auth -> Subject]
    /\ Bound \subseteq Auth

VARIABLES
    standing,   \* the oracle behind IsAssuranceValid
    intact,     \* the bound file or tool schema is as it was when authorized
    revoked,    \* RevokedDecisions and RevokedDigests of each gateway
    gw,         \* where each caller is in AuthorizeAndExecute
    auth,       \* the authorization of its current or last call
    receipt,    \* ExecutionOutcome of the last receipt
    ran,        \* history: what the operation of the call did
    before,     \* history: what was revoked on the gateway when the call in flight began
    held,       \* history: what has held at some moment of the call in flight
    runs,       \* history: operations run by durable gateways per single-use key
    proofs,     \* history: EXECUTED receipts of durable gateways, likewise
    warranted   \* history: the keys there has been a reason to spend

oracleVars == <<standing, intact>>
callVars == <<gw, auth, receipt, ran, before, held, runs, proofs, warranted>>
vars == <<ledgerVars, oracleVars, revoked, callVars>>

GatewayPlace == {"idle", "revocation", "oracle", "binding", "consume", "authorized", "running"}
Outcome == {"none", "DENIED", "AUTHORIZED", "ATTEMPTED", "ACCEPTED", "EXECUTED",
            "FAILED", "TIMED_OUT"}
Effect == {"no", "started", "finished", "enforced"}
Fact == {"standing", "intact"}

Oracle == INSTANCE Standing

\* What holds in a state for the authorization a.
Holds(a) ==
    (IF standing[SubjectOf[a]] = "good" THEN {"standing"} ELSE {})
        \cup (IF intact \/ a \notin Bound THEN {"intact"} ELSE {})

Init ==
    /\ LedgerInit
    /\ Oracle!Init
    /\ intact \in BOOLEAN
    /\ revoked = [p \in Process |-> {}]
    /\ gw = [c \in Caller |-> "idle"]
    /\ auth \in [Caller -> Auth]
    /\ receipt = [c \in Caller |-> "none"]
    /\ ran = [c \in Caller |-> "no"]
    /\ before = [c \in Caller |-> {}]
    /\ held = [c \in Caller |-> {}]
    /\ runs = [k \in Key |-> 0]
    /\ proofs = [k \in Key |-> 0]
    /\ warranted = {}

-----------------------------------------------------------------------------
(* The world around the gateways. *)

\* Every call in progress sees the fact it may have to rely on.
Observe ==
    held' = [c \in Caller |->
        IF gw[c] = "idle" THEN held[c]
        ELSE held[c] \cup Holds(auth[c])']

StandingChanges ==
    /\ Oracle!Next
    /\ UNCHANGED intact
    /\ UNCHANGED <<ledgerVars, revoked, gw, auth, receipt, ran, before, runs, proofs, warranted>>
    /\ Observe

BindingChanges ==
    /\ intact' = ~intact
    /\ UNCHANGED standing
    /\ UNCHANGED <<ledgerVars, revoked, gw, auth, receipt, ran, before, runs, proofs, warranted>>
    /\ Observe

\* RevokeDecision, RevokeDigest: under the write lock, on one gateway.
Revoke(p, x) ==
    /\ revoked' = [revoked EXCEPT ![p] = @ \cup {x}]
    /\ UNCHANGED <<ledgerVars, oracleVars, callVars>>

-----------------------------------------------------------------------------
(* ValidateAuthorization. *)

Enter(c, place) ==
    /\ gw' = [gw EXCEPT ![c] = place]
    /\ UNCHANGED <<receipt, before, held>>

Issue(c, outcome) ==
    /\ gw' = [gw EXCEPT ![c] = "idle"]
    /\ receipt' = [receipt EXCEPT ![c] = outcome]
    /\ before' = [before EXCEPT ![c] = {}]
    /\ held' = [held EXCEPT ![c] = {}]

\* Checks 1 to 8: structure, signature, issuer, time, audience, subject, agent,
\* session, operation, arguments, scope and active policy.
Submit(c, a, passes) ==
    /\ gw[c] = "idle"
    /\ auth' = [auth EXCEPT ![c] = a]
    /\ ran' = [ran EXCEPT ![c] = "no"]
    /\ IF passes
       THEN /\ gw' = [gw EXCEPT ![c] = "revocation"]
            /\ receipt' = [receipt EXCEPT ![c] = "none"]
            /\ before' = [before EXCEPT ![c] = revoked[Runs[c]]]
            /\ held' = [held EXCEPT ![c] = Holds(a)]
       ELSE Issue(c, "DENIED")
    /\ UNCHANGED <<ledgerVars, oracleVars, revoked, runs, proofs, warranted>>

CheckRevocation(c) ==
    /\ gw[c] = "revocation"
    /\ IF NamesOf[auth[c]] \cap revoked[Runs[c]] = {}
       THEN Enter(c, "oracle")
       ELSE Issue(c, "DENIED")
    /\ UNCHANGED <<ledgerVars, oracleVars, revoked, auth, ran, runs, proofs, warranted>>

AskOracleInVain(c) ==        \* mutant: a refusal is not the end of the call
    /\ gw[c] = "oracle"
    /\ Enter(c, "binding")
    /\ UNCHANGED <<ledgerVars, oracleVars, revoked, auth, ran, runs, proofs, warranted>>

\* The oracle may refuse a subject in good standing: expiry, a missed heartbeat,
\* another decision.  A gateway may have no oracle, but not in this model.
AskOracle(c) ==
    /\ gw[c] = "oracle"
    /\ \/ standing[SubjectOf[auth[c]]] = "good" /\ Enter(c, "binding")
       \/ Issue(c, "DENIED")
    /\ UNCHANGED <<ledgerVars, oracleVars, revoked, auth, ran, runs, proofs, warranted>>

CheckBindingOnly(c) ==      \* mutant: SingleUse is not looked at
    /\ gw[c] = "binding"
    /\ IF intact \/ auth[c] \notin Bound THEN Enter(c, "authorized") ELSE Issue(c, "DENIED")
    /\ UNCHANGED <<ledgerVars, oracleVars, revoked, auth, ran, runs, proofs, warranted>>

\* VerifyFileIdentityAtUse, or the schema of the MCP tool against the binding; other
\* capabilities have no binding to check.
CheckBinding(c) ==
    /\ gw[c] = "binding"
    /\ IF intact \/ auth[c] \notin Bound
       THEN Enter(c, IF auth[c] \in SingleUse THEN "consume" ELSE "authorized")
       ELSE Issue(c, "DENIED")
    /\ UNCHANGED <<ledgerVars, oracleVars, revoked, auth, ran, runs, proofs, warranted>>

\* Check 11: the call of Consume, and what ValidateAuthorization makes of it.
CallConsume(c) ==
    /\ gw[c] = "consume"
    /\ Call(c, KeyOf[auth[c]])
    /\ UNCHANGED <<oracleVars, revoked, callVars>>

VerdictThenBinding(c) ==    \* mutant: the binding is checked after the nonce
    IF result'[c] = "ok" /\ intact THEN Enter(c, "authorized") ELSE Issue(c, "DENIED")

VerdictLenient(c) ==        \* mutant: a replay error does not deny
    IF result'[c] # "error" THEN Enter(c, "authorized") ELSE Issue(c, "DENIED")

Verdict(c) ==
    IF result'[c] = "ok" THEN Enter(c, "authorized") ELSE Issue(c, "DENIED")

\* Neither the writing of the entry nor its removal has succeeded.
EntryStays(c) == at[c] = "unlink" /\ key[c] \in entries'

LedgerStep(c) ==
    /\ Lock(c) \/ Step(c)
    /\ IF at'[c] = "idle"
       THEN Verdict(c)
       ELSE UNCHANGED <<gw, receipt, before, held>>
    /\ warranted' = IF gw'[c] = "authorized" \/ EntryStays(c)
                    THEN warranted \cup {key[c]} ELSE warranted
    /\ UNCHANGED <<oracleVars, revoked, auth, ran, runs, proofs>>

-----------------------------------------------------------------------------
(* AuthorizeAndExecute, after the validation. *)

\* No operation handler: the receipt says AUTHORIZED and nothing runs.
AuthorizeOnly(c) ==
    /\ gw[c] = "authorized"
    /\ Issue(c, "AUTHORIZED")
    /\ UNCHANGED <<ledgerVars, oracleVars, revoked, auth, ran, runs, proofs, warranted>>

\* The runs and proofs that are counted.
Counted(c) == Durable(c) /\ auth[c] \in SingleUse

StartOperation(c) ==
    /\ gw[c] = "authorized"
    /\ Enter(c, "running")
    /\ ran' = [ran EXCEPT ![c] = "started"]
    /\ runs' = IF Counted(c) THEN [runs EXCEPT ![KeyOf[auth[c]]] = @ + 1] ELSE runs
    /\ UNCHANGED <<ledgerVars, oracleVars, revoked, auth, proofs, warranted>>

\* mutant: acceptance by the transport passes for execution
OutcomeOptimistic(timedOut, failed, accepted, enforced) ==
    CASE timedOut              -> "TIMED_OUT"
      [] ~timedOut /\ failed   -> "FAILED"
      [] ~timedOut /\ ~failed /\ ~accepted -> "ATTEMPTED"
      [] OTHER                 -> "EXECUTED"

\* The switch over the error, the deadline of the context and the result.
OutcomeOf(timedOut, failed, accepted, enforced) ==
    CASE timedOut              -> "TIMED_OUT"
      [] ~timedOut /\ failed   -> "FAILED"
      [] ~timedOut /\ ~failed /\ ~accepted -> "ATTEMPTED"
      [] ~timedOut /\ ~failed /\ accepted /\ ~enforced -> "ACCEPTED"
      [] OTHER                 -> "EXECUTED"

EndOperation(c, timedOut, failed, accepted, enforced) ==
    /\ gw[c] = "running"
    /\ ran' = [ran EXCEPT ![c] = IF ~failed /\ accepted /\ enforced
                                 THEN "enforced" ELSE "finished"]
    /\ Issue(c, OutcomeOf(timedOut, failed, accepted, enforced))
    /\ proofs' = IF Counted(c) /\ receipt'[c] = "EXECUTED"
                 THEN [proofs EXCEPT ![KeyOf[auth[c]]] = @ + 1] ELSE proofs
    /\ UNCHANGED <<ledgerVars, oracleVars, revoked, auth, runs, warranted>>

\* A restart ends the calls of the process and empties the maps of revocations,
\* which are kept in memory only.
RestartProcess(p) ==
    LET mine(c) == Runs[c] = p
    IN  /\ Restart(p)
        /\ revoked' = [revoked EXCEPT ![p] = {}]
        /\ gw' = [c \in Caller |-> IF mine(c) THEN "idle" ELSE gw[c]]
        /\ receipt' = [c \in Caller |-> IF mine(c) THEN "none" ELSE receipt[c]]
        /\ ran' = [c \in Caller |-> IF mine(c) THEN "no" ELSE ran[c]]
        /\ warranted' = warranted \cup
               {key[c] : c \in {d \in DurableCaller : mine(d) /\ at[d] \in Holding}}
        /\ before' = [c \in Caller |-> IF mine(c) THEN {} ELSE before[c]]
        /\ held' = [c \in Caller |-> IF mine(c) THEN {} ELSE held[c]]
        /\ UNCHANGED <<oracleVars, auth, runs, proofs>>

-----------------------------------------------------------------------------
Next ==
    \/ StandingChanges
    \/ BindingChanges
    \/ \E p \in Process, x \in Revocable : Revoke(p, x)
    \/ \E c \in Caller, a \in Auth, passes \in BOOLEAN : Submit(c, a, passes)
    \/ \E c \in Caller :
          \/ CheckRevocation(c)
          \/ AskOracle(c)
          \/ CheckBinding(c)
          \/ CallConsume(c)
          \/ LedgerStep(c)
          \/ AuthorizeOnly(c)
          \/ StartOperation(c)
    \/ \E c \in Caller, timedOut, failed, accepted, enforced \in BOOLEAN :
          EndOperation(c, timedOut, failed, accepted, enforced)
    \/ \E p \in Process : RestartProcess(p)

Spec == Init /\ [][Next]_vars

-----------------------------------------------------------------------------
(* Properties *)

\* Types of the gateways and of the calls in flight.
TypeOK ==
    /\ LedgerTypeOK
    /\ standing \in [Subject -> {"none", "good", "withdrawn"}]
    /\ intact \in BOOLEAN
    /\ revoked \in [Process -> SUBSET Revocable]
    /\ gw \in [Caller -> GatewayPlace]
    /\ auth \in [Caller -> Auth]
    /\ receipt \in [Caller -> Outcome]
    /\ ran \in [Caller -> Effect]
    /\ before \in [Caller -> SUBSET Revocable]
    /\ held \in [Caller -> SUBSET Fact]
    /\ runs \in [Key -> Nat]
    /\ proofs \in [Key -> Nat]
    /\ warranted \subseteq Key

\* A single-use authorization executes at most once on durable gateways, and at
\* most one receipt proves an enforced execution of it: over all processes,
\* goroutines, failed writes and restarts.
ExecutedAtMostOnce == \A k \in Key : proofs[k] <= runs[k] /\ runs[k] <= 1

\* "consumed only after all validation checks pass" (authorization.go:711): no nonce
\* is used up without a reason.  A key in a map was granted to a call; a key with an
\* entry was granted, or is being taken now, or the process stopped while it was, or
\* the entry could neither be written nor removed.  But for the last, a call that
\* ends DENIED leaves its authorization as good as it was.
DenialSpendsNothing == \A k \in Key :
    /\ k \in entries =>
          \/ k \in warranted
          \/ \E c \in DurableCaller : at[c] \in Holding /\ key[c] = k
    /\ (\E p \in Process : k \in seen[p]) => k \in warranted

\* No operation runs on an authorization that was revoked on this gateway before
\* the call began, or whose assurance or binding failed all through the call.
EveryRunWasJustified == \A c \in Caller :
    gw[c] \in {"authorized", "running"} =>
        /\ NamesOf[auth[c]] \cap before[c] = {}
        /\ held[c] = Fact

\* AuthorizeAndExecute "truthfully distinguishes DENIED, FAILED, TIMED_OUT,
\* ACCEPTED, and EXECUTED" (authorization.go:875): EXECUTED means enforced,
\* DENIED and AUTHORIZED mean that nothing ran, and what ran leaves another receipt.
ReceiptsAreTruthful == \A c \in Caller :
    /\ receipt[c] = "EXECUTED" => ran[c] = "enforced"
    /\ receipt[c] \in {"DENIED", "AUTHORIZED"} => ran[c] = "no"
    /\ (gw[c] = "idle" /\ ran[c] # "no") =>
          receipt[c] \notin {"none", "DENIED", "AUTHORIZED"}

\* How far a call is, for the abstract gate.
PhaseOf(c) ==
    IF gw[c] \in {"idle", "running"} THEN gw[c]
    ELSE IF gw[c] = "authorized" THEN "granted" ELSE "asking"

\* The abstract gate, seen by the callers of durable gateways.
Gate == INSTANCE AuthorizationGate WITH
    Caller <- DurableCaller,
    granted <- {k \in Key : total[k] > 0},
    phase <- [c \in DurableCaller |-> PhaseOf(c)],
    asked <- [c \in DurableCaller |-> auth[c]],
    receipt <- [c \in DurableCaller |-> receipt[c]]

\* The gateways implement the gate: between the checks and the ledger, restarts and
\* other processes, each call is denied or granted once, and only then runs.
ImplementsGate == Gate!Spec

-----------------------------------------------------------------------------
(* The inductive invariant. *)

\* Under way with an operation that counts: told "ok" for its key, or running.
Entitled(c) == gw[c] \in {"authorized", "running"} /\ Counted(c)

\* Behind ExecutedAtMostOnce: one accepted key entitles one caller to one run.
GrantInv ==
    /\ \A c \in Caller : at[c] # "idle" =>
          gw[c] = "consume" /\ key[c] = KeyOf[auth[c]] /\ auth[c] \in SingleUse
    /\ \A c \in Caller : Entitled(c) =>
          /\ total[KeyOf[auth[c]]] = 1
          /\ runs[KeyOf[auth[c]]] = IF gw[c] = "running" THEN 1 ELSE 0
          /\ proofs[KeyOf[auth[c]]] = 0
    /\ \A c, d \in Caller :
          Entitled(c) /\ Entitled(d) /\ KeyOf[auth[c]] = KeyOf[auth[d]] => c = d
    /\ \A k \in Key : proofs[k] <= runs[k] /\ runs[k] <= total[k]

PastBinding == {"consume", "authorized", "running"}
PastOracle == {"binding"} \cup PastBinding
PastRevocation == {"oracle"} \cup PastOracle

\* Behind the properties of single calls: what each check passed has settled.
CallInv ==
    \A c \in Caller :
        /\ gw[c] # "idle" =>
              /\ receipt[c] = "none"
              /\ ran[c] = IF gw[c] = "running" THEN "started" ELSE "no"
              /\ before[c] \subseteq revoked[Runs[c]]
              /\ Holds(auth[c]) \subseteq held[c]
        /\ gw[c] \in PastRevocation => NamesOf[auth[c]] \cap before[c] = {}
        /\ gw[c] \in PastOracle => "standing" \in held[c]
        /\ gw[c] \in PastBinding => "intact" \in held[c]
        /\ gw[c] = "consume" => auth[c] \in SingleUse

GatewayInv ==
    /\ TypeOK
    /\ LedgerInv
    /\ GrantInv
    /\ CallInv
    /\ DenialSpendsNothing
    /\ ReceiptsAreTruthful
==============================================================================
