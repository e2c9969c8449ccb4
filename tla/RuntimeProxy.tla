------------------------------ MODULE RuntimeProxy ------------------------------
(***************************************************************************)
(* RuntimeProxy.EnforceAndExecute of internal/runtimeproxy/proxy.go in     *)
(* front of the execution gateways: the guardrail looks at the arguments   *)
(* of a tool call and redacts secrets in them, which breaks the binding of *)
(* an authorization to the arguments; the call then has to be authorized   *)
(* again, granted by a gateway, and only then runs.                        *)
(*                                                                         *)
(* A member of Proxied is a call slot of some proxy.  Arguments are        *)
(* identified with their canonical digest.                                 *)
(***************************************************************************)
EXTENDS AuthorizationGate

CONSTANTS
    Proxied,     \* the callers that are proxies
    Args,        \* argument maps, by digest
    Redacted,    \* what the redaction makes of each
    Offending,   \* those with a forbidden command or a host that is not allowed
    BoundTo,     \* the arguments each authorization is bound to
    Demanding,   \* the proxies whose configuration or policy requires authorization
    Gated,       \* those with a Gateway
    Renewing,    \* those with a Reauthorizer
    NoAuth, NoArgs, NoFunction

ASSUME ProxyAssumption ==
    /\ Proxied \subseteq Caller
    /\ Redacted \in [Args -> Args]
    /\ BoundTo \in [Auth -> Args]
    /\ NoAuth \notin Auth /\ {NoArgs, NoFunction} \cap Args = {} /\ NoArgs # NoFunction

VARIABLES
    stage,      \* how far EnforceAndExecute is
    given,      \* req.Arguments
    carried,    \* req.Authorization, then effectiveAuth
    response,   \* the Decision returned, "none" while the call lasts
    approved,   \* the callers whose response says Authorized
    ran         \* history: the arguments execFn was called with, NoFunction when its turn
                \* came and it was nil

proxyVars == <<stage, given, carried, response, approved, ran>>

Stage == {"idle", "direct", "renew", "ask", "gate"}
Decision == {"none", "ALLOW", "REDACT", "BLOCK"}

ProxyInit ==
    /\ stage = [c \in Proxied |-> "idle"]
    /\ given = [c \in Proxied |-> NoArgs]
    /\ carried = [c \in Proxied |-> NoAuth]
    /\ response = [c \in Proxied |-> "none"]
    /\ approved = {}
    /\ ran = [c \in Proxied |-> NoArgs]

\* The decision of EvaluateToolCall: commands and hosts first, then the redaction.
GuardrailDecision(a) ==
    IF a \in Offending THEN "BLOCK" ELSE IF Redacted[a] = a THEN "ALLOW" ELSE "REDACT"

Effective(c) == Redacted[given[c]]

FatePastGuardrail(c, a, x) ==    \* mutant: BLOCK of the guardrail is not the end
    IF x = NoAuth /\ c \notin Demanding THEN "direct"
    ELSE IF x = NoAuth \/ c \notin Gated THEN "blocked"
    ELSE IF Redacted[a] = a \/ BoundTo[x] = Redacted[a] THEN "ask"
    ELSE IF c \in Renewing THEN "renew"
    ELSE "blocked"

\* Where a call of c with arguments a and authorization x goes after the guardrail.
Fate(c, a, x) ==
    IF GuardrailDecision(a) = "BLOCK" THEN "blocked"
    ELSE IF x = NoAuth /\ c \notin Demanding THEN "direct"
    ELSE IF x = NoAuth \/ c \notin Gated THEN "blocked"
    ELSE IF Redacted[a] = a \/ BoundTo[x] = Redacted[a] THEN "ask"
    ELSE IF c \in Renewing THEN "renew"
    ELSE "blocked"

Respond(c, decision) ==
    /\ stage' = [stage EXCEPT ![c] = "idle"]
    /\ response' = [response EXCEPT ![c] = decision]

Receive(c, a, x) ==
    /\ stage[c] = "idle"
    /\ given' = [given EXCEPT ![c] = a]
    /\ carried' = [carried EXCEPT ![c] = x]
    /\ ran' = [ran EXCEPT ![c] = NoArgs]
    /\ approved' = approved \ {c}
    /\ IF Fate(c, a, x) = "blocked"
       THEN Respond(c, "BLOCK")
       ELSE /\ stage' = [stage EXCEPT ![c] = Fate(c, a, x)]
            /\ response' = [response EXCEPT ![c] = "none"]
    /\ UNCHANGED gateVars

\* The turn of execFn, which need not be there.
Perform(c, a) ==
    \/ ran' = [ran EXCEPT ![c] = a]
    \/ ran' = [ran EXCEPT ![c] = NoFunction]

\* No authorization was required and none came: execFn is called at once.
RunDirectly(c) ==
    /\ stage[c] = "direct"
    /\ Perform(c, Effective(c))
    /\ Respond(c, GuardrailDecision(given[c]))
    /\ UNCHANGED <<gateVars, given, carried, approved>>

\* The Reauthorizer answers with a new authorization, or with none.
Renew(c, x) ==
    /\ stage[c] = "renew"
    /\ IF x = NoAuth
       THEN Respond(c, "BLOCK") /\ UNCHANGED carried
       ELSE /\ stage' = [stage EXCEPT ![c] = "ask"]
            /\ carried' = [carried EXCEPT ![c] = x]
            /\ UNCHANGED response
    /\ UNCHANGED <<gateVars, given, approved, ran>>

\* AuthorizeAndExecute is called with the redacted arguments; one of the comparisons
\* of its first checks is between them and the ones the authorization is bound to.
AskGateway(c) ==
    /\ stage[c] = "ask"
    /\ \/ /\ BoundTo[carried[c]] = Effective(c)
          /\ Ask(c, carried[c])
          /\ stage' = [stage EXCEPT ![c] = "gate"]
          /\ UNCHANGED response
       \/ AskInVain(c, carried[c]) /\ Respond(c, "BLOCK")
    /\ UNCHANGED <<given, carried, approved, ran>>

GatewayDenies(c) ==
    /\ stage[c] = "gate" /\ Deny(c)
    /\ Respond(c, "BLOCK")
    /\ UNCHANGED <<given, carried, approved, ran>>

GatewayGrants(c) ==
    /\ stage[c] = "gate" /\ Grant(c)
    /\ UNCHANGED proxyVars

ExecuteOriginal(c) ==       \* mutant: execFn is given the arguments of the request
    /\ stage[c] = "gate" /\ Start(c)
    /\ Perform(c, given[c])
    /\ UNCHANGED <<stage, given, carried, response, approved>>

Execute(c) ==
    /\ stage[c] = "gate" /\ Start(c)
    /\ Perform(c, Effective(c))
    /\ UNCHANGED <<stage, given, carried, response, approved>>

\* The gateway returns its receipt, and the error of execFn if there was one: a
\* deadline that has passed is an outcome of its own, with or without an error.  In
\* place of a nil execFn the gateway is told that the operation was enforced.
Finish(c, outcome, failed) ==
    /\ outcome = "FAILED" => failed
    /\ outcome \in {"ATTEMPTED", "ACCEPTED", "EXECUTED"} => ~failed
    /\ ran[c] = NoFunction => ~failed /\ outcome \in {"EXECUTED", "TIMED_OUT"}
    /\ stage[c] = "gate" /\ End(c, outcome)
    /\ Respond(c, IF failed THEN "BLOCK" ELSE GuardrailDecision(given[c]))
    /\ approved' = IF failed THEN approved ELSE approved \cup {c}
    /\ UNCHANGED <<given, carried, ran>>

\* The processes of some callers stop.
ProxiesStop(gone) ==
    /\ stage' = [c \in Proxied |-> IF c \in gone THEN "idle" ELSE stage[c]]
    /\ response' = [c \in Proxied |-> IF c \in gone THEN "none" ELSE response[c]]
    /\ approved' = approved \ gone
    /\ UNCHANGED <<given, carried, ran>>

ProxyStep ==
    \E c \in Proxied :
        \/ \E a \in Args, x \in Auth \cup {NoAuth} : Receive(c, a, x)
        \/ RunDirectly(c)
        \/ \E x \in Auth \cup {NoAuth} : Renew(c, x)
        \/ AskGateway(c) \/ GatewayDenies(c) \/ GatewayGrants(c)
        \/ Execute(c)
        \/ \E outcome \in Ended, failed \in BOOLEAN : Finish(c, outcome, failed)

-----------------------------------------------------------------------------
(* Properties *)

ProxyTypeOK ==
    /\ stage \in [Proxied -> Stage]
    /\ given \in [Proxied -> Args \cup {NoArgs}]
    /\ carried \in [Proxied -> Auth \cup {NoAuth}]
    /\ response \in [Proxied -> Decision]
    /\ approved \subseteq Proxied
    /\ ran \in [Proxied -> Args \cup {NoArgs, NoFunction}]

\* What execFn gets is what the guardrail left of the arguments and, for a call that
\* needed or brought an authorization, what the authorization used is bound to; none
\* of it offends (proxy.go:209-211, 245-247).
RunsWhatWasBound ==
    \A c \in Proxied : ran[c] \notin {NoArgs, NoFunction} =>
        /\ given[c] \notin Offending
        /\ ran[c] = Effective(c)
        /\ \/ c \notin Demanding /\ carried[c] = NoAuth
           \/ carried[c] # NoAuth /\ BoundTo[carried[c]] = ran[c]

\* What a response says of its call: ALLOW and REDACT that the operation ran, if there was
\* an execFn, on the arguments as they came or on redacted ones; Authorized that a gateway
\* granted it and that it did not fail; BLOCK that it did not run, unless the receipt in the response
\* says that it failed or timed out (proxy.go:219-230, 299-324).
AnswersAreTrue ==
    \A c \in Proxied :
        /\ response[c] \in {"ALLOW", "REDACT"} =>
              /\ ran[c] # NoArgs
              /\ ran[c] # NoFunction => (response[c] = "REDACT" <=> ran[c] # given[c])
        /\ c \in approved =>
              /\ response[c] \in {"ALLOW", "REDACT"}
              /\ carried[c] # NoAuth /\ ran[c] \in {BoundTo[carried[c]], NoFunction}
              /\ receipt[c] \in Ended \ {"FAILED"}
        /\ response[c] = "BLOCK" /\ ran[c] # NoArgs => receipt[c] \in {"FAILED", "TIMED_OUT"}
==============================================================================
