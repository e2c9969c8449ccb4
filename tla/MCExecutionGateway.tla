-------------------------- MODULE MCExecutionGateway --------------------------
(* Two gateways with durable ledgers on one directory, that are handed the same *)
(* single-use authorization, bound to a file, and one that may be used again.   *)
EXTENDS ExecutionGateway, TLC

CONSTANTS a1, b1, A, B, k1, once, often, decision, subject

MCCaller == {a1, b1}
MCProcess == {A, B}
MCRuns == a1 :> A @@ b1 :> B
MCKey == {k1}
MCAuth == {once, often}
MCKeyOf == [a \in MCAuth |-> k1]
MCSingleUse == {once}
MCBound == {once}
MCRevocable == {decision}
MCNamesOf == [a \in MCAuth |-> {decision}]
MCSubject == {subject}
MCSubjectOf == [a \in MCAuth |-> subject]
==============================================================================
