---------------------------- MODULE MCNonceLedger ----------------------------
(* Two processes with a durable ledger, one of them with two goroutines, and *)
(* one process with an in-memory ledger and two goroutines, all of which     *)
(* replay one key.                                                           *)
EXTENDS NonceLedger, TLC

CONSTANTS a1, a2, b1, m1, m2, A, B, M, k1

MCCaller == {a1, a2, b1, m1, m2}
MCProcess == {A, B, M}
MCRuns == a1 :> A @@ a2 :> A @@ b1 :> B @@ m1 :> M @@ m2 :> M
MCDurable == {A, B}
MCKey == {k1}
==============================================================================
