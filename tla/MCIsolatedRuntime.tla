--------------------------- MODULE MCIsolatedRuntime ---------------------------
(* A tool that only counts as a call, one that sends, and one whose derived   *)
(* operation counts as another call; four identities for three steps.         *)
EXTENDS IsolatedRuntime, TLC

CONSTANTS r1, r2, r3, r4

Takes(calls, bytes, tokens, mutations) ==
    [calls |-> calls, bytes |-> bytes, tokens |-> tokens, mutations |-> mutations]

MCAmount == [call |-> Takes(1, 0, 0, 0),
             send |-> Takes(0, 2, 0, 0),
             invoke |-> Takes(1, 1, 0, 1),
             ask |-> Takes(0, 0, 2, 0),
             post |-> Takes(0, 3, 1, 1),
             odd |-> Takes(0, 0, -1, 0),
             stranger |-> Takes(0, 1, 0, 0)]
MCOp == DOMAIN MCAmount
MCInContract == MCOp \ {"stranger"}
MCCallOp == {"call"}
MCLimit == Takes(3, 4, 3, 1)
MCId == {r1, r2, r3, r4}
Perms == Permutations(MCId)
==============================================================================
