----------------------------- MODULE MCStateFiles -----------------------------
(* Instances of StateFiles: two commands at a time, two digests to revoke, one *)
(* catalog entry, two subjects of a continuous check.                         *)
EXTENDS StateFiles, TLC

CONSTANTS p1, p2, d1, d2, k1, x1, x2

MCProcess == {p1, p2}
MCDigest == {d1, d2}
MCSkill == {k1}
MCSubject == {x1, x2}
MCSymmetry == Permutations(MCProcess) \cup Permutations(MCDigest) \cup Permutations(MCSubject)
===============================================================================
