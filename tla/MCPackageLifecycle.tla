-------------------------- MODULE MCPackageLifecycle --------------------------
(* Instances of PackageLifecycle: one name in two versions, the first of them *)
(* in two builds, and another name whose package the policy may deny.         *)
EXTENDS PackageLifecycle, TLC

CONSTANTS p1, p2, a1, a1b, a2, b1

MCProcess == {p1, p2}
MCPackage == {a1, a1b, a2, b1}
MCRebuilt == {a1, a1b, a2}
MCName == [k \in MCPackage |-> IF k = b1 THEN "b" ELSE "a"]
MCVersion == [k \in MCPackage |-> IF k = a2 THEN 2 ELSE 1]
MCSymmetry == Permutations(MCProcess)
===============================================================================
