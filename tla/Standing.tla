------------------------------- MODULE Standing -------------------------------
(***************************************************************************)
(* What an assurance oracle promises to the gateway that asks it: a        *)
(* subject is in good standing only from a registration on, and standing   *)
(* that was withdrawn comes back with another registration and in no other *)
(* way.                                                                    *)
(***************************************************************************)
CONSTANT Subject

VARIABLE standing

Init == standing = [s \in Subject |-> "none"]

Register(s, good) ==
    standing' = [standing EXCEPT ![s] = IF good THEN "good" ELSE "withdrawn"]

\* One drift may cost any number of subjects their standing.
Withdraw(affected) ==
    /\ \A s \in affected : standing[s] # "none"
    /\ standing' = [s \in Subject |-> IF s \in affected THEN "withdrawn" ELSE standing[s]]

Next ==
    \/ \E s \in Subject, good \in BOOLEAN : Register(s, good)
    \/ \E affected \in SUBSET Subject : Withdraw(affected)

\* Standing changes in two ways only.
Spec == Init /\ [][Next]_standing
==============================================================================
