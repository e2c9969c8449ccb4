--------------------------- MODULE AuthorizationGate ---------------------------
(***************************************************************************)
(* What the execution gateways promise to the guards in front of the tools *)
(* of an agent: an authorization is asked for, then denied or granted, and *)
(* only a granted operation runs.  A single-use authorization is granted   *)
(* at most once, ever, to whichever caller.  The receipt of a call says    *)
(* how far it came.                                                        *)
(***************************************************************************)
CONSTANTS Caller, Auth, Key, KeyOf, SingleUse

VARIABLES
    granted,    \* the keys of the single-use authorizations granted so far
    phase,      \* how far the call of each caller is
    asked,      \* the authorization of its current or last call
    receipt     \* the outcome of its last call, "none" while it lasts

gateVars == <<granted, phase, asked, receipt>>

Phase == {"idle", "asking", "granted", "running"}
Ended == {"ATTEMPTED", "ACCEPTED", "EXECUTED", "FAILED", "TIMED_OUT"}

Init ==
    /\ granted = {}
    /\ phase = [c \in Caller |-> "idle"]
    /\ asked \in [Caller -> Auth]
    /\ receipt = [c \in Caller |-> "none"]

Ask(c, a) ==
    /\ phase[c] = "idle"
    /\ phase' = [phase EXCEPT ![c] = "asking"]
    /\ asked' = [asked EXCEPT ![c] = a]
    /\ receipt' = [receipt EXCEPT ![c] = "none"]
    /\ UNCHANGED granted

\* Denied at once.
AskInVain(c, a) ==
    /\ phase[c] = "idle"
    /\ asked' = [asked EXCEPT ![c] = a]
    /\ receipt' = [receipt EXCEPT ![c] = "DENIED"]
    /\ UNCHANGED <<granted, phase>>

\* A denial needs no reason here, and grants nothing.
Deny(c) ==
    /\ phase[c] = "asking"
    /\ phase' = [phase EXCEPT ![c] = "idle"]
    /\ receipt' = [receipt EXCEPT ![c] = "DENIED"]
    /\ UNCHANGED <<granted, asked>>

Grant(c) ==
    /\ phase[c] = "asking"
    /\ phase' = [phase EXCEPT ![c] = "granted"]
    /\ IF asked[c] \in SingleUse
       THEN /\ KeyOf[asked[c]] \notin granted
            /\ granted' = granted \cup {KeyOf[asked[c]]}
       ELSE UNCHANGED granted
    /\ UNCHANGED <<asked, receipt>>

\* There is nothing to run.
Leave(c) ==
    /\ phase[c] = "granted"
    /\ phase' = [phase EXCEPT ![c] = "idle"]
    /\ receipt' = [receipt EXCEPT ![c] = "AUTHORIZED"]
    /\ UNCHANGED <<granted, asked>>

Start(c) ==
    /\ phase[c] = "granted"
    /\ phase' = [phase EXCEPT ![c] = "running"]
    /\ UNCHANGED <<granted, asked, receipt>>

End(c, outcome) ==
    /\ phase[c] = "running"
    /\ phase' = [phase EXCEPT ![c] = "idle"]
    /\ receipt' = [receipt EXCEPT ![c] = outcome]
    /\ UNCHANGED <<granted, asked>>

\* The process of the callers in gone stops: what was granted stays granted.
Vanish(gone) ==
    /\ phase' = [c \in Caller |-> IF c \in gone THEN "idle" ELSE phase[c]]
    /\ receipt' = [c \in Caller |-> IF c \in gone THEN "none" ELSE receipt[c]]
    /\ UNCHANGED <<granted, asked>>

Next ==
    \/ \E c \in Caller, a \in Auth : Ask(c, a) \/ AskInVain(c, a)
    \/ \E c \in Caller : Deny(c) \/ Grant(c) \/ Leave(c) \/ Start(c)
    \/ \E c \in Caller, outcome \in Ended : End(c, outcome)
    \/ \E gone \in SUBSET Caller : Vanish(gone)

Spec == Init /\ [][Next]_gateVars
===============================================================================
