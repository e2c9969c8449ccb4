----------------------------- MODULE ReplayGuard -----------------------------
(***************************************************************************)
(* What replay protection promises to the callers that share it, whatever *)
(* the ledger behind it is made of: a key is accepted at most once, ever.  *)
(* A refusal needs no reason here, because the ledger may fail; a caller   *)
(* may vanish with its process while it waits for the answer.              *)
(***************************************************************************)
CONSTANTS Caller, Key

VARIABLES
    consumed,   \* the keys accepted so far
    asked,      \* the key each caller waits for: a set of at most one key
    answer      \* the last answer each caller was given

guardVars == <<consumed, asked, answer>>

Answer == {"none", "ok", "replay", "error"}

Init ==
    /\ consumed = {}
    /\ asked = [c \in Caller |-> {}]
    /\ answer = [c \in Caller |-> "none"]

Ask(c, k) ==
    /\ asked[c] = {}
    /\ asked' = [asked EXCEPT ![c] = {k}]
    /\ answer' = [answer EXCEPT ![c] = "none"]
    /\ UNCHANGED consumed

Accept(c, k) ==
    /\ asked[c] = {k}
    /\ k \notin consumed
    /\ consumed' = consumed \cup {k}
    /\ asked' = [asked EXCEPT ![c] = {}]
    /\ answer' = [answer EXCEPT ![c] = "ok"]

\* A refusal never consumes, not even a failed attempt to consume.
Refuse(c, why) ==
    /\ answer' = [answer EXCEPT ![c] = why]
    /\ asked' = [asked EXCEPT ![c] = {}]
    /\ UNCHANGED consumed

\* The process of the callers in gone stops: consumption survives it.
Vanish(gone) ==
    /\ asked' = [c \in Caller |-> IF c \in gone THEN {} ELSE asked[c]]
    /\ answer' = [c \in Caller |-> IF c \in gone THEN "none" ELSE answer[c]]
    /\ UNCHANGED consumed

Next ==
    \/ \E c \in Caller, k \in Key : Ask(c, k) \/ Accept(c, k)
    \/ \E c \in Caller, why \in {"replay", "error"} : Refuse(c, why)
    \/ \E gone \in SUBSET Caller : Vanish(gone)

Spec == Init /\ [][Next]_guardVars
==============================================================================
