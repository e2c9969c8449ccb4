---------------------------- MODULE ReferenceWalk ----------------------------
(***************************************************************************)
(* skil scan --transitive (internal/transitive/transitive.go, Run): the    *)
(* references in the artifact's content are followed in their sorted       *)
(* order, each is fetched and scanned, and its own references are walked   *)
(* before the next one, down to a depth.  What is not followed stays in    *)
(* the result as an unresolved node.  Then the nodes make up the assurance *)
(* closure (BuildAssuranceClosureFromScan, and Finalize in                 *)
(* internal/assurance/closure.go).                                         *)
(*                                                                         *)
(* An address is its place in the sorted order; 0 stands for the root.     *)
(***************************************************************************)
EXTENDS Naturals, Sequences, FiniteSets

CONSTANTS
    Limit,         \* the greatest address
    Depth,         \* the number of hops that are followed
    MaxTargets,    \* the number of references that may be fetched
    Denied,        \* addresses the allow and deny prefixes exclude
    Content,       \* the references a page may have
    Child          \* what the scan of a fetched reference may say

ASSUME WalkAssumption ==
    /\ Limit \in Nat /\ Depth \in Nat \ {0} /\ MaxTargets \in Nat
    /\ Denied \subseteq 1 .. Limit /\ Content \subseteq SUBSET (1 .. Limit)
    /\ \A child \in Child : child.max \in 0 .. 3

Address == 1 .. Limit
Root == 0

\* A node of the reference graph: how is what became of it.
Node == [url : Address, parent : Root .. Limit, depth : 1 .. Depth + 1,
         how : {"fetched", "skipped", "known"}]
Frame == [at : Root .. Limit, todo : SUBSET Address]

VARIABLES
    stack,     \* the pages being walked, and the references of each still to be visited
    seen,      \* addresses that were visited
    nodes,     \* the reference graph so far
    refs,      \* the references in each page that was read
    scans,     \* the scan of each page that was fetched
    targets    \* how many more references may be fetched

walkVars == <<stack, seen, nodes, refs, scans, targets>>

NotWalked ==
    /\ stack = <<>> /\ seen = {} /\ nodes = {}
    /\ refs = [u \in Root .. Limit |-> {}]
    /\ scans = [u \in {} |-> 0]
    /\ targets = MaxTargets

Walking == stack # <<>>
Top == stack[Len(stack)]
Current == CHOOSE u \in Top.todo : \A v \in Top.todo : u <= v
Rest == [stack EXCEPT ![Len(stack)].todo = @ \ {Current}]
Visited(how) == [url |-> Current, parent |-> Top.at, depth |-> Len(stack), how |-> how]
Visits == Walking /\ Top.todo # {}

\* The walk of the artifact itself, whose references are content.
StartWalk(content) ==
    /\ refs' = [refs EXCEPT ![Root] = content]
    /\ stack' = <<[at |-> Root, todo |-> content]>>
    /\ UNCHANGED <<seen, nodes, scans, targets>>

\* A reference that was visited before, whatever came of it, is an edge only.
Known ==
    /\ Visits /\ Current \in seen
    /\ nodes' = nodes \cup {Visited("known")}
    /\ stack' = Rest
    /\ UNCHANGED <<seen, refs, scans, targets>>

NewReference == Visits /\ Current \notin seen
Skipped ==
    /\ seen' = seen \cup {Current}
    /\ nodes' = nodes \cup {Visited("skipped")}
    /\ stack' = Rest
    /\ UNCHANGED <<refs, scans>>

Exhausted == targets = 0

\* Not permitted; the limit on targets, on bytes or on time is used up; the context
\* of the caller is cancelled; or the fetch fails.
Skip ==
    /\ NewReference /\ Skipped
    /\ UNCHANGED targets

FetchesDenied == NewReference /\ ~Exhausted     \* mutant: the prefixes are not looked at

Fetches == NewReference /\ Current \notin Denied /\ ~Exhausted

Uncharged == UNCHANGED targets     \* mutant: what was fetched is not charged

\* A fetch is charged, also when the scan of what was fetched fails.
Charged == targets' = targets - 1

ScanFails == Fetches /\ Skipped /\ Charged

UnresolvedAtLimit(content) == {}     \* mutant: the references of the last pages are left out

\* Below the depth limit the references of a page are walked; at the limit each
\* becomes a node that is not resolved, whether it was visited before or not.
Unresolved(content) ==
    {[url |-> u, parent |-> Current, depth |-> Len(stack) + 1, how |-> "skipped"] : u \in content}

Follow(child, content) ==
    /\ Fetches /\ Charged
    /\ seen' = seen \cup {Current}
    /\ refs' = [refs EXCEPT ![Current] = content]
    /\ scans' = [u \in DOMAIN scans \cup {Current} |-> IF u = Current THEN child ELSE scans[u]]
    /\ IF Len(stack) < Depth
       THEN /\ stack' = Append(Rest, [at |-> Current, todo |-> content])
            /\ nodes' = nodes \cup {Visited("fetched")}
       ELSE /\ stack' = Rest
            /\ nodes' = nodes \cup {Visited("fetched")} \cup Unresolved(content)

\* All references of a page were visited: back to the page it was found on.
Back ==
    /\ Walking /\ Top.todo = {}
    /\ stack' = SubSeq(stack, 1, Len(stack) - 1)
    /\ UNCHANGED <<seen, nodes, refs, scans, targets>>

WalkStep ==
    \/ Known \/ Skip \/ ScanFails \/ Back
    \/ \E child \in Child, content \in Content : Follow(child, content)

-----------------------------------------------------------------------------
\* The closure: what is known already adds an edge, everything else a node.
Inventory == {n \in nodes : n.how # "known"}
Fetched == DOMAIN scans

\* Two nodes of one address differ in their parent, depth or digest.
Conflicting(u) == \E m, n \in Inventory : m # n /\ m.url = u /\ n.url = u

Blocked(scan) == scan.verdict = "BLOCK" \/ scan.status = "FAIL" \/ scan.max >= 3

\* Finalize goes through the nodes in sorted order, the root first and a fetched
\* node after the unresolved ones of its address.  A conflict sets the state to
\* UNKNOWN, whatever it was; a blocked node sets it to UNSAFE.  (The nodes of the
\* root's files are left out: the judgement has made a blocked root FAIL already.)
ConflictAfter(u) == \E w \in Address : w > u /\ Conflicting(w)
Unsafe(root) ==
    \/ Blocked(root) /\ ~ConflictAfter(Root)
    \/ \E u \in Fetched : Blocked(scans[u]) /\ ~ConflictAfter(u)

\* The root counts as analysed with all of its files, a page already when its scan was
\* completed: its files, and what became of its own closure, are not asked.
Open(root) ==
    \/ ~root.analysed
    \/ \E n \in Inventory : n.how = "skipped"
    \/ \E u \in Fetched : ~scans[u].completed

ClosureState(root) ==
    IF Unsafe(root) THEN "UNSAFE" ELSE IF Open(root) THEN "UNKNOWN" ELSE "SAFE"

ClosureMaximum(root) ==
    CHOOSE r \in 0 .. 3 : LET all == {root.max} \cup {scans[u].max : u \in Fetched} IN
                           r \in all /\ \A x \in all : x <= r

-----------------------------------------------------------------------------
WalkTypeOK ==
    /\ stack \in Seq(Frame) /\ Len(stack) <= Depth
    /\ seen \subseteq Address /\ nodes \subseteq Node
    /\ refs \in [Root .. Limit -> SUBSET Address]
    /\ Fetched \subseteq seen /\ \A u \in Fetched : scans[u] \in Child
    /\ targets \in 0 .. MaxTargets

\* What was followed: permitted, within the number of targets, once each, and the
\* pages on the stack are those that lead to the current one.
FollowedWithinLimits ==
    /\ Fetched \cap Denied = {}
    /\ Cardinality(Fetched) <= MaxTargets - targets
    /\ \A m, n \in nodes : m.how = "fetched" /\ n.how = "fetched" /\ m.url = n.url => m = n
    /\ \A u \in Fetched : \E n \in nodes : n.url = u /\ n.how = "fetched" /\ n.depth <= Depth
    /\ \A i \in DOMAIN stack : i > 1 =>
          \E n \in nodes : n.url = stack[i].at /\ n.parent = stack[i - 1].at /\ n.depth = i - 1

\* Every reference on every page that was read is in the inventory, as a node or
\* an edge from that very page, unless it is still to be visited: none gets lost.
InventoryIsComplete ==
    \A p \in {Root} \cup Fetched : \A u \in refs[p] :
        \/ \E n \in nodes : n.url = u /\ n.parent = p
        \/ \E i \in DOMAIN stack : stack[i].at = p /\ u \in stack[i].todo
===============================================================================
