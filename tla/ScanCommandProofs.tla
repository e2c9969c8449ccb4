-------------------------- MODULE ScanCommandProofs --------------------------
(***************************************************************************)
(* Theorems of ScanCommand, for every artifact, list of analyzers, limits  *)
(* and graph of references: a scan that says CLEAR, ALLOW or may be stored *)
(* has looked at everything, and no reference of a page that was read is   *)
(* missing from the inventory.                                             *)
(***************************************************************************)
EXTENDS ScanCommand, FiniteSetTheorems, SequenceTheorems, TLAPS

\* A node is there for every address that was visited, and the other way round.
NodesMatch ==
    /\ IsFiniteSet(Fetched)
    /\ \A n \in nodes : /\ n.how = "fetched" => n.url \in Fetched
                        /\ n.how = "known" => n.url \in seen
    /\ \A u \in seen : \E n \in nodes : n.url = u /\ n.how # "known"

WalkInv == WalkTypeOK /\ FollowedWithinLimits /\ InventoryIsComplete /\ NodesMatch

\* There is a least reference among those still to be visited.
LEMMA LeastOf ==
    ASSUME NEW S, S \subseteq Nat, S # {}
    PROVE  \E u \in S : \A v \in S : u <= v
<1> DEFINE R == OpToRel(<, Nat)
<1>1. IsWellFoundedOn(R, Nat)
    BY NatLessThanWellFounded
<1>2. \E u \in S : \A v \in S : ~(<<v, u>> \in R)
  <2> HIDE DEF R
  <2> QED BY <1>1, WFMin
<1>3. \A u, v \in Nat : v < u => <<v, u>> \in R
    BY DEF OpToRel
<1> HIDE DEF R
<1>4. PICK u \in S : \A v \in S : ~(<<v, u>> \in R)
    BY <1>2
<1>5. \A v \in S : ~(v < u)
    BY <1>3, <1>4
<1>6. \A v \in S : u <= v
    BY <1>5
<1> QED BY <1>6

\* The reference that is next, and the stack without it.
LEMMA CurrentFacts ==
    ASSUME WalkTypeOK, Visits
    PROVE  /\ Top \in Frame /\ Len(stack) \in 1 .. Depth
           /\ Current \in Top.todo /\ Current \in Address
           /\ Rest \in Seq(Frame) /\ Len(Rest) = Len(stack)
           /\ \A i \in DOMAIN stack : /\ Rest[i].at = stack[i].at
                                      /\ Rest[i].todo = IF i = Len(stack) THEN stack[i].todo \ {Current} ELSE stack[i].todo
<1>1. Len(stack) \in 1 .. Depth /\ Top \in Frame
    BY WalkAssumption DEF WalkTypeOK, Visits, Walking, Top
<1>2. Top.todo \subseteq Nat /\ Top.todo # {}
    BY <1>1, WalkAssumption DEF Frame, Visits, Address
<1>3. Current \in Top.todo
    BY <1>2, LeastOf DEF Current
<1>4. Current \in Address
    BY <1>1, <1>3 DEF Frame
<1>5. stack \in Seq(Frame)
    BY DEF WalkTypeOK
<1> DEFINE f == [Top EXCEPT !.todo = @ \ {Current}]
<1>6. Rest = [stack EXCEPT ![Len(stack)] = f]
    BY DEF Rest, Top
<1>7. f \in Frame /\ f.at = Top.at /\ f.todo = Top.todo \ {Current}
  <2> HIDE DEF Current, Top
  <2> QED BY <1>1 DEF Frame
<1> HIDE DEF f, Current
<1>8. Rest \in Seq(Frame) /\ Len(Rest) = Len(stack)
    BY <1>1, <1>5, <1>6, <1>7
<1>9. \A i \in DOMAIN stack : Rest[i] = IF i = Len(stack) THEN f ELSE stack[i]
    BY <1>1, <1>5, <1>6
<1>10. \A i \in DOMAIN stack : /\ Rest[i].at = stack[i].at
                              /\ Rest[i].todo = IF i = Len(stack) THEN stack[i].todo \ {Current} ELSE stack[i].todo
    BY <1>7, <1>9 DEF Top
<1> QED BY <1>1, <1>3, <1>4, <1>8, <1>10

\* The node a visit enters.
LEMMA VisitedFacts ==
    ASSUME WalkTypeOK, Visits, NEW how \in {"fetched", "skipped", "known"}
    PROVE  /\ Visited(how) \in Node
           /\ Visited(how).url = Current /\ Visited(how).parent = Top.at
           /\ Visited(how).depth = Len(stack) /\ Visited(how).how = how
<1>1. /\ Top \in Frame /\ Len(stack) \in 1 .. Depth /\ Current \in Address
    BY CurrentFacts
<1>2. Len(stack) \in 1 .. Depth + 1
    BY <1>1, WalkAssumption
<1> HIDE DEF Current, Top
<1> QED BY <1>1, <1>2 DEF Visited, Node, Frame

\* A frame that was on the stack and stays: its page, and what it has to visit.
LEMMA RestKeeps ==
    ASSUME WalkInv, Visits, NEW n, n.url = Current, n.parent = Top.at,
           nodes \subseteq nodes', n \in nodes',
           \A i \in DOMAIN stack : i \in DOMAIN stack' /\ stack'[i] = Rest[i],
           NEW p \in {Root} \cup Fetched, NEW u \in refs[p]
    PROVE  \/ \E m \in nodes' : m.url = u /\ m.parent = p
           \/ \E i \in DOMAIN stack' : stack'[i].at = p /\ u \in stack'[i].todo
<1>1. /\ Len(stack) \in 1 .. Depth
      /\ \A i \in DOMAIN stack : /\ Rest[i].at = stack[i].at
                                 /\ Rest[i].todo = IF i = Len(stack) THEN stack[i].todo \ {Current} ELSE stack[i].todo
    BY CurrentFacts DEF WalkInv
<1>2. CASE \E m \in nodes : m.url = u /\ m.parent = p
    BY <1>2
<1>3. CASE \E i \in DOMAIN stack : stack[i].at = p /\ u \in stack[i].todo
  <2>1. PICK i \in DOMAIN stack : stack[i].at = p /\ u \in stack[i].todo
      BY <1>3
  <2> HIDE DEF Current
  <2>2. CASE i = Len(stack) /\ u = Current
      BY <2>1, <2>2 DEF Top
  <2>3. CASE ~(i = Len(stack) /\ u = Current)
    <3>1. u \in Rest[i].todo /\ Rest[i].at = p
        BY <1>1, <2>1, <2>3
    <3> QED BY <3>1
  <2> QED BY <2>2, <2>3
<1> QED BY <1>2, <1>3 DEF WalkInv, InventoryIsComplete

\* A reference that is not followed: a node or an edge, and the walk goes on.
LEMMA VisitKeeps ==
    ASSUME WalkInv, Visits, NEW how \in {"skipped", "known"},
           nodes' = nodes \cup {Visited(how)}, stack' = Rest, refs' = refs, scans' = scans,
           targets' \in 0 .. targets,
           how = "known" => Current \in seen /\ seen' = seen,
           how = "skipped" => seen' = seen \cup {Current}
    PROVE  WalkInv'
<1> USE DEF WalkInv
<1>1. /\ Current \in Address /\ Len(stack) \in 1 .. Depth
      /\ Rest \in Seq(Frame) /\ Len(Rest) = Len(stack)
      /\ \A i \in DOMAIN stack : Rest[i].at = stack[i].at
    BY CurrentFacts
<1>2. /\ Visited(how) \in Node /\ Visited(how).url = Current
      /\ Visited(how).parent = Top.at /\ Visited(how).how = how
    BY VisitedFacts
<1> DEFINE n == Visited(how)
<1> HIDE DEF n, Current, Rest, Top
<1>3. n \in nodes' /\ nodes' = nodes \cup {n}
    BY DEF n
<1>4. DOMAIN Rest = DOMAIN stack
    BY <1>1 DEF WalkTypeOK
<1>5. Fetched' = Fetched
    BY DEF Fetched
<1>6. WalkTypeOK'
  <2>1. nodes' \subseteq Node
      BY <1>2 DEF WalkTypeOK
  <2>2. seen' \subseteq Address /\ seen \subseteq seen'
      BY <1>1 DEF WalkTypeOK
  <2>3. targets' \in 0 .. MaxTargets
      BY WalkAssumption DEF WalkTypeOK
  <2> QED BY <1>1, <1>5, <2>1, <2>2, <2>3 DEF WalkTypeOK
<1>7. FollowedWithinLimits'
  <2>1. Cardinality(Fetched) <= MaxTargets - targets'
    <3>1. Cardinality(Fetched) \in Nat
        BY FS_CardinalityType DEF NodesMatch
    <3> QED BY <3>1, WalkAssumption DEF FollowedWithinLimits, WalkTypeOK
  <2>2. \A a, b \in nodes' : a.how = "fetched" /\ b.how = "fetched" /\ a.url = b.url => a = b
      BY <1>2, <1>3 DEF FollowedWithinLimits, n
  <2>3. \A i \in DOMAIN stack' : i > 1 =>
            \E a \in nodes' : a.url = stack'[i].at /\ a.parent = stack'[i - 1].at /\ a.depth = i - 1
    <3> SUFFICES ASSUME NEW i \in DOMAIN stack, i > 1
                 PROVE  \E a \in nodes' : a.url = Rest[i].at /\ a.parent = Rest[i - 1].at /\ a.depth = i - 1
        BY <1>4
    <3>1. i - 1 \in DOMAIN stack
        BY DEF WalkTypeOK
    <3> QED BY <1>1, <1>3, <3>1 DEF FollowedWithinLimits
  <2> QED BY <1>3, <1>5, <2>1, <2>2, <2>3 DEF FollowedWithinLimits
<1>8. InventoryIsComplete'
  <2> SUFFICES ASSUME NEW p \in {Root} \cup Fetched, NEW u \in refs[p]
               PROVE  \/ \E m \in nodes' : m.url = u /\ m.parent = p
                      \/ \E i \in DOMAIN stack' : stack'[i].at = p /\ u \in stack'[i].todo
      BY <1>5 DEF InventoryIsComplete
  <2>1. \A i \in DOMAIN stack : i \in DOMAIN stack' /\ stack'[i] = Rest[i]
      BY <1>4
  <2>2. nodes \subseteq nodes' /\ n \in nodes' /\ n.url = Current /\ n.parent = Top.at
      BY <1>2, <1>3 DEF n
  <2> QED BY <2>1, <2>2, RestKeeps
<1>9. NodesMatch'
    BY <1>2, <1>3, <1>5 DEF NodesMatch, n
<1> QED BY <1>6, <1>7, <1>8, <1>9

\* A reference that is followed: its page is read, and its references are to be
\* visited next, or are nodes at the depth limit.
LEMMA FollowKeeps ==
    ASSUME WalkInv, NEW child \in Child, NEW content \in Content, Follow(child, content)
    PROVE  WalkInv'
<1> USE DEF WalkInv
<1>1. /\ Visits /\ Current \notin seen /\ Current \notin Denied /\ targets # 0
      /\ seen' = seen \cup {Current} /\ targets' = targets - 1
      /\ refs' = [refs EXCEPT ![Current] = content]
      /\ scans' = [u \in DOMAIN scans \cup {Current} |-> IF u = Current THEN child ELSE scans[u]]
    BY DEF Follow, Fetches, NewReference, Exhausted, Charged
<1>2. /\ Current \in Address /\ Len(stack) \in 1 .. Depth /\ Top \in Frame
      /\ Rest \in Seq(Frame) /\ Len(Rest) = Len(stack)
      /\ \A i \in DOMAIN stack : Rest[i].at = stack[i].at
    BY <1>1, CurrentFacts
<1> DEFINE n == Visited("fetched")
           frame == [at |-> Current, todo |-> content]
           deeper == Len(stack) < Depth
<1>3. /\ n \in Node /\ n.url = Current /\ n.parent = Top.at
      /\ n.depth = Len(stack) /\ n.how = "fetched"
    BY <1>1, VisitedFacts
<1>4. /\ deeper => stack' = Append(Rest, frame) /\ nodes' = nodes \cup {n}
      /\ ~deeper => stack' = Rest /\ nodes' = nodes \cup {n} \cup Unresolved(content)
    BY DEF Follow
<1>5. content \subseteq Address
    BY WalkAssumption DEF Address
<1>6. \A u \in content : \E m \in Unresolved(content) : m.url = u /\ m.parent = Current
  <2> HIDE DEF Current
  <2> DEFINE node(u) == [url |-> u, parent |-> Current, depth |-> Len(stack) + 1, how |-> "skipped"]
  <2>1. Unresolved(content) = {node(u) : u \in content}
      BY DEF Unresolved
  <2>2. \A u \in content : node(u).url = u /\ node(u).parent = Current
      OBVIOUS
  <2> HIDE DEF node
  <2> QED BY <2>1, <2>2
<1>7. Unresolved(content) \subseteq Node /\ \A m \in Unresolved(content) : m.how = "skipped"
  <2>1. Len(stack) + 1 \in 1 .. Depth + 1 /\ Current \in Root .. Limit
      BY <1>2, WalkAssumption DEF Root, Address
  <2> HIDE DEF Current
  <2> QED BY <1>5, <2>1 DEF Unresolved, Node
<1>8. frame \in Frame /\ frame.at = Current /\ frame.todo = content
  <2>1. Current \in Root .. Limit
      BY <1>2, WalkAssumption DEF Root, Address
  <2> HIDE DEF Current
  <2> QED BY <1>5, <2>1 DEF Frame
<1> HIDE DEF n, frame, Current, Rest, Top
<1>9. Fetched' = Fetched \cup {Current} /\ Current \notin Fetched
    BY <1>1 DEF Fetched, WalkTypeOK
<1>10. nodes \subseteq nodes' /\ n \in nodes' /\ nodes' \subseteq Node
    BY <1>3, <1>4, <1>7 DEF WalkTypeOK
<1>11. \A m \in nodes' : m \in nodes \/ m = n \/ m.how = "skipped"
    BY <1>4, <1>7
<1>12. /\ stack' \in Seq(Frame) /\ Len(stack') <= Depth
       /\ Len(stack') = IF deeper THEN Len(stack) + 1 ELSE Len(stack)
       /\ \A i \in DOMAIN stack : i \in DOMAIN stack' /\ stack'[i] = Rest[i]
       /\ deeper => stack'[Len(stack) + 1] = frame /\ Len(stack) + 1 \in DOMAIN stack'
  <2>1. stack \in Seq(Frame)
      BY DEF WalkTypeOK
  <2>2. CASE deeper
      BY <1>2, <1>4, <1>8, <2>1, <2>2, WalkAssumption
  <2>3. CASE ~deeper
      BY <1>2, <1>4, <2>1, <2>3, WalkAssumption
  <2> QED BY <2>2, <2>3
<1>13. WalkTypeOK'
  <2>1. refs' \in [Root .. Limit -> SUBSET Address]
      BY <1>1, <1>5 DEF WalkTypeOK
  <2>2. seen' \subseteq Address /\ Fetched' \subseteq seen'
      BY <1>1, <1>2, <1>9 DEF WalkTypeOK
  <2>3. \A u \in Fetched' : scans'[u] \in Child
      BY <1>1, <1>9 DEF WalkTypeOK, Fetched
  <2>4. targets' \in 0 .. MaxTargets
      BY <1>1, WalkAssumption DEF WalkTypeOK
  <2> QED BY <1>10, <1>12, <2>1, <2>2, <2>3, <2>4 DEF WalkTypeOK
<1>14. FollowedWithinLimits'
  <2>1. Fetched' \cap Denied = {}
      BY <1>1, <1>9 DEF FollowedWithinLimits
  <2>2. Cardinality(Fetched') <= MaxTargets - targets'
    <3>1. IsFiniteSet(Fetched) /\ Cardinality(Fetched) \in Nat
        BY FS_CardinalityType DEF NodesMatch
    <3>2. Cardinality(Fetched \cup {Current}) = Cardinality(Fetched) + 1
        BY <1>9, <3>1, FS_AddElement
    <3> QED BY <1>1, <1>9, <3>1, <3>2, WalkAssumption DEF FollowedWithinLimits, WalkTypeOK
  <2>3. \A a, b \in nodes' : a.how = "fetched" /\ b.how = "fetched" /\ a.url = b.url => a = b
    <3>1. \A a \in nodes : a.how = "fetched" => a.url # Current
        BY <1>9 DEF NodesMatch
    <3> QED BY <1>3, <1>11, <3>1 DEF FollowedWithinLimits
  <2>4. \A u \in Fetched' : \E a \in nodes' : a.url = u /\ a.how = "fetched" /\ a.depth <= Depth
    <3>1. n.depth <= Depth
        BY <1>2, <1>3, WalkAssumption
    <3> QED BY <1>3, <1>9, <1>10, <3>1 DEF FollowedWithinLimits
  <2>5. \A i \in DOMAIN stack' : i > 1 =>
            \E a \in nodes' : a.url = stack'[i].at /\ a.parent = stack'[i - 1].at /\ a.depth = i - 1
    <3> SUFFICES ASSUME NEW i \in DOMAIN stack', i > 1
                 PROVE  \E a \in nodes' : a.url = stack'[i].at /\ a.parent = stack'[i - 1].at /\ a.depth = i - 1
        OBVIOUS
    <3>1. CASE i \in DOMAIN stack
      <4>1. i - 1 \in DOMAIN stack
          BY <3>1 DEF WalkTypeOK
      <4>2. stack'[i].at = stack[i].at /\ stack'[i - 1].at = stack[i - 1].at
          BY <1>2, <1>12, <3>1, <4>1
      <4> QED BY <1>10, <3>1, <4>2 DEF FollowedWithinLimits
    <3>2. CASE i \notin DOMAIN stack
      <4>1. deeper /\ i = Len(stack) + 1 /\ i - 1 \in DOMAIN stack
          BY <1>2, <1>12, <3>2 DEF WalkTypeOK
      <4>2. stack'[i].at = Current /\ stack'[i - 1].at = Top.at
          BY <1>2, <1>8, <1>12, <4>1 DEF Top
      <4> QED BY <1>2, <1>3, <1>10, <4>1, <4>2
    <3> QED BY <3>1, <3>2
  <2> QED BY <2>1, <2>2, <2>3, <2>4, <2>5 DEF FollowedWithinLimits
<1>15. InventoryIsComplete'
  <2> SUFFICES ASSUME NEW p \in {Root} \cup Fetched', NEW u \in refs'[p]
               PROVE  \/ \E m \in nodes' : m.url = u /\ m.parent = p
                      \/ \E i \in DOMAIN stack' : stack'[i].at = p /\ u \in stack'[i].todo
      BY DEF InventoryIsComplete
  <2>1. CASE p = Current
    <3>1. refs'[p] = content
        BY <1>1, <1>2, <2>1, WalkAssumption DEF WalkTypeOK, Root, Address
    <3>2. CASE deeper
        BY <1>8, <1>12, <2>1, <3>1, <3>2
    <3>3. CASE ~deeper
        BY <1>4, <1>6, <2>1, <3>1, <3>3
    <3> QED BY <3>2, <3>3
  <2>2. CASE p # Current
    <3>1. p \in {Root} \cup Fetched /\ u \in refs[p]
        BY <1>1, <1>9, <2>2, WalkAssumption DEF WalkTypeOK, Root, Address
    <3> QED BY <1>1, <1>3, <1>10, <1>12, <3>1, RestKeeps
  <2> QED BY <2>1, <2>2
<1>16. NodesMatch'
  <2>1. IsFiniteSet(Fetched')
      BY <1>9, FS_AddElement DEF NodesMatch
  <2>2. \A m \in nodes' : /\ m.how = "fetched" => m.url \in Fetched'
                          /\ m.how = "known" => m.url \in seen'
      BY <1>1, <1>3, <1>9, <1>11 DEF NodesMatch
  <2>3. \A u \in seen' : \E m \in nodes' : m.url = u /\ m.how # "known"
      BY <1>1, <1>3, <1>10 DEF NodesMatch
  <2> QED BY <2>1, <2>2, <2>3 DEF NodesMatch
<1> QED BY <1>13, <1>14, <1>15, <1>16

\* Back to the page before.
LEMMA BackKeeps ==
    ASSUME WalkInv, Back
    PROVE  WalkInv'
<1> USE DEF WalkInv
<1>1. /\ stack \in Seq(Frame) /\ Len(stack) \in Nat \ {0} /\ Top.todo = {}
      /\ stack' = SubSeq(stack, 1, Len(stack) - 1)
      /\ UNCHANGED <<seen, nodes, refs, scans, targets>>
    BY DEF Back, Walking, WalkTypeOK
<1> HIDE DEF Top
<1> DEFINE k == Len(stack) - 1
<1>2. k \in Nat /\ k + 1 = Len(stack)
    BY <1>1
<1>3. stack' \in Seq(Frame) /\ Len(stack') = k /\ \A i \in 1 .. k : stack'[i] = stack[i]
  <2>1. \A i \in 1 .. k : stack[i] \in Frame
      BY <1>1, <1>2
  <2>2. stack' = SubSeq(stack, 1, k)
      BY <1>1
  <2> HIDE DEF k
  <2>3. /\ stack' \in Seq(Frame) /\ Len(stack') = IF 1 <= k THEN k - 1 + 1 ELSE 0
        /\ \A i \in 1 .. k - 1 + 1 : stack'[i] = stack[1 + i - 1]
      BY <1>2, <2>1, <2>2, SubSeqProperties
  <2> QED BY <1>2, <2>3
<1>4. /\ DOMAIN stack = 1 .. Len(stack) /\ DOMAIN stack' = 1 .. Len(stack) - 1
      /\ \A i \in DOMAIN stack' : i \in DOMAIN stack /\ stack'[i] = stack[i]
      /\ \A i \in DOMAIN stack : i # Len(stack) => i \in DOMAIN stack'
    BY <1>1, <1>2, <1>3
<1>5. Fetched' = Fetched
    BY <1>1 DEF Fetched
<1>6. WalkTypeOK'
    BY <1>1, <1>2, <1>5, <1>3, WalkAssumption DEF WalkTypeOK
<1>7. FollowedWithinLimits'
  <2>1. \A i \in DOMAIN stack' : i > 1 =>
            \E a \in nodes' : a.url = stack'[i].at /\ a.parent = stack'[i - 1].at /\ a.depth = i - 1
    <3>1. \A i \in DOMAIN stack' : i > 1 => i - 1 \in DOMAIN stack'
        BY <1>1, <1>4
    <3> QED BY <1>1, <1>4, <3>1 DEF FollowedWithinLimits
  <2> QED BY <1>1, <1>5, <2>1 DEF FollowedWithinLimits
<1>8. InventoryIsComplete'
  <2>1. stack[Len(stack)].todo = {}
      BY <1>1 DEF Top
  <2> SUFFICES ASSUME NEW p \in {Root} \cup Fetched, NEW u \in refs[p]
               PROVE  \/ \E n \in nodes : n.url = u /\ n.parent = p
                      \/ \E i \in DOMAIN stack' : stack'[i].at = p /\ u \in stack'[i].todo
      BY <1>1, <1>5 DEF InventoryIsComplete
  <2>2. CASE \E i \in DOMAIN stack : stack[i].at = p /\ u \in stack[i].todo
      BY <1>4, <2>1, <2>2
  <2> QED BY <2>2 DEF InventoryIsComplete
<1>9. NodesMatch'
    BY <1>1, <1>5 DEF NodesMatch
<1> QED BY <1>6, <1>7, <1>8, <1>9

\* Every step of the walk.
LEMMA WalkStepKeeps == WalkInv /\ WalkStep => WalkInv'
<1> SUFFICES ASSUME WalkInv, WalkStep PROVE WalkInv'
    OBVIOUS
<1>1. CASE Known
  <2>1. targets' \in 0 .. targets
      BY <1>1 DEF Known, WalkInv, WalkTypeOK
  <2> HIDE DEF Current
  <2> QED BY <1>1, <2>1, VisitKeeps DEF Known
<1>2. CASE Skip
  <2>1. targets' \in 0 .. targets
      BY <1>2 DEF Skip, WalkInv, WalkTypeOK
  <2> QED BY <1>2, <2>1, VisitKeeps DEF Skip, NewReference, Skipped
<1>3. CASE ScanFails
  <2>1. targets' \in 0 .. targets
      BY <1>3, WalkAssumption DEF ScanFails, Fetches, Exhausted, Charged, WalkInv, WalkTypeOK
  <2> QED BY <1>3, <2>1, VisitKeeps DEF ScanFails, Fetches, NewReference, Skipped
<1>4. CASE Back
    BY <1>4, BackKeeps
<1>5. CASE \E child \in Child, content \in Content : Follow(child, content)
    BY <1>5, FollowKeeps
<1> QED BY <1>1, <1>2, <1>3, <1>4, <1>5 DEF WalkStep

\* Before the walk there is nothing to lose.
LEMMA NotWalkedInv == NotWalked => WalkInv /\ Fetched = {}
<1> SUFFICES ASSUME NotWalked PROVE WalkInv /\ Fetched = {}
    OBVIOUS
<1>1. Fetched = {} /\ stack = <<>> /\ seen = {} /\ nodes = {} /\ targets = MaxTargets
      /\ refs = [u \in Root .. Limit |-> {}]
    BY DEF NotWalked, Fetched
<1>2. \A u \in Root .. Limit : refs[u] = {}
    BY <1>1
<1>3. Root \in Root .. Limit
    BY WalkAssumption DEF Root
<1>4. WalkTypeOK
  <2>1. stack \in Seq(Frame) /\ Len(stack) <= Depth
      BY <1>1, WalkAssumption
  <2> QED BY <1>1, <2>1, WalkAssumption DEF WalkTypeOK
<1>5. FollowedWithinLimits
    BY <1>1, FS_EmptySet, WalkAssumption DEF FollowedWithinLimits
<1>6. InventoryIsComplete
    BY <1>1, <1>2, <1>3 DEF InventoryIsComplete
<1>7. NodesMatch
    BY <1>1, FS_EmptySet DEF NodesMatch
<1> QED BY <1>1, <1>4, <1>5, <1>6, <1>7 DEF WalkInv

\* The walk of the artifact begins.
LEMMA StartWalkKeeps ==
    ASSUME NotWalked, NEW content \in Content, StartWalk(content)
    PROVE  WalkInv'
<1>1. WalkInv /\ Fetched = {}
    BY NotWalkedInv
<1>2. /\ stack = <<>> /\ seen = {} /\ nodes = {}
      /\ stack' = <<[at |-> Root, todo |-> content]>> /\ refs' = [refs EXCEPT ![Root] = content]
      /\ UNCHANGED <<seen, nodes, scans, targets>>
    BY DEF NotWalked, StartWalk
<1>3. content \subseteq Address /\ Root \in Root .. Limit
    BY WalkAssumption DEF Address, Root
<1>4. stack' \in Seq(Frame) /\ Len(stack') = 1 /\ stack'[1] = [at |-> Root, todo |-> content]
    BY <1>2, <1>3 DEF Frame
<1>5. Fetched' = Fetched
    BY <1>2 DEF Fetched
<1>6. refs' \in [Root .. Limit -> SUBSET Address] /\ refs'[Root] = content
    BY <1>1, <1>2, <1>3 DEF WalkInv, WalkTypeOK
<1>7. WalkTypeOK'
    BY <1>1, <1>2, <1>4, <1>5, <1>6, WalkAssumption DEF WalkInv, WalkTypeOK
<1>8. FollowedWithinLimits'
    BY <1>1, <1>2, <1>4, <1>5 DEF WalkInv, FollowedWithinLimits
<1>9. InventoryIsComplete'
  <2>1. \A u \in content : 1 \in DOMAIN stack' /\ stack'[1].at = Root /\ u \in stack'[1].todo
      BY <1>4
  <2> QED BY <1>1, <1>5, <1>6, <2>1 DEF InventoryIsComplete
<1>10. NodesMatch'
    BY <1>1, <1>2, <1>5 DEF WalkInv, NodesMatch
<1> QED BY <1>7, <1>8, <1>9, <1>10 DEF WalkInv

-----------------------------------------------------------------------------
\* Places at which the scan is not judged, and those at which the ledger tells how far it came.
Scanning == {"start", "derive", "budget", "invoke", "views", "finish", "judge"}
Looking == {"budget", "invoke", "views", "finish", "judge", "judged"}

\* Nothing is on record that says that something was left out.
OnTime == ~late
Unblemished == OnTime /\ exceeded = {} /\ "derived-views" \notin degraded

PipeType ==
    /\ request \in Request
    /\ at \in {"start", "derive", "budget", "invoke", "views", "finish", "judge", "judged", "walk", "done", "error"}
    /\ items \subseteq Position \X Target \X Outcome
    /\ inspected \subseteq Position \X Target
    /\ found \in [Kind -> Nat]

PlaceInv ==
    /\ pos \in Nat \ {0} /\ view \in Nat \ {0} /\ built \in Nat /\ built <= request.views
    /\ at \in {"invoke", "views"} => pos \in request.wanted
    /\ at = "views" => pos \notin Shallow
    /\ at \in {"start", "derive", "budget", "invoke"} => view = 1
    /\ at \in {"start", "derive"} => exceeded = {} /\ degraded = {} /\ pos = 1

ItemsInv ==
    /\ \A i \in items : i[3] = "completed" /\ i[2] \in File =>
          i[1] \in request.wanted /\ i[2] \in Applies[i[1]]
    /\ (covered # {} \/ at = "invoke") => items # {}
    /\ \A t \in covered : \E p \in request.wanted : t \in Types[p]

\* How far an analyzer that is not done has come.
FilesLooked == \A f \in Applies[pos] : <<pos, f>> \in inspected
ViewsLooked(n) == \A i \in 1 .. n : SourceOf[Views[i]] \in Applies[pos] => <<pos, Views[i]>> \in inspected
AllLooked == \A p \in request.wanted : LookedWith(p)

LookedInv ==
    Unblemished /\ at \in Looking =>
        /\ built = request.views
        /\ at \in {"budget", "invoke", "views"} => \A p \in request.wanted : p < pos => LookedWith(p)
        /\ at = "views" => FilesLooked /\ ViewsLooked(view - 1)
        /\ at = "finish" => TooMany \/ AllLooked
        /\ at \in {"judge", "judged"} => AllLooked

LateShows == at \in {"judge", "judged"} /\ ~OnTime => exceeded # {}

LedgerInv == PipeType /\ PlaceInv /\ ItemsInv /\ LookedInv /\ LateShows

\* What may be asked for.
LEMMA RequestFacts ==
    ASSUME PipeType
    PROVE  /\ request.wanted \subseteq Position /\ request.views \in Nat
           /\ 1 .. request.views \subseteq DOMAIN Views
    BY PipelineAssumption DEF PipeType

\* The number of findings is a number.
LEMMA FindingsFacts ==
    ASSUME PipeType
    PROVE  Findings \in Nat
    BY DEF PipeType, Findings, Kind

\* Entries are added to the ledger, and none is lost.
LEMMA RecordFacts ==
    ASSUME PipeType, pos \in Position, NEW T, T \subseteq Target, NEW outcome \in Outcome
    PROVE  /\ Record(T, outcome) \subseteq Position \X Target \X Outcome
           /\ \A i \in Record(T, outcome) : i \in items \/ (i[1] = pos /\ i[2] \in T /\ i[3] = outcome)
           /\ items \subseteq Record(T, outcome)
           /\ T # {} => Record(T, outcome) # {}
<1> DEFINE more == {<<pos, t, outcome>> : t \in T}
<1>1. Record(T, outcome) = items \cup more
    BY DEF Record
<1>2. \A i \in more : i \in Position \X Target \X Outcome /\ i[1] = pos /\ i[2] \in T /\ i[3] = outcome
    OBVIOUS
<1>3. T # {} => more # {}
    OBVIOUS
<1> HIDE DEF more
<1> QED BY <1>1, <1>2, <1>3 DEF PipeType

\* Entries are reworded, and none becomes completed.
LEMMA InterruptedFacts ==
    ASSUME PipeType, pos \in Position, NEW outcome \in Outcome \ {"completed"}
    PROVE  /\ Interrupted(outcome) \subseteq Position \X Target \X Outcome
           /\ \A i \in Interrupted(outcome) : i \in items \/ i[3] # "completed"
           /\ items # {} => Interrupted(outcome) # {}
<1> DEFINE gone == {j \in items : j[1] = pos /\ j[3] = "completed"}
           kept == {i \in items : i[1] # pos \/ i[3] # "completed"}
           again == {<<pos, i[2], outcome>> : i \in gone}
<1>1. Interrupted(outcome) = kept \cup again
    BY DEF Interrupted
<1>2. \A i \in again : i \in Position \X Target \X Outcome /\ i[3] = outcome
    BY DEF PipeType
<1>3. items # {} => kept # {} \/ again # {}
    OBVIOUS
<1> QED BY <1>1, <1>2, <1>3 DEF PipeType

\* Findings are counted.
LEMMA AddFacts ==
    ASSUME PipeType, NEW kinds, Add(kinds)
    PROVE  found' \in [Kind -> Nat]
    BY DEF PipeType, Add

\* What was looked at stays looked at.
LEMMA LookedGrows ==
    ASSUME inspected \subseteq inspected', request' = request
    PROVE  /\ \A p : LookedWith(p) => LookedWith(p)'
           /\ AllLooked => AllLooked'
    BY DEF LookedWith, AllLooked

\* The step that looks at the limits on bytes.
LEMMA StartKeeps == ASSUME LedgerInv, Start PROVE LedgerInv'
<1> USE DEF LedgerInv
<1>1. /\ at = "start" /\ at' \in {"judge", "derive"}
      /\ at' = "judge" => exceeded' = {"bytes"}
      /\ at' = "derive" => exceeded' = exceeded /\ degraded' = degraded
      /\ UNCHANGED <<request, pos, view, built, items, found, covered, inspected>>
  BY Zenon DEF Start
<1>2. PipeType'
    BY <1>1 DEF PipeType
<1>3. PlaceInv'
    BY <1>1 DEF PlaceInv
<1>4. ItemsInv'
    BY <1>1 DEF ItemsInv
<1>5. LookedInv'
    BY <1>1 DEF LookedInv, Unblemished, Looking
<1>6. LateShows'
    BY <1>1 DEF LateShows
<1> QED BY <1>2, <1>3, <1>4, <1>5, <1>6

\* Views are built, or the list of views is marked as degraded.
LEMMA DeriveKeeps == ASSUME LedgerInv, Derive PROVE LedgerInv'
<1> USE DEF LedgerInv
<1>1. /\ at = "derive" /\ at' = "budget"
      /\ built' = request.views \/ (built' \in 0 .. request.views /\ "derived-views" \in degraded')
      /\ UNCHANGED <<request, pos, view, items, found, covered, inspected>>
  BY RequestFacts DEF Derive
<1>2. PipeType'
    BY <1>1 DEF PipeType
<1>3. PlaceInv'
    BY <1>1, RequestFacts DEF PlaceInv
<1>4. ItemsInv'
    BY <1>1 DEF ItemsInv
<1>5. LookedInv'
  <2>1. \A p \in request.wanted : ~(p < 1)
      BY RequestFacts, PipelineAssumption
  <2> QED BY <1>1, <2>1 DEF LookedInv, PlaceInv, Unblemished
<1>6. LateShows'
    BY <1>1 DEF LateShows
<1> QED BY <1>2, <1>3, <1>4, <1>5, <1>6

\* A limit ends the loop: it is on record, or shows in the number of findings.
LEMMA OverBudgetKeeps == ASSUME LedgerInv, OverBudget PROVE LedgerInv'
<1> USE DEF LedgerInv
<1>1. /\ at = "budget" /\ at' = "finish" /\ pos \in Position
      /\ items' = Record({Everything}, "skipped")
      /\ exceeded' # {} \/ TooMany
      /\ UNCHANGED <<request, built, pos, view, found, covered, degraded, inspected>>
  <2>1. /\ at = "budget" /\ at' = "finish" /\ pos \in Position
        /\ items' = Record({Everything}, "skipped")
        /\ UNCHANGED <<request, built, pos, view, found, covered, degraded, inspected>>
      BY DEF OverBudget
  <2>2. ~TooMany => exceeded' = exceeded \cup {"inspection_events"}
      BY DEF OverBudget
  <2> QED BY <2>1, <2>2
<1>2. /\ items' \subseteq Position \X Target \X Outcome
      /\ \A i \in items' : i \in items \/ i[3] = "skipped"
      /\ items \subseteq items'
    BY <1>1, RecordFacts DEF Target, Outcome
<1>3. PipeType'
    BY <1>1, <1>2 DEF PipeType
<1>4. PlaceInv'
    BY <1>1 DEF PlaceInv
<1>5. ItemsInv'
    BY <1>1, <1>2 DEF ItemsInv
<1>6. LookedInv'
  <2>1. CASE exceeded' # {}
      BY <2>1 DEF LookedInv, Unblemished
  <2>2. CASE TooMany /\ exceeded' = {}
    <3>1. TooMany'
        BY <1>1, <2>2 DEF TooMany, Findings
    <3>2. Unblemished' => Unblemished
        BY <1>1, <2>2 DEF Unblemished, OverBudget, OnTime, clock
    <3> QED BY <1>1, <3>1, <3>2 DEF LookedInv, Looking
  <2> QED BY <1>1, <2>1, <2>2
<1>7. LateShows'
    BY <1>1 DEF LateShows
<1> QED BY <1>3, <1>4, <1>5, <1>6, <1>7

\* An analyzer that was not asked for, or that the deadline forestalls.
LEMMA PassOverKeeps == ASSUME LedgerInv, PassOver PROVE LedgerInv'
<1> USE DEF LedgerInv
<1>1. /\ at = "budget" /\ at' = "budget" /\ pos \in Position /\ pos' = pos + 1 /\ view' = 1
      /\ items' = items \/ items' = Record(File, "skipped")
      /\ UNCHANGED <<request, built, found, covered, degraded, exceeded, inspected>>
    BY DEF PassOver, NextAnalyzer
<1>2. OnTime' = OnTime /\ (pos \in request.wanted => ~OnTime)
    BY Zenon DEF PassOver, Runs, Expired, OnTime, clock
<1>3. /\ items' \subseteq Position \X Target \X Outcome
      /\ \A i \in items' : i \in items \/ i[3] = "skipped"
      /\ items \subseteq items'
  <2>1. File \subseteq Target /\ "skipped" \in Outcome
      BY DEF Target, Outcome
  <2> QED BY <1>1, <2>1, RecordFacts DEF PipeType
<1>4. PipeType'
    BY <1>1, <1>3 DEF PipeType
<1>5. PlaceInv'
    BY <1>1 DEF PlaceInv
<1>6. ItemsInv'
    BY <1>1, <1>3 DEF ItemsInv
<1>7. LookedInv'
  <2>1. ASSUME Unblemished', NEW p \in request.wanted, p < pos'
        PROVE  LookedWith(p)'
    <3>1. Unblemished /\ pos \notin request.wanted
        BY <1>1, <1>2, <2>1 DEF Unblemished
    <3>2. p < pos
        BY <1>1, <2>1, <3>1, RequestFacts, PipelineAssumption
    <3>3. LookedWith(p)
        BY <1>1, <3>1, <3>2 DEF LookedInv, Looking
    <3> QED BY <1>1, <3>3, LookedGrows
  <2>2. Unblemished' => Unblemished
      BY <1>1, <1>2 DEF Unblemished
  <2> QED BY <1>1, <2>1, <2>2 DEF LookedInv, Looking
<1>8. LateShows'
    BY <1>1 DEF LateShows
<1> QED BY <1>4, <1>5, <1>6, <1>7, <1>8

\* An analyzer begins; its entries say that it has completed.
LEMMA BeginKeeps == ASSUME LedgerInv, Begin PROVE LedgerInv'
<1> USE DEF LedgerInv
<1>1. /\ at = "budget" /\ at' = "invoke" /\ pos \in Position /\ pos \in request.wanted
      /\ items' = Record(File \cap Applies[pos], "completed") \cup Record(File \ Applies[pos], "out_of_scope")
      /\ UNCHANGED <<request, built, pos, view, found, covered, degraded, exceeded, inspected>>
    BY DEF Begin, Runs
<1>2. OnTime' = OnTime
    BY Zenon DEF Begin, OnTime, clock
<1>3. /\ items' \subseteq Position \X Target \X Outcome
      /\ \A i \in items' : i \in items \/ i[3] = "out_of_scope" \/ (i[1] = pos /\ i[2] \in Applies[pos])
      /\ items' # {}
  <2>1. /\ File \cap Applies[pos] \subseteq Target /\ File \ Applies[pos] \subseteq Target
        /\ "completed" \in Outcome /\ "out_of_scope" \in Outcome
      BY DEF Target, Outcome
  <2>2. File \cap Applies[pos] # {} \/ File \ Applies[pos] # {}
      BY PipelineAssumption
  <2> DEFINE done == Record(File \cap Applies[pos], "completed")
             other == Record(File \ Applies[pos], "out_of_scope")
  <2>3. /\ done \subseteq Position \X Target \X Outcome
        /\ \A i \in done : i \in items \/ (i[1] = pos /\ i[2] \in Applies[pos])
        /\ File \cap Applies[pos] # {} => done # {}
      BY <1>1, <2>1, RecordFacts
  <2>4. /\ other \subseteq Position \X Target \X Outcome
        /\ \A i \in other : i \in items \/ i[3] = "out_of_scope"
        /\ File \ Applies[pos] # {} => other # {}
      BY <1>1, <2>1, RecordFacts
  <2> HIDE DEF done, other
  <2>5. items' = done \cup other
      BY <1>1 DEF done, other
  <2>6. items' # {}
      BY <2>2, <2>3, <2>4, <2>5
  <2>7. \A i \in items' : i \in items \/ i[3] = "out_of_scope" \/ (i[1] = pos /\ i[2] \in Applies[pos])
      BY <2>3, <2>4, <2>5
  <2> QED BY <2>3, <2>4, <2>5, <2>6, <2>7
<1>4. PipeType'
    BY <1>1, <1>3 DEF PipeType
<1>5. PlaceInv'
    BY <1>1 DEF PlaceInv
<1>6. ItemsInv'
    BY <1>1, <1>3 DEF ItemsInv
<1>7. LookedInv'
  <2>1. Unblemished' => Unblemished
      BY <1>1, <1>2 DEF Unblemished
  <2>2. \A p : LookedWith(p) => LookedWith(p)'
      BY <1>1, LookedGrows
  <2> QED BY <1>1, <2>1, <2>2 DEF LookedInv, Looking
<1>8. LateShows'
    BY <1>1 DEF LateShows
<1> QED BY <1>4, <1>5, <1>6, <1>7, <1>8

\* It returns: its files were looked at, and its views are next, if it has any.
LEMMA InvokeKeeps == ASSUME LedgerInv, Invoke PROVE LedgerInv'
<1> USE DEF LedgerInv
<1>1. /\ at = "invoke" /\ pos \in request.wanted /\ pos \in Position
      /\ inspected' = inspected \cup {<<pos, f>> : f \in Applies[pos]}
      /\ "derived-views" \in degraded => "derived-views" \in degraded'
      /\ covered' \subseteq covered \cup Types[pos]
      /\ at' = IF pos \in Shallow THEN "budget" ELSE "views"
      /\ pos' = IF pos \in Shallow THEN pos + 1 ELSE pos
      /\ UNCHANGED <<request, built, view, items, exceeded>>
  <2>1. at = "invoke" /\ pos \in request.wanted /\ pos \in Position
      BY RequestFacts DEF Invoke, PlaceInv
  <2>2. "derived-views" \notin Types[pos]
      BY <2>1, PipelineAssumption
  <2>3. /\ inspected' = inspected \cup {<<pos, f>> : f \in Applies[pos]}
        /\ at' = IF pos \in Shallow THEN "budget" ELSE "views"
        /\ pos' = IF pos \in Shallow THEN pos + 1 ELSE pos
        /\ UNCHANGED <<request, built, view, items, exceeded>>
      BY Zenon DEF Invoke
  <2>4. PICK short \in BOOLEAN :
            /\ degraded' = IF short THEN degraded \cup Types[pos] ELSE degraded \ Types[pos]
            /\ covered' = IF short THEN covered \ Types[pos] ELSE covered \cup Types[pos]
      BY DEF Invoke
  <2>5. "derived-views" \in degraded => "derived-views" \in degraded'
      BY <2>2, <2>4
  <2>6. covered' \subseteq covered \cup Types[pos]
      BY <2>4
  <2> QED BY <2>1, <2>3, <2>5, <2>6
<1>2. OnTime' = OnTime
    BY Zenon DEF Invoke, OnTime, clock
<1>3. PipeType'
  <2>1. found' \in [Kind -> Nat]
      BY AddFacts DEF Invoke
  <2>2. inspected' \subseteq Position \X Target
      BY <1>1, PipelineAssumption DEF PipeType, Target
  <2> QED BY <1>1, <2>1, <2>2 DEF PipeType
<1>4. PlaceInv'
    BY <1>1 DEF PlaceInv
<1>5. ItemsInv'
    BY <1>1 DEF ItemsInv
<1>6. LookedInv'
  <2> SUFFICES ASSUME Unblemished'
               PROVE  /\ built' = request.views
                      /\ \A p \in request.wanted : p < pos' => LookedWith(p)'
                      /\ at' = "views" => FilesLooked' /\ ViewsLooked(view - 1)'
      BY <1>1 DEF LookedInv
  <2>1. Unblemished
      BY <1>1, <1>2 DEF Unblemished
  <2>2. built' = request.views /\ \A p \in request.wanted : p < pos => LookedWith(p)'
      BY <1>1, <2>1, LookedGrows DEF LookedInv, Looking
  <2>3. \A f \in Applies[pos] : <<pos, f>> \in inspected'
      BY <1>1
  <2>4. \A p : p = pos /\ p \in Shallow => LookedWith(p)'
      BY <2>3 DEF LookedWith
  <2>5. CASE pos \in Shallow
    <3>1. \A p \in request.wanted : p < pos' => p < pos \/ p = pos
        BY <1>1, <2>5, RequestFacts, PipelineAssumption
    <3> QED BY <1>1, <2>2, <2>4, <2>5, <3>1
  <2>6. CASE pos \notin Shallow
    <3>1. FilesLooked'
        BY <1>1, <2>3, <2>6 DEF FilesLooked
    <3>2. view = 1
        BY <1>1 DEF PlaceInv
    <3>3. ViewsLooked(view - 1)'
        BY <1>1, <3>2 DEF ViewsLooked
    <3> QED BY <1>1, <2>2, <2>6, <3>1, <3>3
  <2> QED BY <2>5, <2>6
<1>7. LateShows'
    BY <1>1 DEF LateShows
<1> QED BY <1>3, <1>4, <1>5, <1>6, <1>7

\* The deadline passes while an analyzer runs: what it began is skipped.
LEMMA TimesOutKeeps == ASSUME LedgerInv, TimesOut PROVE LedgerInv'
<1> USE DEF LedgerInv
<1>1. /\ at = "invoke" /\ at' = "budget" /\ pos \in Position /\ pos' = pos + 1 /\ view' = 1
      /\ items' = Interrupted("skipped")
      /\ UNCHANGED <<request, built, found, covered, degraded, exceeded, inspected>>
    BY RequestFacts DEF TimesOut, NextAnalyzer, PlaceInv
<1>2. ~OnTime'
    BY Zenon DEF TimesOut, Expired, OnTime, clock
<1>3. /\ items' \subseteq Position \X Target \X Outcome
      /\ \A i \in items' : i \in items \/ i[3] # "completed"
      /\ items' # {}
  <2>1. "skipped" \in Outcome \ {"completed"} /\ items # {}
      BY <1>1 DEF Outcome, ItemsInv
  <2> QED BY <1>1, <2>1, InterruptedFacts
<1>4. PipeType'
    BY <1>1, <1>3 DEF PipeType
<1>5. PlaceInv'
    BY <1>1 DEF PlaceInv
<1>6. ItemsInv'
    BY <1>1, <1>3 DEF ItemsInv
<1>7. LookedInv' /\ LateShows'
    BY <1>1, <1>2 DEF LookedInv, Unblemished, LateShows
<1> QED BY <1>4, <1>5, <1>6, <1>7

\* The derived views, one after the other.
LEMMA PassViewKeeps == ASSUME LedgerInv, PassView PROVE LedgerInv'
<1> USE DEF LedgerInv
<1>1. /\ at = "views" /\ view <= built /\ ~InScope(Views[view]) /\ view' = view + 1
      /\ UNCHANGED <<request, built, at, pos, items, found, covered, degraded, exceeded, inspected>>
    BY DEF PassView, NextView
<1>2. OnTime' = OnTime
    BY Zenon DEF PassView, NextView, OnTime, clock
<1>3. PipeType' /\ ItemsInv'
    BY <1>1 DEF PipeType, ItemsInv
<1>4. PlaceInv'
    BY <1>1 DEF PlaceInv
<1>5. LookedInv'
  <2>1. \A n \in 1 .. view' - 1 : n \in 1 .. view - 1 \/ n = view
      BY <1>1 DEF PlaceInv
  <2>2. ViewsLooked(view - 1) => ViewsLooked(view - 1)'
      BY <1>1, <2>1 DEF ViewsLooked, InScope
  <2>3. /\ \A p : LookedWith(p) => LookedWith(p)'
        /\ FilesLooked => FilesLooked'
        /\ Unblemished' => Unblemished
      BY <1>1, <1>2, LookedGrows DEF FilesLooked, Unblemished
  <2> QED BY <1>1, <2>2, <2>3 DEF LookedInv
<1>6. LateShows'
    BY <1>1 DEF LateShows
<1> QED BY <1>3, <1>4, <1>5, <1>6

\* A view within the scope is looked at, or the coverage of views is degraded.
LEMMA LookAtViewKeeps == ASSUME LedgerInv, LookAtView PROVE LedgerInv'
<1> USE DEF LedgerInv
<1>1. /\ at = "views" /\ view <= built /\ view' = view + 1 /\ pos \in Position
      /\ "derived-views" \in degraded => "derived-views" \in degraded'
      /\ \/ items' = Record({Views[view]}, "completed") /\ inspected' = inspected \cup {<<pos, Views[view]>>}
         \/ items' = Record({Views[view]}, "failed") /\ inspected' = inspected /\ "derived-views" \in degraded'
      /\ UNCHANGED <<request, built, at, pos, covered, exceeded>>
    BY RequestFacts DEF LookAtView, NextView, PlaceInv
<1>2. OnTime' = OnTime
    BY Zenon DEF LookAtView, NextView, OnTime, clock
<1>3. Views[view] \in Target /\ Views[view] \notin File
  <2>1. view \in DOMAIN Views
      BY <1>1, RequestFacts DEF PlaceInv
  <2> QED BY <2>1, PipelineAssumption DEF ViewSet, Target
<1>4. /\ items' \subseteq Position \X Target \X Outcome
      /\ \A i \in items' : i \in items \/ i[2] \notin File
      /\ items \subseteq items'
  <2>1. {Views[view]} \subseteq Target /\ "completed" \in Outcome /\ "failed" \in Outcome
      BY <1>3 DEF Outcome
  <2> DEFINE R(o) == Record({Views[view]}, o)
  <2>2. \A o \in {"completed", "failed"} :
            /\ R(o) \subseteq Position \X Target \X Outcome
            /\ \A i \in R(o) : i \in items \/ i[2] \in {Views[view]}
            /\ items \subseteq R(o)
      BY <1>1, <2>1, RecordFacts
  <2>3. items' = R("completed") \/ items' = R("failed")
      BY <1>1
  <2> HIDE DEF R
  <2> QED BY <1>3, <2>2, <2>3
<1>5. inspected \subseteq inspected' /\ inspected' \subseteq Position \X Target
    BY <1>1, <1>3 DEF PipeType
<1>6. PipeType'
  <2>1. found' \in [Kind -> Nat]
      BY AddFacts DEF LookAtView, PipeType
  <2> QED BY <1>1, <1>4, <1>5, <2>1 DEF PipeType
<1>7. PlaceInv'
    BY <1>1 DEF PlaceInv
<1>8. ItemsInv'
    BY <1>1, <1>4 DEF ItemsInv
<1>9. LookedInv'
  <2> SUFFICES ASSUME Unblemished'
               PROVE  /\ built' = request.views
                      /\ \A p \in request.wanted : p < pos => LookedWith(p)'
                      /\ FilesLooked' /\ ViewsLooked(view - 1)'
      BY <1>1 DEF LookedInv
  <2>1. Unblemished
      BY <1>1, <1>2 DEF Unblemished
  <2>2. inspected' = inspected \cup {<<pos, Views[view]>>}
      BY <1>1 DEF Unblemished
  <2>3. \A n \in 1 .. view' - 1 : n \in 1 .. view - 1 \/ n = view
      BY <1>1 DEF PlaceInv
  <2>4. ViewsLooked(view - 1) => ViewsLooked(view - 1)'
      BY <1>1, <1>5, <2>2, <2>3 DEF ViewsLooked
  <2>5. /\ \A p : LookedWith(p) => LookedWith(p)'
        /\ FilesLooked => FilesLooked'
      BY <1>1, <1>5, LookedGrows DEF FilesLooked
  <2> QED BY <1>1, <2>1, <2>4, <2>5 DEF LookedInv, Looking
<1>10. LateShows'
    BY <1>1 DEF LateShows
<1> QED BY <1>6, <1>7, <1>8, <1>9, <1>10

\* The other views are given up, and the coverage of views is degraded.
LEMMA DropViewsKeeps == ASSUME LedgerInv, DropViews PROVE LedgerInv'
<1> USE DEF LedgerInv
<1>1. /\ at = "views" /\ at' = "budget" /\ pos \in Position /\ pos' = pos + 1 /\ view' = 1
      /\ "derived-views" \in degraded'
      /\ UNCHANGED <<request, built, items, found, covered, inspected>>
    BY RequestFacts DEF DropViews, NextAnalyzer, PlaceInv
<1>2. PipeType' /\ ItemsInv'
    BY <1>1 DEF PipeType, ItemsInv
<1>3. PlaceInv'
    BY <1>1 DEF PlaceInv
<1>4. LookedInv' /\ LateShows'
    BY <1>1 DEF LookedInv, Unblemished, LateShows
<1> QED BY <1>2, <1>3, <1>4

\* All views were looked at, and with them the analyzer is done.
LEMMA ViewsDoneKeeps == ASSUME LedgerInv, ViewsDone PROVE LedgerInv'
<1> USE DEF LedgerInv
<1>1. /\ at = "views" /\ at' = "budget" /\ view > built /\ pos \in Position /\ pos' = pos + 1 /\ view' = 1
      /\ UNCHANGED <<request, built, items, found, covered, degraded, exceeded, inspected>>
    BY RequestFacts DEF ViewsDone, NextAnalyzer, PlaceInv, ledger
<1>2. OnTime' = OnTime
    BY Zenon DEF ViewsDone, OnTime, clock
<1>3. PipeType' /\ ItemsInv'
    BY <1>1 DEF PipeType, ItemsInv
<1>4. PlaceInv'
    BY <1>1 DEF PlaceInv
<1>5. LookedInv'
  <2> SUFFICES ASSUME Unblemished'
               PROVE  built' = request.views /\ \A p \in request.wanted : p < pos' => LookedWith(p)'
      BY <1>1 DEF LookedInv
  <2>1. Unblemished
      BY <1>1, <1>2 DEF Unblemished
  <2>2. /\ built = request.views /\ FilesLooked /\ ViewsLooked(view - 1)
        /\ \A p \in request.wanted : p < pos => LookedWith(p)
      BY <1>1, <2>1 DEF LookedInv, Looking
  <2>3. \A i \in 1 .. request.views : i \in 1 .. view - 1
      BY <1>1, <2>2 DEF PlaceInv
  <2>4. LookedWith(pos)
      BY <2>2, <2>3 DEF LookedWith, FilesLooked, ViewsLooked
  <2>5. \A p \in request.wanted : p < pos' => p < pos \/ p = pos
      BY <1>1, RequestFacts, PipelineAssumption
  <2>6. \A p : LookedWith(p) => LookedWith(p)'
      BY <1>1, LookedGrows
  <2> QED BY <1>1, <2>2, <2>4, <2>5, <2>6
<1>6. LateShows'
    BY <1>1 DEF LateShows
<1> QED BY <1>3, <1>4, <1>5, <1>6

\* After the last analyzer every one that was asked for has looked.
LEMMA AnalyzersDoneKeeps == ASSUME LedgerInv, AnalyzersDone PROVE LedgerInv'
<1> USE DEF LedgerInv
<1>1. /\ at = "budget" /\ at' = "finish" /\ pos \notin Position
      /\ UNCHANGED <<request, built, pos, view, items, found, covered, degraded, exceeded, inspected>>
    BY DEF AnalyzersDone, ledger
<1>2. OnTime' = OnTime
    BY Zenon DEF AnalyzersDone, OnTime, clock
<1>3. PipeType' /\ ItemsInv' /\ PlaceInv'
    BY <1>1 DEF PipeType, ItemsInv, PlaceInv
<1>4. LookedInv'
  <2>1. \A p \in request.wanted : p < pos
      BY <1>1, RequestFacts, PipelineAssumption DEF PlaceInv
  <2>2. Unblemished' => Unblemished /\ built = request.views /\ AllLooked
      BY <1>1, <1>2, <2>1 DEF Unblemished, LookedInv, Looking, AllLooked
  <2>3. AllLooked => AllLooked'
      BY <1>1, LookedGrows
  <2> QED BY <1>1, <2>2, <2>3 DEF LookedInv
<1>5. LateShows'
    BY <1>1 DEF LateShows
<1> QED BY <1>3, <1>4, <1>5

\* The limits that were exceeded are put on record.
LEMMA FinishKeeps == ASSUME LedgerInv, Finish PROVE LedgerInv'
<1> USE DEF LedgerInv
<1>1. PICK kinds \in SUBSET {"advisory", "high"} :
          Add(kinds) /\ exceeded' = exceeded \cup Overrun(Findings + Cardinality(kinds))
    BY DEF Finish
<1>2. /\ at = "finish" /\ at' = "judge" /\ degraded \subseteq degraded'
      /\ UNCHANGED <<request, built, pos, view, items, covered, inspected>>
    BY DEF Finish
<1>3. exceeded \subseteq exceeded' /\ (TooMany => exceeded' # {})
  <2>1. IsFiniteSet(kinds)
    <3>1. IsFiniteSet({"advisory"}) /\ IsFiniteSet({"advisory"} \cup {"high"})
        BY FS_Singleton, FS_AddElement
    <3>2. kinds \in SUBSET ({"advisory"} \cup {"high"})
        BY <1>1
    <3> QED BY <3>1, <3>2, FS_Subset
  <2>2. Cardinality(kinds) \in Nat
      BY <2>1, FS_CardinalityType
  <2>3. TooMany => Over(Findings + Cardinality(kinds), MaxFindings)
      BY <2>2, FindingsFacts, PipelineAssumption DEF TooMany, Over
  <2>4. TooMany => "findings" \in Overrun(Findings + Cardinality(kinds))
      BY <2>3 DEF Overrun
  <2> QED BY <1>1, <2>4
<1>4. OnTime' = OnTime /\ (~OnTime => exceeded' # {})
  <2>1. OnTime' = OnTime
      BY Zenon DEF Finish, OnTime, clock
  <2>2. ~OnTime => "wall_time" \in Overrun(Findings + Cardinality(kinds))
      BY DEF OnTime, Overrun
  <2> QED BY <1>1, <2>1, <2>2
<1>5. PipeType'
    BY <1>1, <1>2, AddFacts DEF PipeType
<1>6. ItemsInv' /\ PlaceInv'
    BY <1>2 DEF ItemsInv, PlaceInv
<1>7. LookedInv'
  <2>1. Unblemished' => Unblemished /\ built = request.views /\ AllLooked
      BY <1>2, <1>3, <1>4 DEF Unblemished, LookedInv, Looking
  <2>2. AllLooked => AllLooked'
      BY <1>2, LookedGrows
  <2> QED BY <1>2, <2>1, <2>2 DEF LookedInv
<1>8. LateShows'
    BY <1>2, <1>4 DEF LateShows
<1> QED BY <1>5, <1>6, <1>7, <1>8

\* The scan fails: what it has entered does not count any more.
LEMMA ErrorKeeps ==
    ASSUME LedgerInv, Fails \/ FinishFails \/ BaselineFails
    PROVE  LedgerInv'
<1> USE DEF LedgerInv
<1>1. /\ at' = "error"
      /\ UNCHANGED <<request, built, pos, view, found, covered, degraded, exceeded, inspected>>
    BY DEF Fails, FinishFails, BaselineFails, ledger
<1>2. /\ items' \subseteq Position \X Target \X Outcome
      /\ \A i \in items' : i \in items \/ i[3] # "completed"
      /\ items # {} => items' # {}
  <2>1. CASE Fails /\ items' = Interrupted("failed")
    <3>1. "failed" \in Outcome \ {"completed"} /\ pos \in Position
        BY <2>1, RequestFacts DEF Fails, Outcome, PlaceInv
    <3> QED BY <2>1, <3>1, InterruptedFacts
  <2>2. CASE items' = items
      BY <2>2 DEF PipeType
  <2> QED BY <2>1, <2>2 DEF Fails, FinishFails, BaselineFails, ledger
<1>3. PipeType' /\ ItemsInv'
    BY <1>1, <1>2 DEF PipeType, ItemsInv
<1>4. PlaceInv'
    BY <1>1 DEF PlaceInv
<1>5. LookedInv' /\ LateShows'
    BY <1>1 DEF LookedInv, LateShows, Looking
<1> QED BY <1>3, <1>4, <1>5

\* The judgement reads the ledger only.
LEMMA JudgementKeeps ==
    ASSUME LedgerInv, Store \/ Judge
    PROVE  LedgerInv'
<1> USE DEF LedgerInv
<1>1. /\ at = "judge" /\ at' = "judged"
      /\ UNCHANGED <<request, built, pos, view, items, found, covered, degraded, exceeded, inspected>>
  <2>1. CASE Store
      BY <2>1 DEF Store, ledger
  <2>2. CASE Judge
    <3>1. at = "judge" /\ at' = "judged" /\ UNCHANGED <<request, pos, view, built, ledger, clock>>
        BY <2>2, Zenon DEF Judge
    <3> QED BY <3>1 DEF ledger
  <2> QED BY <2>1, <2>2
<1>2. OnTime' = OnTime
  <2>1. CASE Store
      BY <2>1, Zenon DEF Store, OnTime, clock
  <2>2. CASE Judge
      BY <2>2, Zenon DEF Judge, OnTime, clock
  <2> QED BY <2>1, <2>2
<1>3. PipeType' /\ ItemsInv' /\ PlaceInv'
    BY <1>1 DEF PipeType, ItemsInv, PlaceInv
<1>4. LookedInv'
  <2>1. AllLooked => AllLooked'
      BY <1>1, LookedGrows
  <2> QED BY <1>1, <1>2, <2>1 DEF LookedInv, Unblemished, Looking
<1>5. LateShows'
    BY <1>1, <1>2 DEF LateShows
<1> QED BY <1>3, <1>4, <1>5

\* Every step of the scan.
LEMMA PipelineKeeps == LedgerInv /\ PipelineStep => LedgerInv'
    BY StartKeeps, DeriveKeeps, OverBudgetKeeps, PassOverKeeps, BeginKeeps, InvokeKeeps, TimesOutKeeps,
       PassViewKeeps, LookAtViewKeeps, DropViewsKeeps, ViewsDoneKeeps, AnalyzersDoneKeeps, FinishKeeps,
       ErrorKeeps, JudgementKeeps DEF PipelineStep

\* The ledger is forgotten once the command goes on, and does not change then.
LEMMA ForgetKeeps ==
    ASSUME LedgerInv, Forget, request' = request, at' \in {"walk", "done", "error"}
    PROVE  LedgerInv'
<1> USE DEF LedgerInv
<1>1. /\ pos' = 1 /\ view' = 1 /\ built' = 0 /\ items' = {} /\ inspected' = {} /\ covered' = {}
      /\ found' = [k \in Kind |-> 0]
    BY DEF Forget
<1>2. PipeType'
    BY <1>1 DEF PipeType
<1>3. PlaceInv'
    BY <1>1, RequestFacts DEF PlaceInv
<1>4. ItemsInv' /\ LookedInv' /\ LateShows'
    BY <1>1 DEF ItemsInv, LookedInv, LateShows, Looking
<1> QED BY <1>2, <1>3, <1>4

\* Steps that leave the ledger alone.
LEMMA AsideKeeps ==
    ASSUME LedgerInv, UNCHANGED <<request, pos, view, built, items, found, covered, degraded, exceeded, inspected>>,
           at' = at \/ at' \in {"walk", "done", "error"},
           OnTime' = OnTime \/ (~OnTime' /\ at' \notin {"judge", "judged"})
    PROVE  LedgerInv'
<1> USE DEF LedgerInv
<1>1. PipeType' /\ ItemsInv' /\ PlaceInv'
    BY DEF PipeType, ItemsInv, PlaceInv
<1>2. LookedInv'
  <2>1. AllLooked => AllLooked'
      BY LookedGrows
  <2>2. /\ \A p : LookedWith(p) => LookedWith(p)'
        /\ FilesLooked => FilesLooked'
        /\ ViewsLooked(view - 1) => ViewsLooked(view - 1)'
        /\ TooMany' = TooMany
      BY LookedGrows DEF FilesLooked, ViewsLooked, TooMany, Findings
  <2> QED BY <2>1, <2>2 DEF LookedInv, Unblemished, Looking
<1>3. LateShows'
    BY DEF LateShows
<1> QED BY <1>1, <1>2, <1>3

-----------------------------------------------------------------------------
\* What is known of the result.
Scanned == at \in {"judged", "walk", "done"}

IsReport(r) ==
    /\ r = [x \in {"status", "verdict", "max", "analysed", "decision"} |-> r[x]]
    /\ r.status \in {"NONE", "PASS", "WARN", "FAIL"}

Agree(r) == r.status = "FAIL" <=> r.verdict = "BLOCK"

ResultInv ==
    /\ IsReport(result) /\ Agree(result)
    /\ at \in Scanning => result = NoResult
    /\ Scanned => /\ result.status = "PASS" /\ result.verdict = "CLEAR" => thorough
                  /\ result.decision = "CACHED" => thorough
                  /\ result.decision = "ALLOW" => at = "done"
    /\ at = "judged" => (Thorough => thorough)

\* A failed result: FAIL and BLOCK together.
LEMMA FailedFacts ==
    ASSUME NEW r, IsReport(r), NEW max
    PROVE  /\ IsReport(Failed(r, max)) /\ Agree(Failed(r, max)) /\ Failed(r, max).status = "FAIL"
           /\ Failed(r, max).decision = r.decision
    BY DEF IsReport, Failed, Agree

\* A qualified result does not pass.
LEMMA QualifiedFacts ==
    ASSUME NEW r, IsReport(r), Agree(r)
    PROVE  /\ IsReport(Qualified(r)) /\ Agree(Qualified(r)) /\ Qualified(r).status # "PASS"
           /\ Qualified(r).decision = r.decision
    BY DEF IsReport, Qualified, Agree

\* The outcome of a closure: what a blocked state leaves open is settled.
LEMMA OutcomeFacts ==
    ASSUME NEW r, IsReport(r), NEW state, NEW max, state = "UNSAFE" \/ Agree(r)
    PROVE  LET s == ApplyOutcome(r, state, max)
           IN  /\ IsReport(s) /\ Agree(s) /\ s.decision = r.decision
               /\ s.status = "PASS" => s = r /\ state # "UNSAFE" /\ state # "UNKNOWN"
<1>1. CASE state = "UNSAFE"
    BY <1>1, FailedFacts DEF ApplyOutcome
<1>2. CASE state = "UNKNOWN"
    BY <1>2, QualifiedFacts DEF ApplyOutcome
<1>3. CASE state # "UNSAFE" /\ state # "UNKNOWN"
    BY <1>3 DEF ApplyOutcome
<1> QED BY <1>1, <1>2, <1>3

\* A demand that was not met fails both.
LEMMA DemandedFacts ==
    ASSUME NEW r, IsReport(r), Agree(r)
    PROVE  /\ IsReport(Demanded(r)) /\ Agree(Demanded(r)) /\ Demanded(r).decision = r.decision
           /\ Demanded(r).status = "PASS" => Demanded(r) = r
    BY DEF IsReport, Demanded, Agree

\* The fields of a judgement.
LEMMA JudgedFacts ==
    ASSUME NEW s \in {"PASS", "WARN", "FAIL"}, NEW v, NEW m, NEW a
    PROVE  LET r == [status |-> s, verdict |-> v, max |-> m, analysed |-> a, decision |-> "NONE"]
           IN  IsReport(r) /\ r.status = s /\ r.verdict = v /\ r.max = m /\ r.decision = "NONE"
    BY DEF IsReport

\* A scan about which nothing was held back, and which has covered anything, looked
\* at everything.
LEMMA AnalysedIsThorough ==
    ASSUME LedgerInv, at \in {"judge", "judged"}, Analysed, covered # {}
    PROVE  Thorough
<1> USE DEF LedgerInv
<1>1. Unblemished
    BY DEF Analysed, RootAnalysed, LateShows, Unblemished
<1>2. AllLooked
    BY <1>1 DEF LookedInv, Looking
<1>3. \A f \in File : Readable(f)
  <2> SUFFICES ASSUME NEW f \in File PROVE Readable(f)
      OBVIOUS
  <2>1. f \notin request.opaque /\ \E i \in items : i[2] = f /\ i[3] = "completed"
      BY DEF Analysed, FileAnalysed, ItemsInv
  <2> QED BY <2>1 DEF Readable, ItemsInv
<1> QED BY <1>2, <1>3, Zenon DEF Thorough, AllLooked

\* A result that may be stored was not cut short.
LEMMA CacheableIsThorough ==
    ASSUME LedgerInv, at = "judge", Cacheable, request.api
    PROVE  Thorough
<1> USE DEF LedgerInv
<1>1. Unblemished
    BY DEF Cacheable, LateShows, Unblemished
<1>2. AllLooked
    BY <1>1 DEF LookedInv, Looking
<1> QED BY <1>2, Zenon DEF Thorough, AllLooked

\* What was looked at depends on the request and the history only.
LEMMA ThoroughStays ==
    ASSUME UNCHANGED <<request, inspected>>
    PROVE  Thorough' => Thorough
    BY DEF Thorough, LookedWith, Readable

\* The judgement: PASS and CLEAR are for a SAFE closure, which only a whole scan has.
LEMMA JudgeGives ==
    ASSUME LedgerInv, ResultInv, Judge
    PROVE  ResultInv'
<1>1. PICK mismatches, suppressed :
          result' = Judgement([k \in Kind |-> IF k \in suppressed THEN 0
                                              ELSE found[k] + IF k \in mismatches THEN 1 ELSE 0])
    BY Zenon DEF Judge
<1> DEFINE active == [k \in Kind |-> IF k \in suppressed THEN 0
                                     ELSE found[k] + IF k \in mismatches THEN 1 ELSE 0]
           judged == Judged(active)
           state == LocalState(judged)
           closed == ApplyOutcome(judged, state, Maximum(active))
<1>2. result' = Demanded(closed)
    BY <1>1, Zenon DEF Judgement
<1> HIDE DEF active
<1>3. FirstStatus(active) \in {"PASS", "WARN", "FAIL"}
    BY DEF FirstStatus, StatusOf
<1>4. /\ IsReport(judged) /\ judged.decision = "NONE" /\ judged.verdict = Verdict(active)
    BY <1>3, JudgedFacts, Zenon DEF Judged
<1> HIDE DEF judged
<1>5. state = "UNSAFE" \/ Agree(judged)
    BY DEF LocalState, Blocks, Agree
<1>6. state \notin {"UNSAFE", "UNKNOWN"} => Analysed
    BY DEF LocalState
<1> HIDE DEF state
<1>7. /\ IsReport(closed) /\ Agree(closed) /\ closed.decision = "NONE"
      /\ closed.status = "PASS" => closed = judged /\ state # "UNSAFE" /\ state # "UNKNOWN"
    BY <1>4, <1>5, OutcomeFacts
<1> HIDE DEF closed
<1>8. /\ IsReport(result') /\ Agree(result') /\ result'.decision = "NONE"
      /\ result'.status = "PASS" => result' = judged /\ Analysed
    BY <1>2, <1>6, <1>7, DemandedFacts
<1>9. Verdict(active) = "CLEAR" => covered # {}
    BY DEF Verdict
<1>10. result'.status = "PASS" /\ result'.verdict = "CLEAR" => Thorough
    BY <1>4, <1>8, <1>9, AnalysedIsThorough DEF Judge
<1>11. (Thorough => thorough') /\ at' = "judged"
    BY Zenon DEF Judge
<1>12. Thorough' => Thorough
  <2>1. UNCHANGED <<request, pos, view, built, ledger, clock>>
      BY Zenon DEF Judge
  <2> QED BY <2>1, ThoroughStays DEF ledger
<1> QED BY <1>8, <1>10, <1>11, <1>12 DEF ResultInv, Scanned, Scanning

\* What the public API stores was not cut short.
LEMMA StoreGives ==
    ASSUME LedgerInv, ResultInv, Store
    PROVE  ResultInv'
<1>1. /\ at = "judge" /\ at' = "judged" /\ result = NoResult /\ UNCHANGED <<request, inspected>>
      /\ result' = [result EXCEPT !.decision = IF Cacheable THEN "CACHED" ELSE "SCANNED"]
    BY DEF Store, ResultInv, Scanning, ledger
<1>2. /\ IsReport(result') /\ Agree(result') /\ result'.status = "NONE"
      /\ result'.decision = "CACHED" => Cacheable
      /\ result'.decision # "ALLOW"
    BY <1>1 DEF NoResult, IsReport, Agree
<1>3. (Thorough => thorough') /\ request.api
    BY Zenon DEF Store
<1>4. Thorough' => Thorough
    BY <1>1, ThoroughStays
<1>5. Cacheable => Thorough
    BY <1>1, <1>3, CacheableIsThorough
<1> QED BY <1>1, <1>2, <1>3, <1>4, <1>5 DEF ResultInv, Scanned, Scanning

\* Before the judgement there is no result.
LEMMA PipelineResult ==
    ASSUME LedgerInv, ResultInv, PipelineStep
    PROVE  ResultInv'
<1>1. CASE Store
    BY <1>1, StoreGives
<1>2. CASE Judge
    BY <1>2, JudgeGives
<1>3. CASE ~Store /\ ~Judge
  <2>1. UNCHANGED <<result, thorough>> /\ at \in Scanning /\ at' \in Scanning \cup {"error"}
      BY <1>3 DEF PipelineStep, Start, Derive, OverBudget, PassOver, Begin, Invoke, TimesOut, Fails,
            PassView, LookAtView, DropViews, ViewsDone, AnalyzersDone, Finish, FinishFails, BaselineFails,
            NextAnalyzer, NextView, Scanning
  <2> QED BY <2>1 DEF ResultInv, Scanned, Scanning
<1> QED BY <1>1, <1>2, <1>3

-----------------------------------------------------------------------------
\* The command as a whole.
PhaseInv ==
    /\ at \notin {"walk", "done", "error"} => NotWalked
    /\ at = "done" => stack = <<>>

CommandInv ==
    WalkInv /\ LedgerInv /\ ResultInv /\ PhaseInv /\ AllowIsEarned /\ ClearIsEarned

\* A walk that is over and of which the closure is SAFE left no reference out.
LEMMA SafeIsComplete ==
    ASSUME WalkInv, stack = <<>>, NEW root, ClosureState(root) \notin {"UNSAFE", "UNKNOWN"}
    PROVE  /\ \A p \in {Root} \cup Fetched : refs[p] \subseteq Fetched
           /\ \A u \in Fetched : scans[u].completed /\ ~Blocked(scans[u])
<1> USE DEF WalkInv
<1>1. ~Unsafe(root) /\ ~Open(root)
    BY DEF ClosureState
<1>2. \A n \in nodes : n.how = "fetched" \/ n.how = "known"
  <2>1. \A n \in nodes : n.how \in {"fetched", "skipped", "known"}
      BY DEF WalkTypeOK, Node
  <2> QED BY <1>1, <2>1 DEF Open, Inventory
<1>3. \A u \in seen : u \in Fetched
    BY <1>2 DEF NodesMatch
<1>4. \A p \in {Root} \cup Fetched : \A u \in refs[p] : u \in Fetched
  <2> SUFFICES ASSUME NEW p \in {Root} \cup Fetched, NEW u \in refs[p] PROVE u \in Fetched
      OBVIOUS
  <2>1. \E n \in nodes : n.url = u
      BY DEF InventoryIsComplete
  <2> QED BY <1>2, <1>3, <2>1 DEF NodesMatch
<1>5. \A u \in Address : ~Conflicting(u)
    BY <1>2 DEF Conflicting, Inventory, FollowedWithinLimits
<1>6. \A u \in Fetched : ~Blocked(scans[u])
    BY <1>1, <1>5 DEF Unsafe, ConflictAfter
<1>7. \A u \in Fetched : scans[u].completed
    BY <1>1, Zenon DEF Open
<1> QED BY <1>4, <1>6, <1>7, Zenon

\* Steps that leave the walk alone.
LEMMA WalkStays ==
    ASSUME WalkInv, UNCHANGED walkVars
    PROVE  WalkInv'
    BY DEF walkVars, WalkInv, WalkTypeOK, FollowedWithinLimits, InventoryIsComplete, NodesMatch, Fetched

\* Without a walk there are no references.
LEMMA NotWalkedFacts ==
    ASSUME NotWalked
    PROVE  stack = <<>> /\ \A p \in {Root} \cup Fetched : refs[p] = {} /\ p \notin Fetched
<1>1. Root \in Root .. Limit
    BY WalkAssumption DEF Root
<1> QED BY <1>1 DEF NotWalked, Fetched

\* A command that is over without a walk.
LEMMA EndsUnwalked ==
    ASSUME CommandInv, at = "judged", UNCHANGED walkVars, Forget, request' = request, thorough' = thorough,
           at' = "done", IsReport(result'), Agree(result'),
           result'.status = result.status, result'.verdict = result.verdict,
           result'.decision = "CACHED" => result.decision = "CACHED",
           AllowIsEarned'
    PROVE  CommandInv'
<1> USE DEF CommandInv
<1>1. NotWalked /\ NotWalked'
    BY DEF PhaseInv, NotWalked, walkVars
<1>2. WalkInv'
    BY WalkStays
<1>3. LedgerInv'
    BY ForgetKeeps
<1>4. ResultInv'
    BY DEF ResultInv, Scanned, Scanning
<1>5. PhaseInv'
    BY <1>1, NotWalkedFacts DEF PhaseInv, walkVars
<1>6. ClearIsEarned'
  <2>1. /\ \A p \in {Root} \cup Fetched' : refs'[p] \subseteq Fetched'
        /\ Fetched' = {}
      BY <1>1, NotWalkedFacts DEF walkVars, Fetched
  <2>2. result'.status = "PASS" /\ result'.verdict = "CLEAR" => thorough'
      BY DEF ResultInv, Scanned
  <2> QED BY <2>1, <2>2, Zenon DEF ClearIsEarned, Done
<1> QED BY <1>2, <1>3, <1>4, <1>5, <1>6

\* The policy allows what ScanMeets and ClosureMeets hold of.
LEMMA DecideKeeps == ASSUME CommandInv, Decide PROVE CommandInv'
<1> USE DEF CommandInv
<1>1. PICK decision \in {"DENY"} \cup (IF ScanMeets /\ ClosureMeets THEN {"ALLOW"} ELSE {}) :
          result' = [result EXCEPT !.decision = decision]
    BY DEF Decide
<1>2. /\ IsReport(result') /\ Agree(result') /\ result'.decision = decision
      /\ result'.status = result.status /\ result'.verdict = result.verdict
    BY <1>1 DEF ResultInv, IsReport, Agree
<1>3. decision \in {"DENY", "ALLOW"} /\ (decision = "ALLOW" => ScanMeets /\ ClosureMeets)
    BY <1>1
<1>4. at = "judged" /\ at' = "done" /\ Forget /\ UNCHANGED <<request, walkVars>>
    BY DEF Decide
<1>5. thorough' = thorough
    BY DEF Decide
<1>6. ASSUME decision = "ALLOW"
      PROVE  thorough /\ \A t \in Required : \E p \in request.wanted : t \in Types[p]
  <2>1. Analysed /\ Required \subseteq covered
      BY <1>3, <1>6 DEF ScanMeets, ClosureMeets
  <2>2. Thorough
      BY <1>4, <2>1, AnalysedIsThorough, PolicyAssumption
  <2>3. thorough
      BY <1>4, <2>2 DEF ResultInv
  <2> QED BY <2>1, <2>3 DEF LedgerInv, ItemsInv
<1>7. AllowIsEarned'
    BY <1>2, <1>4, <1>5, <1>6 DEF AllowIsEarned
<1> QED BY <1>2, <1>3, <1>4, <1>5, <1>7, EndsUnwalked

\* The report of a scan without references.
LEMMA ReportKeeps == ASSUME CommandInv, Report PROVE CommandInv'
<1> USE DEF CommandInv
<1>1. at = "judged" /\ at' = "done" /\ Forget /\ UNCHANGED <<request, walkVars, result, thorough>>
    BY DEF Report
<1>2. IsReport(result') /\ Agree(result') /\ result'.decision # "ALLOW"
    BY <1>1 DEF ResultInv, Scanned
<1>3. AllowIsEarned'
    BY <1>2 DEF AllowIsEarned
<1> QED BY <1>1, <1>2, <1>3, EndsUnwalked

\* The walk begins, or cannot.
LEMMA WalkBegins == ASSUME CommandInv, Walk \/ WalkFails PROVE CommandInv'
<1> USE DEF CommandInv
<1>1. at = "judged" /\ at' \in {"walk", "error"} /\ Forget /\ UNCHANGED <<request, thorough, result>>
    BY DEF Walk, WalkFails
<1>2. NotWalked
    BY <1>1 DEF PhaseInv
<1>3. WalkInv'
    BY <1>2, StartWalkKeeps, WalkStays DEF Walk, WalkFails
<1>4. LedgerInv'
    BY <1>1, ForgetKeeps
<1>5. ResultInv'
    BY <1>1 DEF ResultInv, Scanned, Scanning
<1>6. PhaseInv' /\ AllowIsEarned' /\ ClearIsEarned'
    BY <1>1 DEF PhaseInv, AllowIsEarned, ClearIsEarned, Done
<1> QED BY <1>3, <1>4, <1>5, <1>6

\* The outcome of the closure of the references.
LEMMA CloseWalkKeeps == ASSUME CommandInv, CloseWalk PROVE CommandInv'
<1> USE DEF CommandInv
<1> DEFINE state == ClosureState(result)
<1>1. /\ at = "walk" /\ at' = "done" /\ stack = <<>>
      /\ result' = ApplyOutcome(result, state, ClosureMaximum(result))
      /\ UNCHANGED <<request, pos, view, built, ledger, clock, thorough, walkVars>>
    BY DEF CloseWalk, Walking
<1> HIDE DEF state
<1>2. /\ IsReport(result') /\ Agree(result') /\ result'.decision = result.decision
      /\ result'.status = "PASS" => result' = result /\ state # "UNSAFE" /\ state # "UNKNOWN"
    BY <1>1, OutcomeFacts DEF ResultInv
<1>3. WalkInv' /\ PhaseInv'
    BY <1>1, WalkStays DEF PhaseInv, walkVars
<1>4. LedgerInv'
  <2>1. OnTime' = OnTime
      BY <1>1, Zenon DEF clock, OnTime
  <2> QED BY <1>1, <2>1, AsideKeeps DEF ledger
<1>5. thorough' = thorough
    BY <1>1
<1>6. result.decision # "ALLOW"
    BY <1>1 DEF ResultInv, Scanned
<1>7. /\ result'.status = "PASS" /\ result'.verdict = "CLEAR" => thorough
      /\ result'.decision = "CACHED" => thorough
    BY <1>1, <1>2 DEF ResultInv, Scanned
<1>8. ResultInv'
    BY <1>1, <1>2, <1>5, <1>6, <1>7 DEF ResultInv, Scanned, Scanning
<1>9. AllowIsEarned'
    BY <1>2, <1>6 DEF AllowIsEarned
<1>10. ClearIsEarned'
  <2>1. ASSUME result'.status = "PASS", result'.verdict = "CLEAR"
        PROVE  /\ \A p \in {Root} \cup Fetched : refs[p] \subseteq Fetched
               /\ \A u \in Fetched : scans[u].completed /\ ~Blocked(scans[u])
    <3>1. state # "UNSAFE" /\ state # "UNKNOWN"
        BY <1>2, <2>1
    <3> QED BY <1>1, <3>1, SafeIsComplete, Zenon DEF state
  <2>2. UNCHANGED <<refs, scans>> /\ Fetched' = Fetched
      BY <1>1 DEF walkVars, Fetched
  <2> QED BY <1>5, <1>7, <2>1, <2>2, Zenon DEF ClearIsEarned, Blocked
<1> QED BY <1>3, <1>4, <1>8, <1>9, <1>10

\* A step of the scan.
LEMMA ScanStepKeeps == ASSUME CommandInv, PipelineStep, UNCHANGED walkVars PROVE CommandInv'
<1> USE DEF CommandInv
<1>1. at \in Scanning /\ at' \in Scanning \cup {"judged", "error"}
  <2>1. CASE Judge
      BY <2>1, Zenon DEF Judge, Scanning
  <2>2. CASE ~Judge
      BY <2>2 DEF PipelineStep, Start, Derive, OverBudget, PassOver, Begin, Invoke, TimesOut, Fails,
            PassView, LookAtView, DropViews, ViewsDone, AnalyzersDone, Finish, FinishFails, Store,
            BaselineFails, NextAnalyzer, NextView, Scanning
  <2> QED BY <2>1, <2>2
<1>2. WalkInv'
    BY WalkStays
<1>3. LedgerInv' /\ ResultInv'
    BY PipelineKeeps, PipelineResult
<1>4. PhaseInv'
    BY <1>1 DEF PhaseInv, Scanning, NotWalked, walkVars
<1>5. AllowIsEarned'
  <2>1. at' # "done"
      BY <1>1 DEF Scanning
  <2> QED BY <2>1 DEF AllowIsEarned, Done
<1>6. ClearIsEarned'
    BY <1>1 DEF ClearIsEarned, Done, Scanning
<1> QED BY <1>2, <1>3, <1>4, <1>5, <1>6

\* A step of the walk.
LEMMA WalkingKeeps == ASSUME CommandInv, at = "walk", WalkStep, UNCHANGED pipelineVars PROVE CommandInv'
<1> USE DEF CommandInv
<1>1. UNCHANGED <<request, at, pos, view, built, items, found, covered, degraded, exceeded, inspected,
                  thorough, result>>
    BY DEF pipelineVars, ledger
<1>2. OnTime' = OnTime
    BY Zenon DEF pipelineVars, clock, OnTime
<1>3. LedgerInv'
    BY <1>1, <1>2, AsideKeeps
<1>4. WalkInv'
    BY WalkStepKeeps
<1>5. ResultInv'
    BY <1>1 DEF ResultInv, Scanned, Scanning
<1>6. PhaseInv' /\ AllowIsEarned' /\ ClearIsEarned'
    BY <1>1 DEF PhaseInv, AllowIsEarned, ClearIsEarned, Done
<1> QED BY <1>3, <1>4, <1>5, <1>6

\* The deadline, the caller, and nothing at all.
LEMMA EnvironmentKeeps ==
    ASSUME CommandInv, Environment \/ UNCHANGED vars
    PROVE  CommandInv'
<1> USE DEF CommandInv
<1>1. /\ UNCHANGED <<request, at, pos, view, built, items, found, covered, degraded, exceeded, inspected>>
      /\ UNCHANGED <<thorough, result>> /\ UNCHANGED walkVars
    BY DEF Environment, TimePasses, Cancel, vars, pipelineVars, ledger
<1>2. OnTime' = OnTime \/ (~OnTime' /\ at' \notin {"judge", "judged"})
  <2>1. CASE TimePasses
    <3>1. ~OnTime'
        BY <2>1, Zenon DEF TimePasses, OnTime
    <3> QED BY <1>1, <2>1, <3>1 DEF TimePasses
  <2>2. CASE Cancel
      BY <2>2, Zenon DEF Cancel, OnTime
  <2>3. CASE UNCHANGED vars
      BY <2>3, Zenon DEF vars, pipelineVars, clock, OnTime
  <2> QED BY <2>1, <2>2, <2>3 DEF Environment
<1>3. LedgerInv'
    BY <1>1, <1>2, AsideKeeps
<1>4. WalkInv'
    BY <1>1, WalkStays
<1>5. ResultInv'
    BY <1>1, ThoroughStays DEF ResultInv, Scanned, Scanning
<1>6. PhaseInv'
    BY <1>1 DEF PhaseInv, NotWalked, walkVars
<1>7. AllowIsEarned'
    BY <1>1 DEF AllowIsEarned, Done
<1>8. ClearIsEarned'
  <2>1. UNCHANGED <<refs, scans>> /\ Fetched' = Fetched
      BY <1>1 DEF walkVars, Fetched
  <2> QED BY <1>1, <2>1 DEF ClearIsEarned, Done, Blocked
<1> QED BY <1>3, <1>4, <1>5, <1>6, <1>7, <1>8

\* Init: nothing was looked at and nothing is claimed.
LEMMA CommandInitInv == Init => CommandInv
<1> SUFFICES ASSUME Init PROVE CommandInv
    OBVIOUS
<1>1. /\ request \in Request /\ at = "start" /\ pos = 1 /\ view = 1 /\ built = 0
      /\ items = {} /\ found = [k \in Kind |-> 0] /\ covered = {} /\ degraded = {} /\ exceeded = {}
      /\ inspected = {} /\ result = NoResult /\ NotWalked
    BY DEF Init, PipelineInit
<1>2. PipeType
    BY <1>1 DEF PipeType
<1>3. PlaceInv
    BY <1>1, <1>2, RequestFacts DEF PlaceInv
<1>4. ItemsInv /\ LookedInv /\ LateShows
    BY <1>1 DEF ItemsInv, LookedInv, LateShows, Looking
<1>5. ResultInv
    BY <1>1 DEF ResultInv, IsReport, Agree, NoResult, Scanning, Scanned
<1>6. WalkInv /\ PhaseInv
    BY <1>1, NotWalkedInv DEF PhaseInv
<1>7. AllowIsEarned /\ ClearIsEarned
    BY <1>1 DEF AllowIsEarned, ClearIsEarned, Done
<1> QED BY <1>2, <1>3, <1>4, <1>5, <1>6, <1>7 DEF CommandInv, LedgerInv

\* Every step of the command.
LEMMA CommandStep == CommandInv /\ [Next]_vars => CommandInv'
<1> SUFFICES ASSUME CommandInv, [Next]_vars PROVE CommandInv'
    OBVIOUS
<1>1. CASE PipelineStep /\ UNCHANGED walkVars
    BY <1>1, ScanStepKeeps
<1>2. CASE Decide \/ Report \/ Walk \/ WalkFails \/ CloseWalk
    BY <1>2, DecideKeeps, ReportKeeps, WalkBegins, CloseWalkKeeps
<1>3. CASE at = "walk" /\ WalkStep /\ UNCHANGED pipelineVars
    BY <1>3, WalkingKeeps
<1>4. CASE Environment \/ UNCHANGED vars
    BY <1>4, EnvironmentKeeps
<1> QED BY <1>1, <1>2, <1>3, <1>4 DEF Next, ProgramStep

\* The invariant of the command: how far the ledger says that the scan has come, what
\* the walk has put into its inventory, and what the result may say of both.
THEOREM CommandInvariant == Spec => []CommandInv
<1>1. Init => CommandInv
    BY CommandInitInv
<1>2. CommandInv /\ [Next]_vars => CommandInv'
    BY CommandStep
<1> QED BY <1>1, <1>2, PTL DEF Spec

\* skil scan reports PASS and CLEAR only if Registry.Scan looked at everything and
\* transitive.Run followed every reference.
THEOREM ClearMeansLooked == Spec => []ClearIsEarned
<1>1. CommandInv => ClearIsEarned
    BY DEF CommandInv
<1> QED BY <1>1, CommandInvariant, PTL

\* policy.Check allows an artifact only if Registry.Scan looked at everything, with
\* analyzers that cover what the policy requires.
THEOREM AllowMeansLooked == Spec => []AllowIsEarned
<1>1. CommandInv => AllowIsEarned
    BY DEF CommandInv
<1> QED BY <1>1, CommandInvariant, PTL

\* transitive.Run loses no reference of a page it has read.
THEOREM NoReferenceIsLost == Spec => []InventoryIsComplete
<1>1. CommandInv => InventoryIsComplete
    BY DEF CommandInv, WalkInv
<1> QED BY <1>1, CommandInvariant, PTL

-----------------------------------------------------------------------------
(* What is left of a command gets less with every step. *)

Loop == {"budget", "invoke", "views"}

\* How far the loops over analyzers and views may get.
Reach ==
    /\ at \in Loop => pos \in 1 .. Len(Analyzers) + 1
    /\ at = "views" => view \in 1 .. built + 1

\* Where a step of the scan goes, and which of the two loops it is a round of.
LEMMA PipelineMoves ==
    ASSUME PipelineStep
    PROVE  \/ at = "start" /\ at' \in {"derive", "judge"}
           \/ at = "derive" /\ at' = "budget" /\ pos' = pos
           \/ at = "budget" /\ at' = "finish"
           \/ at = "budget" /\ pos \in Position /\ at' = "budget" /\ pos' = pos + 1
           \/ at = "budget" /\ pos \in Position /\ at' = "invoke" /\ pos' = pos
           \/ at = "invoke" /\ at' = "error"
           \/ at = "invoke" /\ at' = "budget" /\ pos' = pos + 1
           \/ at = "invoke" /\ at' = "views" /\ pos' = pos /\ UNCHANGED <<view, built>>
           \/ at = "views" /\ view <= built /\ at' = "views" /\ view' = view + 1 /\ UNCHANGED <<pos, built>>
           \/ at = "views" /\ at' = "budget" /\ pos' = pos + 1
           \/ at = "finish" /\ at' \in {"judge", "error"}
           \/ at = "judge" /\ at' \in {"judged", "error"}
<1>1. CASE Start \/ Derive
    BY <1>1, Zenon DEF Start, Derive
<1>2. CASE OverBudget \/ PassOver \/ Begin
    BY <1>2, Zenon DEF OverBudget, PassOver, Begin, NextAnalyzer
<1>3. CASE Invoke
  <2>1. /\ at = "invoke" /\ UNCHANGED <<view, built>>
        /\ at' = IF pos \in Shallow THEN "budget" ELSE "views"
        /\ pos' = IF pos \in Shallow THEN pos + 1 ELSE pos
      BY <1>3, Zenon DEF Invoke
  <2> QED BY <2>1
<1>4. CASE TimesOut \/ Fails
    BY <1>4, Zenon DEF TimesOut, Fails, NextAnalyzer
<1>5. CASE PassView \/ LookAtView
  <2>1. /\ at = "views" /\ view <= built /\ view' = view + 1
        /\ UNCHANGED <<at, pos, built>>
    <3>1. CASE PassView BY <3>1, Zenon DEF PassView, NextView
    <3>2. CASE LookAtView BY <3>2, Zenon DEF LookAtView, NextView
    <3> QED BY <1>5, <3>1, <3>2
  <2> QED BY <2>1
<1>6. CASE DropViews \/ ViewsDone \/ AnalyzersDone
    BY <1>6, Zenon DEF DropViews, ViewsDone, AnalyzersDone, NextAnalyzer
<1>7. CASE Finish \/ FinishFails
    BY <1>7, Zenon DEF Finish, FinishFails
<1>8. CASE Store \/ Judge \/ BaselineFails
    BY <1>8, Zenon DEF Store, Judge, BaselineFails
<1> QED BY <1>1, <1>2, <1>3, <1>4, <1>5, <1>6, <1>7, <1>8 DEF PipelineStep

\* A step of the scan: another phase, another analyzer, another view.
LEMMA PipelineCounts ==
    ASSUME LedgerInv, Reach, PipelineStep
    PROVE  Reach' /\ Less(Remaining', Remaining)
<1>1. /\ pos \in Nat /\ view \in Nat /\ built \in Nat /\ Len(Analyzers) \in Nat
      /\ at \in {"start", "derive", "budget", "invoke"} => view = 1
      /\ at \in {"start", "derive"} => pos = 1
      /\ at \in {"invoke", "views"} => pos \in Position
    BY PipelineAssumption, RequestFacts DEF LedgerInv, PlaceInv
<1>2. Position = 1 .. Len(Analyzers)
    BY PipelineAssumption
<1> HIDE DEF Position
<1>3. Reach'
    BY <1>1, <1>2, PipelineMoves DEF Reach, Loop
<1>0. \/ at = "start" /\ at' \in {"derive", "judge"}
      \/ at = "derive" /\ at' = "budget" /\ pos' = pos
      \/ at = "budget" /\ at' = "finish"
      \/ at = "budget" /\ pos \in Position /\ at' = "budget" /\ pos' = pos + 1
      \/ at = "budget" /\ pos \in Position /\ at' = "invoke" /\ pos' = pos
      \/ at = "invoke" /\ at' = "error"
      \/ at \in {"invoke", "views"} /\ at' = "budget" /\ pos' = pos + 1
      \/ at = "invoke" /\ at' = "views" /\ pos' = pos /\ UNCHANGED <<view, built>>
      \/ at = "views" /\ view <= built /\ at' = "views" /\ view' = view + 1 /\ UNCHANGED <<pos, built>>
      \/ at = "finish" /\ at' \in {"judge", "error"}
      \/ at = "judge" /\ at' \in {"judged", "error"}
    BY PipelineMoves
<1>4. Less(Remaining', Remaining)
  <2> USE DEF Less, Remaining, PhasesLeft
  <2>1. CASE at = "start" /\ at' \in {"derive", "judge"}
      BY <2>1
  <2>2. CASE at = "derive" /\ at' = "budget" /\ pos' = pos
      BY <2>2
  <2>3. CASE at = "budget" /\ at' = "finish"
      BY <2>3
  <2>4. CASE at = "budget" /\ pos \in Position /\ at' = "budget" /\ pos' = pos + 1
      BY <2>4, <1>1, <1>2
  <2>5. CASE at = "budget" /\ pos \in Position /\ at' = "invoke" /\ pos' = pos
      BY <2>5, <1>1, <1>2
  <2>6. CASE at = "invoke" /\ at' = "error"
      BY <2>6
  <2>7. CASE at \in {"invoke", "views"} /\ at' = "budget" /\ pos' = pos + 1
      BY <2>7, <1>1, <1>2
  <2>8. CASE at = "invoke" /\ at' = "views" /\ pos' = pos /\ UNCHANGED <<view, built>>
      BY <2>8, <1>1, <1>2
  <2>9. CASE at = "views" /\ view <= built /\ at' = "views" /\ view' = view + 1 /\ UNCHANGED <<pos, built>>
      BY <2>9, <1>1, <1>2
  <2>10. CASE at = "finish" /\ at' \in {"judge", "error"}
      BY <2>10
  <2>11. CASE at = "judge" /\ at' \in {"judged", "error"}
      BY <2>11
  <2> HIDE DEF Less, Remaining, PhasesLeft
  <2> QED BY <1>0, <2>1, <2>2, <2>3, <2>4, <2>5, <2>6, <2>7, <2>8, <2>9, <2>10, <2>11
<1> QED BY <1>3, <1>4

\* The page that is walked has finitely many references.
LEMMA TodoIsFinite ==
    ASSUME WalkTypeOK, Walking
    PROVE  /\ IsFiniteSet(Top.todo) /\ Cardinality(Top.todo) \in Nat
           /\ Len(stack) \in Nat \ {0}
<1>1. Top \in Frame /\ Len(stack) \in Nat \ {0}
    BY DEF WalkTypeOK, Walking, Top
<1>2. IsFiniteSet(Address)
    BY FS_Interval, WalkAssumption DEF Address
<1>3. Top.todo \subseteq Address
    BY <1>1 DEF Frame
<1> HIDE DEF Top
<1> QED BY <1>1, <1>2, <1>3, FS_Subset, FS_CardinalityType

\* A step of the walk: another fetch, another reference, or another page.
LEMMA WalkCounts ==
    ASSUME WalkInv, at = "walk", at' = "walk", WalkStep
    PROVE  Less(Remaining', Remaining)
<1> USE DEF WalkInv
<1> DEFINE todo == IF Walking THEN Cardinality(Top.todo) ELSE 0
<1>1. Remaining = <<2, targets, Len(stack), todo>> /\ Remaining' = <<2, targets', Len(stack'), todo'>>
    BY DEF Remaining, PhasesLeft
<1>2. targets \in Nat /\ stack \in Seq(Frame)
    BY WalkAssumption DEF WalkTypeOK
<1>3. CASE Known \/ Skip
  <2>1. Visits /\ stack' = Rest /\ targets' = targets
      BY <1>3 DEF Known, Skip, NewReference, Skipped
  <2>2. /\ Len(stack) \in 1 .. Depth /\ Len(stack') = Len(stack)
        /\ stack'[Len(stack)].todo = stack[Len(stack)].todo \ {Current}
        /\ Current \in Top.todo
    <3>1. /\ Len(stack) \in 1 .. Depth /\ Len(Rest) = Len(stack) /\ Current \in Top.todo
          /\ \A i \in DOMAIN stack : Rest[i].todo = IF i = Len(stack) THEN stack[i].todo \ {Current} ELSE stack[i].todo
        BY <2>1, CurrentFacts
    <3>2. Len(stack) \in DOMAIN stack
        BY <1>2, <3>1
    <3> HIDE DEF Current, Top, Rest
    <3> QED BY <2>1, <3>1, <3>2
  <2>3. Walking /\ Walking' /\ Top'.todo = Top.todo \ {Current}
      BY <2>1, <2>2 DEF Walking, Visits, Top
  <2> HIDE DEF Current, Top
  <2>4. Cardinality(Top'.todo) = Cardinality(Top.todo) - 1 /\ Cardinality(Top.todo) \in Nat
      BY <2>2, <2>3, TodoIsFinite, FS_RemoveElement
  <2> QED BY <1>1, <1>2, <2>1, <2>2, <2>3, <2>4 DEF Less
<1>4. CASE ScanFails \/ \E child \in Child, content \in Content : Follow(child, content)
  <2>1. targets # 0 /\ targets' = targets - 1
      BY <1>4 DEF ScanFails, Follow, Fetches, Exhausted, Charged
  <2> HIDE DEF todo
  <2> QED BY <1>1, <1>2, <2>1 DEF Less
<1>5. CASE Back
  <2>1. stack # <<>> /\ stack' = SubSeq(stack, 1, Len(stack) - 1) /\ targets' = targets
      BY <1>5 DEF Back, Walking
  <2>2. Len(stack') < Len(stack)
      BY <1>2, <2>1
  <2> HIDE DEF todo
  <2> QED BY <1>1, <1>2, <2>1, <2>2 DEF Less
<1> QED BY <1>3, <1>4, <1>5 DEF WalkStep

\* A step of the program, whichever.
LEMMA ProgramCounts ==
    ASSUME CommandInv, Reach, ProgramStep
    PROVE  Reach' /\ Less(Remaining', Remaining)
<1>1. CASE PipelineStep /\ UNCHANGED walkVars
    BY <1>1, PipelineCounts DEF CommandInv
<1>2. CASE Decide \/ Report \/ Walk \/ WalkFails \/ CloseWalk
  <2>1. \/ at = "judged" /\ at' \in {"walk", "done", "error"}
        \/ at = "walk" /\ at' = "done"
      BY <1>2 DEF Decide, Report, Walk, WalkFails, CloseWalk
  <2>2. Less(Remaining', Remaining)
      BY <2>1 DEF Less, Remaining, PhasesLeft
  <2> QED BY <2>1, <2>2 DEF Reach, Loop
<1>3. CASE at = "walk" /\ WalkStep /\ UNCHANGED pipelineVars
  <2>1. at' = at
      BY <1>3 DEF pipelineVars
  <2> QED BY <1>3, <2>1, WalkCounts DEF CommandInv, Reach, Loop
<1> QED BY <1>1, <1>2, <1>3 DEF ProgramStep

\* The deadline and the caller change neither the place nor the walk.
LEMMA OthersCountNothing ==
    ASSUME Reach, Environment \/ UNCHANGED vars
    PROVE  Reach' /\ UNCHANGED Remaining
<1>1. UNCHANGED <<at, pos, view, built, walkVars>>
    BY DEF Environment, TimePasses, Cancel, vars, pipelineVars
<1>2. UNCHANGED <<at, pos, view, built, stack, targets>>
    BY <1>1 DEF walkVars
<1> QED BY <1>2 DEF Reach, Remaining, Walking, Top

LEMMA RankFollows == CommandInv /\ Reach => RemainingIsRank
<1> SUFFICES ASSUME CommandInv, Reach PROVE RemainingIsRank
    OBVIOUS
<1>1. /\ pos \in Nat /\ view \in Nat /\ built \in Nat /\ Len(Analyzers) \in Nat /\ targets \in Nat
      /\ at \in DOMAIN PhasesLeft /\ stack \in Seq(Frame)
    BY PipelineAssumption, WalkAssumption
    DEF CommandInv, LedgerInv, PlaceInv, PipeType, WalkInv, WalkTypeOK, PhasesLeft
<1>2. PhasesLeft[at] \in Nat
    BY <1>1 DEF PhasesLeft
<1>3. Walking => Cardinality(Top.todo) \in Nat
    BY TodoIsFinite DEF CommandInv, WalkInv
<1>4. at \in Loop => Len(Analyzers) + 1 - pos \in Nat
    BY <1>1 DEF Reach
<1>5. at = "views" => built + 1 - view \in Nat
    BY <1>1 DEF Reach
<1> HIDE DEF PhasesLeft
<1> QED BY <1>1, <1>2, <1>3, <1>4, <1>5 DEF RemainingIsRank, Remaining, Loop

\* Every step of Registry.Scan, of transitive.Run and of the command around them brings it
\* nearer to its end, in an order without infinite descent: a command that does not hang
\* in one of its calls ends, whatever the references, the deadline and the caller do.
THEOREM CommandsRunDown == Spec => []RemainingIsRank /\ EveryStepCounts
<1>1. Init => Reach
    BY DEF Init, PipelineInit, Reach, Loop
<1>2. ASSUME CommandInv, Reach, [Next]_vars
      PROVE  Reach' /\ [IF ProgramStep THEN Less(Remaining', Remaining) ELSE UNCHANGED Remaining]_vars
  <2>1. CASE ProgramStep
      BY <1>2, <2>1, ProgramCounts
  <2>2. CASE ~ProgramStep
      BY <1>2, <2>2, OthersCountNothing DEF Next
  <2> QED BY <2>1, <2>2
<1> QED BY <1>1, <1>2, CommandInvariant, RankFollows, PTL DEF Spec, EveryStepCounts

-----------------------------------------------------------------------------
(* Judgements only sink. *)

\* A set of severities has a greatest.
LEMMA GreatestOf ==
    ASSUME NEW S, S \subseteq 0 .. 3, S # {}
    PROVE  \E r \in 0 .. 3 : r \in S /\ \A x \in S : x <= r
<1>1. CASE 3 \in S BY <1>1
<1>2. CASE 3 \notin S /\ 2 \in S BY <1>2
<1>3. CASE 3 \notin S /\ 2 \notin S /\ 1 \in S BY <1>3
<1>4. CASE 3 \notin S /\ 2 \notin S /\ 1 \notin S
  <2>1. \A x \in S : x = 0
      BY <1>4
  <2>2. 0 \in S
      BY <2>1
  <2> QED BY <2>1, <2>2
<1> QED BY <1>1, <1>2, <1>3, <1>4

\* What Risk takes for the greatest severity is that of some finding, or none.
LEMMA MaximumFacts ==
    ASSUME NEW active \in [Kind -> Nat]
    PROVE  /\ Maximum(active) \in 0 .. 3
           /\ Maximum(active) = 0 \/ \E k \in Kind : active[k] > 0 /\ Rank[k] = Maximum(active)
           /\ \A k \in Kind : active[k] > 0 => Rank[k] <= Maximum(active)
<1> DEFINE S == {0} \cup {Rank[k] : k \in {j \in Kind : active[j] > 0}}
<1>1. \A k \in Kind : Rank[k] \in 1 .. 3
    BY DEF Kind, Rank
<1> HIDE DEF Kind
<1>2. S \subseteq 0 .. 3 /\ S # {}
    BY <1>1
<1>3. PICK r \in 0 .. 3 : r \in S /\ \A x \in S : x <= r
    BY <1>2, GreatestOf
<1>4. r = 0 \/ \E k \in Kind : active[k] > 0 /\ Rank[k] = r
    BY <1>3
<1>5. \A k \in Kind : active[k] > 0 => Rank[k] <= r
    BY <1>3
<1> QED BY <1>4, <1>5 DEF Maximum

\* The same of the closure.
LEMMA ClosureMaximumFacts ==
    ASSUME WalkTypeOK, result.max \in 0 .. 3
    PROVE  ClosureMaximum(result) \in 0 .. 3 /\ result.max <= ClosureMaximum(result)
<1> DEFINE all == {result.max} \cup {scans[u].max : u \in Fetched}
<1>1. all \subseteq 0 .. 3 /\ all # {} /\ result.max \in all
    BY WalkAssumption DEF WalkTypeOK
<1>2. \E r \in 0 .. 3 : r \in all /\ \A x \in all : x <= r
    BY <1>1, GreatestOf
<1>3. ClosureMaximum(result) \in 0 .. 3 /\ \A x \in all : x <= ClosureMaximum(result)
    BY <1>2 DEF ClosureMaximum
<1> QED BY <1>1, <1>3

\* What a judgement may be, its status and its verdict given or not.
Typed(r) ==
    /\ IsReport(r) /\ r.status \in {"NONE", "PASS", "WARN", "FAIL"}
    /\ r.verdict \in {"NONE", "CLEAR", "REVIEW", "BLOCK"} /\ r.max \in 0 .. 3

\* What the two ways of lowering a judgement make of its fields.
LEMMA FailedFields ==
    ASSUME NEW r, Typed(r), NEW max \in 0 .. 3
    PROVE  LET x == Failed(r, max)
           IN  /\ IsReport(x) /\ x.status = "FAIL" /\ x.verdict = "BLOCK"
               /\ x.max = IF max > r.max THEN max ELSE r.max
    BY DEF Typed, IsReport, Failed

LEMMA QualifiedFields ==
    ASSUME NEW r, Typed(r)
    PROVE  LET x == Qualified(r)
           IN  /\ IsReport(x)
               /\ x.status = IF r.status = "PASS" THEN "WARN" ELSE r.status
               /\ x.verdict = IF r.verdict = "CLEAR" THEN "REVIEW" ELSE r.verdict
               /\ x.max = r.max
    BY DEF Typed, IsReport, Qualified

LEMMA DemandedFields ==
    ASSUME NEW r, Typed(r)
    PROVE  LET x == Demanded(r)
               missed == (request.requireComplete /\ Incomplete) \/ (request.failOnIncomplete /\ exceeded # {})
           IN  /\ IsReport(x) /\ x.max = r.max
               /\ x.status = IF missed THEN "FAIL" ELSE r.status
               /\ x.verdict = IF missed THEN "BLOCK" ELSE r.verdict
    BY DEF Typed, IsReport, Demanded

\* The outcome of a closure lowers a judgement, and the worse of two stays the worse.
LEMMA OutcomeSinks ==
    ASSUME NEW r, Typed(r), NEW max \in 0 .. 3, NEW state
    PROVE  Typed(ApplyOutcome(r, state, max)) /\ NeverBetter(r, ApplyOutcome(r, state, max))
<1>1. CASE state = "UNSAFE"
  <2>1. PICK x : x = Failed(r, max)
      OBVIOUS
  <2>2. Typed(x) /\ NeverBetter(r, x)
      BY <2>1, FailedFields DEF Typed, NeverBetter, Gravity
  <2> QED BY <1>1, <2>1, <2>2 DEF ApplyOutcome
<1>2. CASE state = "UNKNOWN"
  <2>1. PICK x : x = Qualified(r)
      OBVIOUS
  <2>2. Typed(x) /\ NeverBetter(r, x)
      BY <2>1, QualifiedFields DEF Typed, NeverBetter, Gravity
  <2> QED BY <1>2, <2>1, <2>2 DEF ApplyOutcome
<1>3. CASE state # "UNSAFE" /\ state # "UNKNOWN"
    BY <1>3 DEF Typed, ApplyOutcome, NeverBetter, Gravity
<1> QED BY <1>1, <1>2, <1>3

LEMMA OutcomeWeighs ==
    ASSUME NEW r, Typed(r), NEW s, Typed(s), NeverBetter(r, s), s.status # "NONE", s.verdict # "NONE",
           NEW q \in {"SAFE", "UNKNOWN", "UNSAFE"}, NEW t \in {"SAFE", "UNKNOWN", "UNSAFE"},
           q = "UNSAFE" => t = "UNSAFE", q = "UNKNOWN" => t # "SAFE"
    PROVE  NeverBetter(ApplyOutcome(r, q, r.max), ApplyOutcome(s, t, s.max))
<1>1. CASE t = "UNSAFE"
  <2>1. LET x == ApplyOutcome(s, t, s.max) IN x.status = "FAIL" /\ x.verdict = "BLOCK" /\ x.max = s.max
    <3>1. s.max \in 0 .. 3
        BY DEF Typed
    <3> QED BY <1>1, <3>1, FailedFields DEF ApplyOutcome
  <2>2. LET x == ApplyOutcome(r, q, r.max) IN Typed(x) /\ x.max = r.max
    <3>1. CASE q = "UNSAFE"
      <4>1. r.max \in 0 .. 3
          BY DEF Typed
      <4> QED BY <3>1, <4>1, OutcomeSinks, FailedFields DEF ApplyOutcome
    <3>2. CASE q = "UNKNOWN"
      <4>1. r.max \in 0 .. 3
          BY DEF Typed
      <4> QED BY <3>2, <4>1, OutcomeSinks, QualifiedFields DEF ApplyOutcome
    <3>3. CASE q = "SAFE"
        BY <3>3 DEF ApplyOutcome
    <3> QED BY <3>1, <3>2, <3>3
  <2> HIDE DEF ApplyOutcome
  <2> QED BY <2>1, <2>2 DEF NeverBetter, Gravity, Typed
<1>2. CASE t = "UNKNOWN" /\ q = "UNKNOWN"
  <2>1. PICK x, y : x = Qualified(r) /\ y = Qualified(s)
      OBVIOUS
  <2>2. NeverBetter(x, y)
      BY <2>1, QualifiedFields DEF Typed, NeverBetter, Gravity
  <2> QED BY <1>2, <2>1, <2>2 DEF ApplyOutcome
<1>3. CASE q = "SAFE" /\ t # "UNSAFE"
  <2>1. NeverBetter(s, ApplyOutcome(s, t, s.max)) /\ ApplyOutcome(r, q, r.max) = r
        /\ Typed(ApplyOutcome(s, t, s.max))
      BY <1>3, OutcomeSinks DEF ApplyOutcome, Typed
  <2> HIDE DEF ApplyOutcome
  <2> QED BY <2>1 DEF NeverBetter, Gravity, Typed
<1> QED BY <1>1, <1>2, <1>3

\* So do the flags.
LEMMA DemandWeighs ==
    ASSUME NEW r, Typed(r), NEW s, Typed(s), NeverBetter(r, s)
    PROVE  Typed(Demanded(r)) /\ NeverBetter(Demanded(r), Demanded(s))
<1>1. PICK x, y : x = Demanded(r) /\ y = Demanded(s)
    OBVIOUS
<1>2. Typed(x) /\ NeverBetter(x, y)
    BY <1>1, DemandedFields DEF Typed, NeverBetter, Gravity
<1> QED BY <1>1, <1>2

\* More findings of any kind never lead to a better judgement, whatever was covered,
\* degraded, exceeded or left out, and whatever the command demands (Risk, Verdict,
\* applyClosureOutcome): the other way round, what a baseline suppresses can only help.
THEOREM FindingsOnlyWeigh ==
    ASSUME NEW a \in [Kind -> Nat], NEW b \in [Kind -> Nat], \A k \in Kind : a[k] <= b[k]
    PROVE  NeverBetter(Judgement(a), Judgement(b))
<1>1. /\ Maximum(a) \in 0 .. 3 /\ Maximum(b) \in 0 .. 3
      /\ Maximum(a) <= Maximum(b)
  <2>1. \A k \in Kind : a[k] > 0 => b[k] > 0
      OBVIOUS
  <2> QED BY <2>1, MaximumFacts
<1>2. Score(a) \in Nat /\ Score(b) \in Nat /\ Score(a) <= Score(b)
    BY DEF Score, Weight, Kind
<1> DEFINE ja == Judged(a)
           jb == Judged(b)
<1> HIDE DEF Kind
<1>3. /\ FirstStatus(a) \in {"PASS", "WARN", "FAIL"} /\ FirstStatus(b) \in {"PASS", "WARN", "FAIL"}
      /\ Gravity[FirstStatus(a)] <= Gravity[FirstStatus(b)]
    BY <1>1 DEF FirstStatus, StatusOf, Gravity
<1>4. /\ Verdict(a) \in {"CLEAR", "REVIEW", "BLOCK"} /\ Verdict(b) \in {"CLEAR", "REVIEW", "BLOCK"}
      /\ Gravity[Verdict(a)] <= Gravity[Verdict(b)]
  <2> HIDE DEF Score, Maximum
  <2> QED BY <1>1, <1>2 DEF Verdict, Gravity
<1>5. /\ Typed(ja) /\ ja.status = FirstStatus(a) /\ ja.verdict = Verdict(a) /\ ja.max = Maximum(a)
      /\ Typed(jb) /\ jb.status = FirstStatus(b) /\ jb.verdict = Verdict(b) /\ jb.max = Maximum(b)
  <2> HIDE DEF FirstStatus, Verdict, Maximum
  <2> QED BY <1>1, <1>3, <1>4 DEF Judged, Typed, IsReport
<1> HIDE DEF ja, jb
<1>6. NeverBetter(ja, jb)
    BY <1>1, <1>3, <1>4, <1>5 DEF NeverBetter
<1>7. Blocks(ja) => Blocks(jb)
    BY <1>1, <1>3, <1>4, <1>5 DEF Blocks, Gravity
<1> DEFINE oa == ApplyOutcome(ja, LocalState(ja), ja.max)
           ob == ApplyOutcome(jb, LocalState(jb), jb.max)
<1>8. NeverBetter(oa, ob)
  <2>1. /\ LocalState(ja) \in {"SAFE", "UNKNOWN", "UNSAFE"} /\ LocalState(jb) \in {"SAFE", "UNKNOWN", "UNSAFE"}
        /\ LocalState(ja) = "UNSAFE" => LocalState(jb) = "UNSAFE"
        /\ LocalState(ja) = "UNKNOWN" => LocalState(jb) # "SAFE"
      BY <1>7 DEF LocalState
  <2>2. jb.status # "NONE" /\ jb.verdict # "NONE"
      BY <1>3, <1>4, <1>5
  <2> QED BY <1>5, <1>6, <2>1, <2>2, OutcomeWeighs
<1>9. Typed(oa) /\ Typed(ob)
  <2>1. ja.max \in 0 .. 3 /\ jb.max \in 0 .. 3
      BY <1>1, <1>5
  <2> QED BY <1>5, <2>1, OutcomeSinks
<1>10. Judgement(a) = Demanded(oa) /\ Judgement(b) = Demanded(ob)
  <2>1. oa = ApplyOutcome(Judged(a), LocalState(Judged(a)), Maximum(a))
      BY <1>5 DEF ja
  <2>2. ob = ApplyOutcome(Judged(b), LocalState(Judged(b)), Maximum(b))
      BY <1>5 DEF jb
  <2> HIDE DEF oa, ob
  <2> QED BY <2>1, <2>2 DEF Judgement
<1> HIDE DEF oa, ob
<1> QED BY <1>8, <1>9, <1>10, DemandWeighs

\* The judgement of a scan is one.
LEMMA JudgementTyped ==
    ASSUME NEW a \in [Kind -> Nat]
    PROVE  Typed(Judgement(a))
<1>1. Maximum(a) \in 0 .. 3
    BY MaximumFacts
<1>2. Typed(Judged(a))
  <2>1. FirstStatus(a) \in {"PASS", "WARN", "FAIL"}
      BY DEF FirstStatus, StatusOf
  <2>2. Verdict(a) \in {"CLEAR", "REVIEW", "BLOCK"}
      BY DEF Verdict
  <2> HIDE DEF FirstStatus, Verdict, Maximum
  <2> QED BY <1>1, <2>1, <2>2 DEF Judged, Typed, IsReport
<1> DEFINE o == ApplyOutcome(Judged(a), LocalState(Judged(a)), Maximum(a))
<1>3. Typed(o)
    BY <1>1, <1>2, OutcomeSinks
<1>4. Judgement(a) = Demanded(o)
    BY DEF Judgement
<1> HIDE DEF o
<1>5. NeverBetter(o, o)
    BY <1>3 DEF Typed, NeverBetter, Gravity
<1> QED BY <1>3, <1>4, <1>5, DemandWeighs

\* Only the judgement and what follows it touch the result.
LEMMA ResultTyped ==
    ASSUME CommandInv, Typed(result), [Next]_vars
    PROVE  Typed(result')
<1>s. ASSUME result' = result PROVE Typed(result')
    BY <1>s
<1>1. CASE Judge
  <2>1. PICK mismatches, suppressed :
            result' = Judgement([k \in Kind |-> IF k \in suppressed THEN 0
                                                ELSE found[k] + IF k \in mismatches THEN 1 ELSE 0])
      BY <1>1, Zenon DEF Judge
  <2> DEFINE active == [k \in Kind |-> IF k \in suppressed THEN 0
                                       ELSE found[k] + IF k \in mismatches THEN 1 ELSE 0]
  <2>2. active \in [Kind -> Nat]
      BY DEF CommandInv, LedgerInv, PipeType
  <2>3. result' = Judgement(active)
      BY <2>1
  <2> HIDE DEF active
  <2> QED BY <2>2, <2>3, JudgementTyped
<1>2. CASE Store \/ Decide
  <2>1. PICK d : result' = [result EXCEPT !.decision = d]
    <3>1. CASE Store BY <3>1, Zenon DEF Store
    <3>2. CASE Decide BY <3>2, Zenon DEF Decide
    <3> QED BY <1>2, <3>1, <3>2
  <2>2. /\ IsReport(result') /\ result'.status = result.status
        /\ result'.verdict = result.verdict /\ result'.max = result.max
      BY <2>1 DEF Typed, IsReport
  <2> QED BY <2>2 DEF Typed
<1>3. CASE CloseWalk
  <2>1. result' = ApplyOutcome(result, ClosureState(result), ClosureMaximum(result))
      BY <1>3 DEF CloseWalk
  <2>2. ClosureMaximum(result) \in 0 .. 3
      BY ClosureMaximumFacts DEF CommandInv, WalkInv, Typed
  <2> HIDE DEF ClosureMaximum
  <2> QED BY <2>1, <2>2, OutcomeSinks
<1>4. CASE PipelineStep /\ ~Judge /\ ~Store
  <2>1. result' = result
      BY <1>4 DEF PipelineStep, Start, Derive, OverBudget, PassOver, Begin, Invoke, TimesOut, Fails,
            PassView, LookAtView, DropViews, ViewsDone, AnalyzersDone, Finish, FinishFails, BaselineFails,
            NextView
  <2> QED BY <2>1, <1>s
<1>5. CASE Report \/ Walk \/ WalkFails \/ UNCHANGED pipelineVars \/ Environment \/ UNCHANGED vars
  <2>1. result' = result
      BY <1>5 DEF Report, Walk, WalkFails, pipelineVars, Environment, TimePasses, Cancel, vars
  <2> QED BY <2>1, <1>s
<1> QED BY <1>1, <1>2, <1>3, <1>4, <1>5 DEF Next, ProgramStep

-----------------------------------------------------------------------------
(* Where unsafe dominates. *)

\* Up to the last hop an address is one node: it was not visited before.
NodesOnce ==
    /\ \A n \in Inventory : n.depth <= Depth => n.url \in seen
    /\ \A m, n \in Inventory : m.url = n.url /\ m.depth <= Depth /\ n.depth <= Depth => m = n

LEMMA NodesStayOnce ==
    ASSUME WalkTypeOK, NodesOnce, WalkStep
    PROVE  NodesOnce'
<1>1. CASE Known
  <2>1. /\ nodes' = nodes \cup {Visited("known")} /\ seen' = seen
        /\ Visited("known").how = "known"
      BY <1>1, VisitedFacts DEF Known
  <2>2. Inventory' = Inventory
      BY <2>1 DEF Inventory
  <2> QED BY <2>1, <2>2 DEF NodesOnce
<1>2. CASE Back
    BY <1>2 DEF Back, NodesOnce, Inventory
<1>3. CASE Skip \/ ScanFails \/ \E child \in Child, content \in Content : Follow(child, content)
  <2>1. PICK how \in {"fetched", "skipped"} :
            \A n \in nodes' : n \in nodes \/ n = Visited(how) \/ n.depth = Depth + 1
    <3>1. CASE Skip \/ ScanFails
        BY <3>1 DEF Skip, ScanFails, Skipped
    <3>2. ASSUME NEW child \in Child, NEW content \in Content, Follow(child, content)
          PROVE  \A n \in nodes' : n \in nodes \/ n = Visited("fetched") \/ n.depth = Depth + 1
      <4>1. Len(stack) \in 1 .. Depth
          BY <3>2, CurrentFacts DEF Follow, Fetches, NewReference
      <4>2. CASE Len(stack) < Depth
          BY <3>2, <4>2 DEF Follow
      <4>3. CASE ~(Len(stack) < Depth)
        <5>1. nodes' = nodes \cup {Visited("fetched")} \cup Unresolved(content)
            BY <3>2, <4>3 DEF Follow
        <5>2. \A n \in Unresolved(content) : n.depth = Depth + 1
            BY <4>1, <4>3, WalkAssumption DEF Unresolved
        <5> QED BY <5>1, <5>2
      <4> QED BY <4>2, <4>3
    <3> QED BY <1>3, <3>1, <3>2
  <2>2. Current \notin seen /\ seen' = seen \cup {Current} /\ Visits
      BY <1>3 DEF Skip, ScanFails, Follow, Fetches, NewReference, Skipped
  <2>3. Visited(how).url = Current /\ Visited(how).how # "known"
      BY <2>2, VisitedFacts
  <2> DEFINE n == Visited(how)
  <2>4. \A x \in Inventory' : x.depth <= Depth => x \in Inventory \/ x = n
      BY <2>1, WalkAssumption DEF Inventory
  <2> HIDE DEF n, Current
  <2>5. n.url = Current
      BY <2>3 DEF n
  <2> QED BY <2>2, <2>4, <2>5 DEF NodesOnce
<1> QED BY <1>1, <1>2, <1>3 DEF WalkStep

\* Without a node beyond the last hop there is no conflict, and a blocked page decides.
LEMMA WithinReach ==
    ASSUME NodesOnce, \A n \in nodes : n.depth <= Depth, NEW u \in Fetched, Blocked(scans[u]), NEW root
    PROVE  ClosureState(root) = "UNSAFE"
<1>1. \A w \in Address : ~Conflicting(w)
    BY DEF NodesOnce, Conflicting, Inventory
<1>2. ~ConflictAfter(u)
    BY <1>1 DEF ConflictAfter
<1>3. Unsafe(root)
    BY <1>2 DEF Unsafe
<1> QED BY <1>3 DEF ClosureState

\* A blocked page among those that were fetched fails the scan, unless a page at the last
\* hop refers on: closure.go:60 is the only way in which unsafe fails to dominate.
THEOREM UnsafeDominatesUpToTheLimit == Spec => []UnsafeDominatesWithinReach
<1> DEFINE Inv == NodesOnce /\ UnsafeDominatesWithinReach
<1>1. Init => Inv
  <2> SUFFICES ASSUME Init PROVE Inv
      OBVIOUS
  <2>1. nodes = {} /\ at = "start"
      BY DEF Init, NotWalked, PipelineInit
  <2> QED BY <2>1 DEF NodesOnce, Inventory, UnsafeDominatesWithinReach, UnsafeDominates, Done
<1>2. ASSUME CommandInv, Typed(result), Inv, [Next]_vars PROVE Inv'
  <2>1. CASE UNCHANGED walkVars /\ (at' # "done" \/ NotWalked \/ UNCHANGED <<at, result>>)
    <3>1. UNCHANGED <<nodes, seen, scans>>
        BY <2>1 DEF walkVars
    <3>2. NodesOnce'
        BY <1>2, <3>1 DEF NodesOnce, Inventory
    <3>3. NotWalked => Fetched = {}
        BY DEF NotWalked, Fetched
    <3>4. UnsafeDominatesWithinReach'
        BY <1>2, <2>1, <3>1, <3>3 DEF UnsafeDominatesWithinReach, UnsafeDominates, Done, Fetched, Blocked
    <3> QED BY <3>2, <3>4
  <2>2. CASE CloseWalk
    <3>1. /\ UNCHANGED <<nodes, seen, scans>>
          /\ result' = ApplyOutcome(result, ClosureState(result), ClosureMaximum(result))
        BY <2>2 DEF CloseWalk, walkVars
    <3>2. NodesOnce'
        BY <1>2, <3>1 DEF NodesOnce, Inventory
    <3>3. ASSUME \A n \in nodes : n.depth <= Depth, NEW u \in Fetched, Blocked(scans[u])
          PROVE  result'.status = "FAIL"
      <4>1. result' = Failed(result, ClosureMaximum(result))
          BY <1>2, <3>1, <3>3, WithinReach DEF ApplyOutcome
      <4>2. ClosureMaximum(result) \in 0 .. 3
          BY <1>2, ClosureMaximumFacts DEF CommandInv, WalkInv, Typed
      <4> HIDE DEF ClosureMaximum
      <4> QED BY <1>2, <4>1, <4>2, FailedFields
    <3> QED BY <3>1, <3>2, <3>3 DEF UnsafeDominatesWithinReach, UnsafeDominates, Fetched, Blocked
  <2>3. CASE at = "walk" /\ WalkStep /\ UNCHANGED pipelineVars
    <3>1. at' = "walk"
        BY <2>3 DEF pipelineVars
    <3> QED BY <1>2, <2>3, <3>1, NodesStayOnce DEF CommandInv, WalkInv, UnsafeDominatesWithinReach, UnsafeDominates, Done
  <2>4. CASE Walk
    <3>1. nodes' = nodes /\ seen' = seen /\ at' = "walk"
        BY <2>4 DEF Walk, StartWalk
    <3> QED BY <1>2, <3>1 DEF NodesOnce, Inventory, UnsafeDominatesWithinReach, UnsafeDominates, Done
  <2>5. CASE PipelineStep /\ UNCHANGED walkVars
    <3>1. at' # "done"
        BY <2>5, PipelineMoves
    <3> QED BY <2>1, <2>5, <3>1
  <2>6. CASE Decide \/ Report \/ WalkFails
    <3>1. at = "judged" /\ UNCHANGED walkVars
        BY <2>6 DEF Decide, Report, WalkFails
    <3>2. NotWalked
        BY <1>2, <3>1 DEF CommandInv, PhaseInv
    <3> QED BY <2>1, <3>1, <3>2
  <2>7. CASE Environment \/ UNCHANGED vars
    <3>1. UNCHANGED <<at, result, walkVars>>
        BY <2>7 DEF Environment, TimePasses, Cancel, vars, pipelineVars
    <3> QED BY <2>1, <3>1
  <2> QED BY <1>2, <2>2, <2>3, <2>4, <2>5, <2>6, <2>7 DEF Next, ProgramStep
<1>3. Init => Typed(result)
    BY DEF Init, PipelineInit, NoResult, Typed, IsReport
<1>4. ASSUME CommandInv, Typed(result), [Next]_vars PROVE Typed(result)'
    BY <1>4, ResultTyped
<1>5. Inv => UnsafeDominatesWithinReach
    BY DEF Inv
<1> HIDE DEF Inv
<1> QED BY <1>1, <1>2, <1>3, <1>4, <1>5, CommandInvariant, PTL DEF Spec

\* What the run checks follows from the invariant.
LEMMA ScanInvFollows == CommandInv /\ UnsafeDominatesWithinReach => ScanInv
<1> SUFFICES ASSUME CommandInv, UnsafeDominatesWithinReach PROVE ScanInv
    OBVIOUS
<1> USE DEF CommandInv
<1>1. ScanTypeOK
    BY DEF ScanTypeOK, LedgerInv, PipeType, ResultInv, IsReport, WalkInv
<1>2. VerdictsAgree
    BY DEF VerdictsAgree, ResultInv, Agree
<1>3. CachedIsWhole
    BY DEF CachedIsWhole, Done, ResultInv, Scanned
<1> QED BY <1>1, <1>2, <1>3 DEF ScanInv, WalkInv

\* Types; status and verdict of a command that is done agree on what fails
\* (applyClosureOutcome settles it); references are fetched once each, within the limits
\* of transitive.Run; what the public API stores was not cut short (engine.cacheable); and a
\* blocked page fails the scan, up to the last hop.
THEOREM ScanInvariant == Spec => []ScanInv
    BY CommandInvariant, UnsafeDominatesUpToTheLimit, ScanInvFollows, PTL
===============================================================================
