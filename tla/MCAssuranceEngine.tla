--------------------------- MODULE MCAssuranceEngine ---------------------------
(* Two small instances of the engine.  For the life of a record: one skill with *)
(* two contents and one dependency, either of which a snapshot may leave out,   *)
(* the dependency from the entry of its subject or together with it.  For plans:*)
(* one content, a clock that stands still, a configuration facet, and two       *)
(* controls of which the dependency names one.                                  *)
EXTENDS AssuranceEngine, TLC

CONSTANTS c1, c2, s1, d1, d2, x1, x2, allow

MCSkill == {s1}
MCDigest == {d1, d2}
MCDecision == {allow}

LifeContent == {c1, c2}
LifeFacet == {"dependency"}
LifeExpectation == {[f \in LifeFacet |-> d1]}
LifeDomain == {
    [named |-> MCSkill, listed |-> MCSkill, facets |-> LifeFacet],
    [named |-> {},      listed |-> MCSkill, facets |-> LifeFacet],
    [named |-> MCSkill, listed |-> MCSkill, facets |-> {}],
    [named |-> MCSkill, listed |-> {},      facets |-> {}] }
LifeSymmetry == Permutations(LifeContent)

PlanContent == {c1}
PlanFacet == {"environment", "dependency"}
PlanExpectation == [PlanFacet -> MCDigest]
PlanControl == {x1, x2}
PlanScope == {x1}
PlanSymmetry == Permutations(MCDigest)
==============================================================================
