SPECIFICATION Spec
CONSTANTS
    c1 = c1  c2 = c2  s1 = s1  d1 = d1  d2 = d2  x1 = x1  x2 = x2  allow = allow
    Absent = Absent
    Skill <- MCSkill
    Digest <- MCDigest
    Decision <- MCDecision
    Content <- PlanContent
    Facet <- PlanFacet
    Expectation <- PlanExpectation
    SnapshotDomain = {}
    Control <- PlanControl
    Within = {}
    Scope <- PlanScope
    Interval = 1
    Lifetime = 1
    SnapshotDelay = 0
    MaxTime = 0
SYMMETRY PlanSymmetry
INVARIANTS ReuseIsBoundToContext
