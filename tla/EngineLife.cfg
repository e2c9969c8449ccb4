SPECIFICATION Spec
CONSTANTS
    c1 = c1  c2 = c2  s1 = s1  d1 = d1  d2 = d2  x1 = x1  x2 = x2  allow = allow
    Absent = Absent
    Skill <- MCSkill
    Digest <- MCDigest
    Decision <- MCDecision
    Content <- LifeContent
    Facet <- LifeFacet
    Expectation <- LifeExpectation
    SnapshotDomain <- LifeDomain
    Control = {}
    Within = {}
    Scope = {}
    Interval = 1
    Lifetime = 4
    SnapshotDelay = 1
    MaxTime = 3
SYMMETRY LifeSymmetry
INVARIANTS EngineInv StalenessIsBounded
PROPERTY ImplementsStanding
