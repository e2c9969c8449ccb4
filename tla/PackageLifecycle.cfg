SPECIFICATION Spec
CONSTANTS
    p1 = p1  p2 = p2  a1 = a1  a1b = a1b  a2 = a2  b1 = b1
    NoPackage = NoPackage  Remnant = Remnant
    Process <- MCProcess
    Package <- MCPackage
    NameOf <- MCName
    VersionOf <- MCVersion
    Allowed <- MCRebuilt
SYMMETRY MCSymmetry
INVARIANTS LifecycleInv LockedSurvives RolledBackTogether
