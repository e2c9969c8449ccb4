SPECIFICATION Spec
CONSTANTS
    f1 = f1  f2 = f2  v1 = v1  v2 = v2  v3 = v3
    File <- MCFile
    Views <- MCViews
    SourceOf <- MCSourceOf
    Analyzers <- MCAnalyzers
    Applies <- MCApplies
    Types <- MCTypes
    Shallow <- MCShallow
    Provider <- MCProvider
    MaxFindings = 1
    MaxEvents = 8
    Request <- MCTransitive
    Limit = 3
    Depth = 1
    MaxTargets = 2
    Denied = {}
    Content <- MCPages
    Child <- MCChild
    Required <- MCRequired
INVARIANT UnsafeDominates
CHECK_DEADLOCK FALSE
