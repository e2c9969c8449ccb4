SPECIFICATION Spec
CONSTANTS
    f1 = f1  f2 = f2  v1 = v1  v2 = v2  v3 = v3
    File <- MCFile
    Views <- MCViews
    SourceOf <- MCSourceOf
    Analyzers <- MCAnalyzers
    Applies <- MCApplies
    Types <- MCTypes
    Shallow <- MCShallow
    Provider <- MCProvider
    MaxFindings = 1
    MaxEvents = 8
    Request <- MCRequest
    Limit = 4
    Depth = 2
    MaxTargets = 2
    Denied = {4}
    Content <- MCContent
    Child <- MCChild
    Required <- MCRequired
INVARIANTS ScanInv ClearIsEarned AllowIsEarned InventoryIsComplete
PROPERTY EveryStepCounts
CHECK_DEADLOCK FALSE
