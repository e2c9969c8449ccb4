SPECIFICATION RuntimeSpec
CONSTANTS
    r1 = r1  r2 = r2  r3 = r3  r4 = r4
    Id <- MCId
    Op <- MCOp
    InContract <- MCInContract
    CallOp <- MCCallOp
    Amount <- MCAmount
    Limit <- MCLimit
    MaxInt = 15
    StepCap = 6
CHECK_DEADLOCK FALSE
INVARIANTS EnforcerInv BudgetsHold LedgerCovers TraceIsExact EffectsAreBudgeted
SYMMETRY Perms
