SPECIFICATION Spec
CONSTANTS
    i1 = i1  i2 = i2  i3 = i3  i4 = i4
    Id <- MCId
    maxRetries = 2
CHECK_DEADLOCK FALSE
INVARIANTS AttemptInv OutputFromOneAttempt
PROPERTY VerdictIsFinal
