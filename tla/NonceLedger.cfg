SPECIFICATION LedgerLiveSpec
CONSTANTS
    a1 = a1  a2 = a2  b1 = b1  m1 = m1  m2 = m2
    A = A  B = B  M = M
    k1 = k1
    NoCaller = NoCaller
    Caller <- MCCaller
    Process <- MCProcess
    Runs <- MCRuns
    DurableProcess <- MCDurable
    Key <- MCKey
INVARIANTS LedgerInv AcceptedAtMostOnce AcceptedOncePerLife
PROPERTIES AcceptedStaysOnDisk ConsumeReturns ImplementsReplayGuard
