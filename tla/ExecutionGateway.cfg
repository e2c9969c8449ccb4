SPECIFICATION Spec
CONSTANTS
    a1 = a1  b1 = b1  A = A  B = B  k1 = k1
    once = once  often = often  decision = decision  subject = subject
    NoCaller = NoCaller
    Caller <- MCCaller
    Process <- MCProcess
    DurableProcess <- MCProcess
    Runs <- MCRuns
    Key <- MCKey
    Auth <- MCAuth
    KeyOf <- MCKeyOf
    SingleUse <- MCSingleUse
    Bound <- MCBound
    Revocable <- MCRevocable
    NamesOf <- MCNamesOf
    Subject <- MCSubject
    SubjectOf <- MCSubjectOf
INVARIANTS GatewayInv ExecutedAtMostOnce DenialSpendsNothing EveryRunWasJustified ReceiptsAreTruthful
PROPERTY ImplementsGate
