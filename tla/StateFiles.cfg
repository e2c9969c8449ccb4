SPECIFICATION FilesSpec
CONSTANTS
    p1 = p1  p2 = p2  d1 = d1  d2 = d2  k1 = k1  x1 = x1  x2 = x2
    NoState = NoState
    Process <- MCProcess
    Digest <- MCDigest
    Skill <- MCSkill
    Subject <- MCSubject
SYMMETRY MCSymmetry
INVARIANTS FilesInv SettledStands PinNeverReturns
