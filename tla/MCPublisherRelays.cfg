CONSTANTS
    s1 = s1
    s2 = s2
    A = A
    B = B
    Signers = {s1, s2}
    CIDs = {A, B}
    FirstFiles <- MCFirstFiles
    Strays = {}
    TrustFiles <- MCTrustFiles
    Flags = {0, 1}
    NumRelays = 2
    MaxTime = 1
    MaxVersion = 2
    MaxSigned = 1
    MaxPublishes = 1
    NoFile = NoFile
    Idle = Idle
SPECIFICATION Spec
CHECK_DEADLOCK FALSE
INVARIANT SurvivesOneRelay
