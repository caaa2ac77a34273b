CONSTANTS
    s1 = s1
    s2 = s2
    A = A
    B = B
    C = C
    Signers = {s1, s2}
    CIDs = {A, B, C}
    FirstFiles <- MCFirstFiles
    Strays <- MCStrays
    TrustFiles <- MCTrustFiles
    Hardcoded <- Both
    PageOf <- MCPageOf
    Flags = {0}
    NumRelays = 1
    MaxTime = 0
    MaxVersion = 2
    MaxSigned = 5
    MaxPublishes = 0
    Mirrors = {m}
    Visitors = {v}
    NoFile = NoFile
    Idle = Idle
    NoCID = NoCID
    NoPage = NoPage
CONSTRAINTS RelaysUp Roles
SPECIFICATION NetSpec
INVARIANTS NetTypeOK HeldMeansPeople BadgeMeansPeople SplitMeansDoubleSigned
