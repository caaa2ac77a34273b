CONSTANTS
    s1 = s1
    s2 = s2
    s3 = s3
    A = A
    B = B
    Polls = {p1, p2}
    Latests <- MCLatests
    SignerFiles <- MCFiles
    NumUrls = 1
    ServeDir = TRUE
    MaxStarts = 2
    NoLatest = NoLatest
    Pending = Pending
    NoCID = NoCID
    NoState = NoState
    NoPoll = NoPoll
    NoBeat = NoBeat
    Unreadable = Unreadable
    Partial = Partial
SYMMETRY Goroutines
SPECIFICATION Spec
VIEW PollView
INVARIANT AlreadyPinned
