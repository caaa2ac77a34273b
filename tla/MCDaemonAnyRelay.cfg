CONSTANTS
    s1 = s1
    s2 = s2
    s3 = s3
    A = A
    B = B
    Polls = {p1}
    Latests <- HalfSigned
    SignerFiles <- OneFile
    NumUrls = 1
    ServeDir = FALSE
    MaxStarts = 1
    NoLatest = NoLatest
    Pending = Pending
    NoCID = NoCID
    NoState = NoState
    NoPoll = NoPoll
    NoBeat = NoBeat
    Unreadable = Unreadable
    Partial = Partial
SPECIFICATION HelpfulSpec
PROPERTY IngestsFromAnyRelay
