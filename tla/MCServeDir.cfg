CONSTANTS
    A = A
    B = B
    CIDs <- MCCIDs
    Entries <- MCEntries
    Site <- MCSite
    Rank <- MCRank
    Writers = {w1, w2}
    None = None
    Empty = Empty
    Garbled = Garbled
SPECIFICATION FairSpec
INVARIANTS TypeOK OneRelease PopulatedIsWhole
PROPERTIES ImplementsSiteDir SnapshotsSettle
