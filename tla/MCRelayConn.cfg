CONSTANTS
    Callers = {c1, c2}
    Conns = {i1, i2, i3}
    None = None
SPECIFICATION FairSpec
INVARIANTS TypeOK HandsOutLive NoLeak LoserIsAlone
PROPERTIES OnlyFailedDropped Recovers
