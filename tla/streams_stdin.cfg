SPECIFICATION FairSpec
CONSTANTS
    a1 = a1
    w1 = w1
    r1 = r1
    d1 = d1
    Feeders = {a1, w1}
    Readers = {a1}
    RunFeeds = {"run"}
    RunReads = {"run"}
    OtherFeeds = {"write", "pipe", "pipe_open", "close"}
    OtherReads = {}
    FeedOps <- MCFeedOps
    ReadOps <- MCReadOps
    PipeSize = 1
    MaxOut = 0
    MaxBody = 2
    Chunk = 2
    MayKill = FALSE
    MayClean = FALSE
    InlineCap = 1
    EphemeralCap = 1
    Limit = 1
    Buffer = 1
    MaxBreaks = 0
INVARIANTS
    TypeOK
    FedInOrder
    WrittenIsTrue
PROPERTIES
    EndIsAsked
    FeedsEnd
