SPECIFICATION FairSpec
CONSTANTS
    a1 = a1
    w1 = w1
    r1 = r1
    d1 = d1
    Feeders = {a1}
    Readers = {a1, r1, d1}
    RunFeeds = {"run_open"}
    RunReads = {"ephemeral"}
    OtherFeeds = {}
    OtherReads = {"follow", "cache", "wait"}
    FeedOps <- MCFeedOps
    ReadOps <- MCReadOps
    PipeSize = 1
    MaxOut = 2
    MaxBody = 0
    Chunk = 1
    MayKill = TRUE
    MayClean = TRUE
    InlineCap = 1
    EphemeralCap = 1
    Limit = 1
    Buffer = 2
    MaxBreaks = 1
INVARIANTS
    CacheIsPrefix
    EndedIsWhole
    TailIsTrue
PROPERTIES
    StreamsEnd
