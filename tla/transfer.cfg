SPECIFICATION FairSpec
CONSTANTS
    p1 = p1
    p2 = p2
    g1 = g1
    original = original
    Putters = {p1}
    Getters = {g1}
    Original = original
    MaxLen = 3
    Faults = {"create"}
    Kinds = {"put_stream"}
    Requests <- MCRequests
    PutFaults <- MCPutFaults
    Chunk = 2
    MaxFrame = 2
    PipeSize = 1
    GetPipe = 1
    GetFaults = {"open", "cut", "local", "kill"}
    Writers = {"append", "truncate"}
    MaxEdits = 1
    MayLosePower = FALSE
INVARIANTS
    NeverTorn
    FailedGetLeavesNothing
    FileChangedIsTrue
PROPERTIES
    PutsAnswer
    UndisturbedGetsAnswer
