SPECIFICATION FairSpec
CONSTANTS
    p1 = p1
    p2 = p2
    g1 = g1
    original = original
    Putters = {}
    Getters = {g1}
    Original = original
    MaxLen = 3
    Faults = {}
    Kinds = {"put", "put_stream"}
    Requests <- MCRequests
    PutFaults <- MCPutFaults
    Chunk = 2
    MaxFrame = 2
    PipeSize = 1
    GetPipe = 1
    GetFaults = {"local"}
    Writers = {"append"}
    MaxEdits = 0
    MayLosePower = FALSE
PROPERTIES
    GetsAnswer
CHECK_DEADLOCK FALSE
