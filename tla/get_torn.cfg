SPECIFICATION Spec
CONSTANTS
    p1 = p1
    p2 = p2
    g1 = g1
    original = original
    Putters = {}
    Getters = {g1}
    Original = original
    MaxLen = 3
    Faults = {}
    Kinds = {"put", "put_stream"}
    Requests <- MCRequests
    PutFaults <- MCPutFaults
    Chunk = 2
    MaxFrame = 2
    PipeSize = 1
    GetPipe = 1
    GetFaults = {}
    Writers = {"overwrite"}
    MaxEdits = 1
    MayLosePower = FALSE
INVARIANTS
    NeverTorn
