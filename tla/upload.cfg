SPECIFICATION Spec
CONSTANTS
    p1 = p1
    p2 = p2
    g1 = g1
    original = original
    Putters = {p1, p2}
    Getters = {}
    Original = original
    MaxLen = 2
    Faults = {"source", "cut", "kill", "create", "write", "sync", "chmod", "chown",
              "rename", "syncdir"}
    Kinds = {"put", "put_stream"}
    Requests <- MCRequests
    PutFaults <- MCPutFaults
    Chunk = 2
    MaxFrame = 2
    PipeSize = 1
    GetPipe = 1
    GetFaults = {}
    Writers = {"append"}
    MaxEdits = 0
    MayLosePower = TRUE
INVARIANTS
    TypeOK
    InstalledIsWhole
    ReportsAreTrue
    CopiedSurvives
