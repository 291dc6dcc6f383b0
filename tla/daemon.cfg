SPECIFICATION FairSpec
CONSTANTS
    u1 = u1
    u2 = u2
    u3 = u3
    Users = {u1, u2, u3}
    Nobody = Nobody
    Ops = {"start", "stop", "request"}
    Faults = {"setup"}
    Manners = {"any", "settled"}
    Killing = {"settled"}
INVARIANTS
    FilesNameTheDaemon
    StaleIsReplaced
    RunningMeansRunning
PROPERTIES
    StopEndsIt
    CallsEnd
