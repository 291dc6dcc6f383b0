SPECIFICATION Spec
CONSTANTS
    c1 = c1
    starter = starter
    Clients = {c1}
    Starter = starter
    Modes = {"start"}
    Ops = {"kill"}
    Faults = {}
    RunnerMayCrash = FALSE
    EarlyIds = TRUE
INVARIANT KilledMeansDead
