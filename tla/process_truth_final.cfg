SPECIFICATION Spec
CONSTANTS
    c1 = c1
    starter = starter
    Clients = {c1}
    Starter = starter
    Modes = {"start"}
    Ops = {"wait"}
    Faults = {}
    RunnerMayCrash = FALSE
    EarlyIds = FALSE
PROPERTY TruthIsFinal
