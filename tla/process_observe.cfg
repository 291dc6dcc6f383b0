SPECIFICATION Spec
CONSTANTS
    c1 = c1
    c2 = c2
    starter = starter
    Clients = {c1, c2}
    Starter = starter
    Modes = {"start", "run", "ephemeral"}
    Ops = {"status", "wait", "clean"}
    Faults = {"setup", "runner_setup", "command_fork", "exec"}
    RunnerMayCrash = TRUE
    EarlyIds = TRUE
INVARIANT TypeOK
PROPERTIES
    AnswersAreTrue
    RunReportsTheExit
    KeepsItsPromise
SYMMETRY ClientSymmetry
