SPECIFICATION FairSpec
CONSTANTS
    c1 = c1
    c2 = c2
    starter = starter
    Clients = {c1, c2}
    Starter = starter
    Modes = {"start", "run"}
    Ops = {"wait", "kill", "clean"}
    Faults = {"stdin", "holder_fork", "command_fork", "chdir", "exec"}
    RunnerMayCrash = FALSE
    EarlyIds = FALSE
INVARIANTS
    KilledMeansDead
PROPERTIES
    KillKeepsTheTruth
    StartAnswers
    EndsAreSettled
    WaitersAreAnswered
