SPECIFICATION Spec
CONSTANTS
    Clients = {c1, c2}
    Builds = {"v1", "v2", "v3", "v4"}
    StreamBuild = "v3"
    Pids = {p1, p2}
    Rank <- MCRank
    Protocol <- MCProtocol
    Setups <- MCSetups
    MaxCuts = 1
SYMMETRY MCSymmetry
INVARIANTS
    TypeOK
    AtMostOnce
    LiveIsWhole
    DeployedIsOwn
    PolicyIsKept
PROPERTIES
    SparesTheNewer
    StreamIsNotWasted
