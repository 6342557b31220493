SPECIFICATION Spec
CONSTANTS
    Builds = {b1, b2}
    NoBuild = NoBuild
    AgentDeploy = AgentDeploy
    Approvers = {ann}
    ReleaseOperators = {rob}
    Nobody = Nobody
    AllowedJenkins = {"SUCCESS"}
    ZeroWarnings = TRUE
    SeparateDuties = TRUE
    Changes = {c1}
    Clients = {k1, k2}
    Runs = {g1}
    MaxAttempts = 1
    MaxRestarts = 0
    Opened <- CleanOpening
INVARIANT RunEndIsRecorded
CHECK_DEADLOCK FALSE
