SPECIFICATION Spec
CONSTANTS
    Builds = {b1, b2}
    NoBuild = NoBuild
    AgentDeploy = AgentDeploy
    Approvers = {ann}
    ReleaseOperators = {rob}
    Nobody = Nobody
    AllowedJenkins = {"SUCCESS"}
    ZeroWarnings = TRUE
    SeparateDuties = TRUE
    Changes = {c1}
    Clients = {k1}
    Runs = {g1, g2}
    MaxAttempts = 2
    MaxRestarts = 0
    Opened <- CleanOpening
INVARIANT OneRunPerChange
CHECK_DEADLOCK FALSE
