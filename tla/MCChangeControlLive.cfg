SPECIFICATION FairSpec
CONSTANTS
    Builds = {b1, b2}
    NoBuild = NoBuild
    AgentDeploy = AgentDeploy
    Approvers = {ann}
    ReleaseOperators = {rob}
    Nobody = Nobody
    AllowedJenkins = {"SUCCESS"}
    ZeroWarnings = TRUE
    SeparateDuties = TRUE
    Changes = {c1}
    Clients = {k1}
    Runs = {g1}
    MaxAttempts = 3
    MaxRestarts = 1
    Opened <- AnyDiagnosis
PROPERTIES AgentRunEnds ReservationEnds
CHECK_DEADLOCK FALSE
