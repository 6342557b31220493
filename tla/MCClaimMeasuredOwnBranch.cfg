SPECIFICATION Spec
CONSTANTS
    Builds = {}
    NoBuild = NoBuild
    AgentDeploy = AgentDeploy
    Approvers = {ann}
    ReleaseOperators = {}
    Nobody = Nobody
    AllowedJenkins = {"SUCCESS"}
    ZeroWarnings = TRUE
    SeparateDuties = TRUE
    Changes = {c1, c2}
    Runs = {g1, g2}
    Workers = 2
    MaxAttempts = 1
    MaxRestarts = 0
    Modes = {"real"}
    ServiceOf <- OneService
    Opening <- CleanOpening
    None = None
    TestsWrite = {TRUE, FALSE}
    Diagnoses = {"sound"}
INVARIANT MeasuredOwnBranch
CHECK_DEADLOCK FALSE
