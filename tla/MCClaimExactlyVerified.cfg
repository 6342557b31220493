SPECIFICATION Spec
CONSTANTS
    Builds = {}
    NoBuild = NoBuild
    AgentDeploy = AgentDeploy
    Approvers = {ann}
    ReleaseOperators = {}
    Nobody = Nobody
    AllowedJenkins = {"SUCCESS"}
    ZeroWarnings = TRUE
    SeparateDuties = TRUE
    Changes = {c1}
    Runs = {g1}
    Workers = 2
    MaxAttempts = 1
    MaxRestarts = 0
    Modes = {"real"}
    ServiceOf <- OneService
    Opening <- CleanOpening
    None = None
    TestsWrite = {TRUE, FALSE}
    Diagnoses = {"sound"}
INVARIANT ExactlyWhatWasVerified
CHECK_DEADLOCK FALSE
