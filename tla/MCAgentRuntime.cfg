SPECIFICATION Spec
CONSTANTS
    Builds = {}
    NoBuild = NoBuild
    AgentDeploy = AgentDeploy
    Approvers = {ann}
    ReleaseOperators = {}
    Nobody = Nobody
    AllowedJenkins = {"SUCCESS"}
    ZeroWarnings = TRUE
    SeparateDuties = TRUE
    Changes = {c1, c2}
    Runs = {g1, g2}
    Workers = 2
    MaxAttempts = 2
    MaxRestarts = 1
    Modes = {"real", "shadow"}
    ServiceOf <- OneService
    Opening <- CleanOpening
    None = None
    TestsWrite = {TRUE}
    Diagnoses = {"sound"}
INVARIANTS TypeOK NeverStuckWorking NothingLeaks ShownIsReviewed MeasuredOwnUnlessDisplaced
CHECK_DEADLOCK FALSE
SYMMETRY Symmetry
