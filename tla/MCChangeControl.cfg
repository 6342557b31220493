SPECIFICATION Spec
CONSTANTS
    Builds = {b1, b2, b3}
    NoBuild = NoBuild
    AgentDeploy = AgentDeploy
    Approvers = {ann, rob}
    ReleaseOperators = {rob, sue}
    Nobody = Nobody
    AllowedJenkins = {"SUCCESS"}
    ZeroWarnings = TRUE
    SeparateDuties = TRUE
    Changes = {c1}
    Clients = {k1, k2}
    Runs = {g1}
    MaxAttempts = 2
    MaxRestarts = 1
    Opened <- CleanOpening
SYMMETRY Symmetry
INVARIANTS TypeOK ReleasedIsGuarded DeployedOnce PromotedWasDeployed ReadyWasValidated ReservationHasOwner ScreenKeepsItsWord
PROPERTIES DecidedIsFrozen ImplementsReleaseGate
CHECK_DEADLOCK FALSE
