SPECIFICATION Spec
CONSTANTS
    AlertedMetric = "errors"
    OtherMetrics <- PoolOnly
    Family <- FamilyOf
    Onsets = {40, 90}
    LogPatterns = {"exception", "timeout"}
    DeployedAt <- DeployTimes
    DeployKind <- DeployKinds
    SimilarTypes = {"dependency_failure"}
    LeadMinutes = 30
    MinConfidence = 600
    MinMargin = 100
    MaxLlmSteps = 1
    MaxSteps = 2
    Files = {"f1", "f2", "f3"}
    Editable = {"f1", "f2"}
    Residue = {"f3"}
    MaxPolls = 2
INVARIANTS TypeOK DeployTagsCurrent ProceedIsUnambiguous ApprovedWasChecked
PROPERTIES AgentsAnswer
CHECK_DEADLOCK FALSE
