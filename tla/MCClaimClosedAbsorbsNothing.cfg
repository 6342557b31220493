SPECIFICATION Spec
CONSTANTS
    a1 = a1
    a2 = a2
    poll = poll
    once = once
    Alerts = {a1, a2}
    Named = {a1, a2}
    ServiceOf <- OneService
    Limit = 1
    Window = TRUE
    Cyclers = {poll}
    MaxChanges = 1
    MaxFailures = 0
    MaxRestarts = 0
    None = None
PROPERTY ClosedAbsorbsNothing
CHECK_DEADLOCK FALSE
