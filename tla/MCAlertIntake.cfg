SPECIFICATION Spec
CONSTANTS
    a1 = a1
    a2 = a2
    poll = poll
    once = once
    Alerts = {a1, a2}
    Named = {a1}
    ServiceOf <- OneService
    Limit = 2
    Window = TRUE
    Cyclers = {poll, once}
    MaxChanges = 2
    MaxFailures = 1
    MaxRestarts = 1
    None = None
SYMMETRY Symmetry
INVARIANTS TypeOK MarkedIsOnFile OneOpenChangePerService
CHECK_DEADLOCK FALSE
