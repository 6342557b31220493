SPECIFICATION Spec
CONSTANTS
    Changes = {c1, c2}
    Requests = {r1, r2, r3, r4}
    Targets <- SomeTargets
    None = None
    AppendMayFail = TRUE
    MaxRestarts = 2
SYMMETRY Symmetry
INVARIANTS TypeOK DoneIsDurable RecordedIsDurable
PROPERTIES FileOnlyGrows
CHECK_DEADLOCK FALSE
