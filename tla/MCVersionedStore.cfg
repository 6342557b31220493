SPECIFICATION Spec
CONSTANTS
    Changes = {c1}
    Requests = {r1, r2, r3, r4, r5}
    Processes = {p1, p2}
    Targets <- SomeTargets
    None = None
    MaxWriteAttempts = 3
SYMMETRY Symmetry
INVARIANTS TypeOK EveryWriteIsOnRecord AuditTrailConnects EventsFollowVersions GivesUpOnlyWhenOvertaken
PROPERTIES ImplementsAtomicStore
CHECK_DEADLOCK FALSE
