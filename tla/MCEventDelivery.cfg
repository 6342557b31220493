SPECIFICATION Spec
CONSTANTS
    Changes = {c1, c2}
    Transports = {"inprocess", "outbox", "kafka"}
    BusCapacity = 1
    PollLimit = 3
    Relays = {r1, r2}
    Writers = 2
    MaxEvents = 2
    MaxFaults <- FewFaults
INVARIANTS TypeOK RelayedBeforeCommitted CommittedWasHandled MemoryIsTrue
PROPERTIES LearnedStays OutcomesAreLearned
CHECK_DEADLOCK FALSE
