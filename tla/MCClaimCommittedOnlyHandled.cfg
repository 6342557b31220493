SPECIFICATION Spec
CONSTANTS
    Changes = {c1, c2}
    Transports = {"kafka"}
    BusCapacity = 2
    PollLimit = 3
    Relays = {r1, r2}
    Writers = 1
    MaxEvents = 2
    MaxFaults <- NoFault
INVARIANT CommittedOnlyHandled
CHECK_DEADLOCK FALSE
