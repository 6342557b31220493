SPECIFICATION Spec
CONSTANTS
    Changes = {c1, c2}
    Transports = {"kafka"}
    BusCapacity = 2
    PollLimit = 2
    Relays = {r1}
    Writers = 2
    MaxEvents = 2
    MaxFaults <- NoFault
INVARIANT KafkaMissesNothing
CHECK_DEADLOCK FALSE
