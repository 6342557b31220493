SPECIFICATION Spec
CONSTANTS
    Changes = {c1, c2}
    Transports = {"kafka"}
    BusCapacity = 2
    PollLimit = 3
    Relays = {r1}
    Writers = 1
    MaxEvents = 2
    MaxFaults <- OneFault
PROPERTY DeliveredAtLeastOnce
CHECK_DEADLOCK FALSE
