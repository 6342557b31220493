--------------------------- MODULE MCEventDelivery --------------------------
(* Small instances of EventDelivery. *)
EXTENDS EventDelivery

\* On a bus a failed storing and a restart after it; on Kafka two relays repeat events without a fault.
FewFaults == [t \in Transports |-> IF t = "kafka" THEN 1 ELSE 2]
OneFault == [t \in Transports |-> 1]
NoFault == [t \in Transports |-> 0]

=============================================================================
