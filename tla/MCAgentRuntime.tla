--------------------------- MODULE MCAgentRuntime ---------------------------
(* Small instances of AgentRuntime. *)
EXTENDS AgentRuntime, TLC

CleanOpening == [jenkins |-> "QUEUED", diagnosis |-> "sound", warned |-> FALSE, alert |-> TRUE]

\* Incidents of one service, which dev has one environment for.
OneService == [c \in Changes |-> "s1"]

Symmetry == Permutations(Runs)

=============================================================================
