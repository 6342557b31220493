------------------------------ MODULE MCAgentRules ------------------------------
(* A small instance of AgentRules: two metrics, two deploys on either side of the onsets. *)
EXTENDS AgentRules

FamilyOf == [errors |-> "error", pool |-> "dependency"]
PoolOnly == <<"pool">>
DeployTimes == [d1 |-> 20, d2 |-> 65]
DeployKinds == [d1 |-> "code", d2 |-> "config"]

=============================================================================
