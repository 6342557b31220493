----------------------------- MODULE Lifecycle -----------------------------
(***************************************************************************)
(* The deployment_state of a change and the table of its allowed moves     *)
(* (src/app/services/lifecycle.py).  The table is a set of pairs; every    *)
(* write of the change store is checked against it (assert_transition).    *)
(***************************************************************************)

\* States a change can be in while its approval status is still pending.
PRE_APPROVAL_STATES ==
    {"awaiting_dev_execution", "dev_fix_in_progress", "dev_fix_failed",
     "ready_for_prod", "investigating", "hypothesis_ready", "fixing",
     "verifying", "reviewing", "escalated"}

\* Nothing leaves these.
TERMINAL_STATES ==
    {"closed_rejected", "blocked_by_policy", "prod_promotion_failed",
     "resolved", "rolled_back"}

DeploymentStates ==
    PRE_APPROVAL_STATES \union TERMINAL_STATES
        \union {"promoting", "promoted_to_prod", "monitoring"}

EDGES ==
    UNION { {"awaiting_dev_execution"} \X
                {"dev_fix_in_progress", "ready_for_prod", "dev_fix_failed", "investigating"},
            {"dev_fix_in_progress"} \X {"ready_for_prod", "dev_fix_failed"},
            {"dev_fix_failed"}      \X {"dev_fix_in_progress", "ready_for_prod"},
            {"ready_for_prod"}      \X
                {"dev_fix_in_progress", "dev_fix_failed", "blocked_by_policy", "promoting"},
            {"promoting"}           \X {"promoted_to_prod", "prod_promotion_failed"},
            {"investigating"}       \X {"hypothesis_ready", "escalated"},
            {"hypothesis_ready"}    \X {"fixing", "escalated"},
            {"fixing"}              \X {"verifying", "escalated"},
            {"verifying"}           \X {"reviewing", "fixing", "escalated"},
            {"reviewing"}           \X {"ready_for_prod", "fixing", "escalated"},
            {"escalated"}           \X {"investigating"},
            {"promoted_to_prod"}    \X {"monitoring"},
            {"monitoring"}          \X {"resolved", "rolled_back"} }

\* A person may turn a change down from any state before approval.
TRANSITIONS == EDGES \union (PRE_APPROVAL_STATES \X {"closed_rejected"})

IsAllowed(from, to) == from = to \/ <<from, to>> \in TRANSITIONS

=============================================================================
