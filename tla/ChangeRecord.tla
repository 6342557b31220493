---------------------------- MODULE ChangeRecord ----------------------------
(***************************************************************************)
(* One change record and the read-modify-write functions of the change     *)
(* store (src/app/services/change_control.py), without the store around    *)
(* them: the policy gate, the "why not" checks shared with the dashboard,  *)
(* and what each operation writes.  An operation Op(r, ...) is the record  *)
(* its `apply` callback returns; CanOp(r, ...) holds where the callback    *)
(* raises nothing and the lifecycle table allows the move.                 *)
(*                                                                         *)
(* A record keeps what the decisions read.  Confidence and issue type are  *)
(* one field, diagnosis: "sound" when the confidence reaches the minimum   *)
(* for production and the issue type is known, "weak" otherwise.           *)
(***************************************************************************)
EXTENDS Lifecycle

CONSTANTS
    Builds,             \* identities (urls) of Jenkins builds
    NoBuild,            \* no url recorded
    AgentDeploy,        \* the url of the dev deploy an agent run verified
    Approvers,          \* actor names that hold an approver key
    ReleaseOperators,   \* actor names that hold a release operator key
    Nobody,             \* decided_by / promoted_by not set
    AllowedJenkins,     \* policy: jenkins states that may go to production
    ZeroWarnings,       \* policy: require_zero_warnings_for_prod
    SeparateDuties      \* policy: enforce_separation_of_duties

NonTerminalBuildStates == {"QUEUED", "RUNNING"}
JenkinsStatuses == NonTerminalBuildStates \union {"SUCCESS", "FAILURE", "UNKNOWN"}

\* The configuration refuses an unfinished or unknown build state.
ASSUME PolicyAssumption ==
    /\ AllowedJenkins \subseteq {"SUCCESS", "FAILURE"}
    /\ ZeroWarnings \in BOOLEAN
    /\ SeparateDuties \in BOOLEAN

ASSUME SentinelAssumption ==
    /\ NoBuild \notin Builds
    /\ AgentDeploy \notin Builds \union {NoBuild}
    /\ Nobody \notin Approvers \union ReleaseOperators

Actors == Approvers \union ReleaseOperators

DevVerdicts == {"running", "passed", "failed"}

Records ==
    [status     : {"pending_approval", "approved", "rejected"},
     state      : DeploymentStates,
     dev        : {"not_started", "in_progress", "passed", "failed"},
     devUrl     : Builds \union {NoBuild, AgentDeploy},
     jenkins    : JenkinsStatuses,
     diagnosis  : {"sound", "weak"},
     warned     : BOOLEAN,
     alert      : BOOLEAN,
     agentRun   : {"not_started", "running", "ready_for_approval", "escalated"},
     decidedBy  : Actors \union {Nobody},
     promotedBy : Actors \union {Nobody},
     prodUrl    : Builds \union {NoBuild}]

\* What the pipeline knows when it opens a change.
Openings == [jenkins : {"QUEUED", "UNKNOWN"}, diagnosis : {"sound", "weak"},
             warned : BOOLEAN, alert : BOOLEAN]

CreateChange(o) ==
    [status |-> "pending_approval", state |-> "awaiting_dev_execution",
     dev |-> "not_started", devUrl |-> NoBuild, jenkins |-> o.jenkins,
     diagnosis |-> o.diagnosis, warned |-> o.warned, alert |-> o.alert,
     agentRun |-> "not_started", decidedBy |-> Nobody, promotedBy |-> Nobody,
     prodUrl |-> NoBuild]

-----------------------------------------------------------------------------
(* The policy gate: the record gives no reason to keep it out of production. *)
PolicyOK(r) ==
    /\ r.diagnosis = "sound"
    /\ ZeroWarnings => ~r.warned
    /\ r.jenkins \in AllowedJenkins
    /\ r.dev = "passed"

(* A write is accepted only along the lifecycle table. *)
MayMoveTo(r, to) == IsAllowed(r.state, to)

-----------------------------------------------------------------------------
(* Dev execution by a person. *)
PromotionOver == {"promoted_to_prod", "prod_promotion_failed"}

DevExecutable(r) ==
    /\ r.status = "pending_approval"
    /\ r.state \notin PromotionOver \union {"promoting", "dev_fix_in_progress"}
    /\ r.agentRun # "running"

\* The dev status and the deployment state each verdict of a dev run stands for.
DevStatusFor(verdict) ==
    CASE verdict = "running" -> "in_progress"
      [] verdict = "passed"  -> "passed"
      [] verdict = "failed"  -> "failed"

DevStateFor(verdict) ==
    CASE verdict = "running" -> "dev_fix_in_progress"
      [] verdict = "passed"  -> "ready_for_prod"
      [] verdict = "failed"  -> "dev_fix_failed"

\* Variant for mutation testing: the status check is left to the check before the build.
CanRecordDevUnchecked(r, verdict) ==
    /\ r.state \notin PromotionOver \union {"promoting"}
    /\ MayMoveTo(r, DevStateFor(verdict))

CanRecordDev(r, verdict) ==
    /\ r.status = "pending_approval"
    /\ r.state \notin PromotionOver \union {"promoting"}
    /\ MayMoveTo(r, DevStateFor(verdict))

WithDevExecution(r, url, jenkins, verdict) ==
    [r EXCEPT !.jenkins = jenkins,
              !.dev = DevStatusFor(verdict),
              !.devUrl = url,
              !.state = DevStateFor(verdict)]

-----------------------------------------------------------------------------
(* The agent workflow. *)
AgentStartStates == {"awaiting_dev_execution", "escalated"}

CanBeginAgentRun(r) ==
    /\ r.agentRun # "running"
    /\ r.status = "pending_approval"
    /\ r.alert
    /\ r.state \in AgentStartStates
    /\ MayMoveTo(r, "investigating")

BeginAgentRun(r) == [r EXCEPT !.state = "investigating", !.agentRun = "running"]

\* States the orchestrator may move a change into while an agent run is in progress.
AgentStates == {"hypothesis_ready", "fixing", "verifying", "reviewing", "escalated"}

CanRecordAgentStep(r, to) ==
    /\ to \in AgentStates
    /\ r.agentRun = "running"
    /\ MayMoveTo(r, to)

\* diagnosis = r.diagnosis when the step reports none.
RecordAgentStep(r, to, diagnosis) ==
    [r EXCEPT !.state = to,
              !.diagnosis = diagnosis,
              !.agentRun = IF to = "escalated" THEN "escalated" ELSE @]

CanFinishAgentRun(r) ==
    /\ r.agentRun = "running"
    /\ CanRecordDev(r, "passed")

FinishAgentRun(r) ==
    [WithDevExecution(r, AgentDeploy, "SUCCESS", "passed")
        EXCEPT !.agentRun = "ready_for_approval"]

\* recover_interrupted_runs: what a starting process does to a record left "running";
\* an illegal move raises and is skipped.
RecoverInterruptedRun(r) ==
    IF CanRecordAgentStep(r, "escalated") THEN RecordAgentStep(r, "escalated", r.diagnosis) ELSE r

-----------------------------------------------------------------------------
(* Approval and promotion. *)
CanDecide(r, decision) ==
    /\ r.status = "pending_approval"
    /\ decision = "approve" => r.state = "ready_for_prod"
    /\ decision = "reject"  => MayMoveTo(r, "closed_rejected")

ApplyDecision(r, decision, by) ==
    IF decision = "approve"
    THEN [r EXCEPT !.status = "approved", !.decidedBy = by,
                   !.state = IF PolicyOK(r) THEN "ready_for_prod" ELSE "blocked_by_policy"]
    ELSE [r EXCEPT !.status = "rejected", !.decidedBy = by, !.state = "closed_rejected"]

\* Variants for mutation testing: no separation of duties; no look at the decision.
CanPromoteAlone(r, by) ==
    r.status = "approved" /\ r.state = "ready_for_prod" /\ PolicyOK(r)

CanPromoteUndecided(r, by) ==
    r.state = "ready_for_prod" /\ (SeparateDuties => r.decidedBy # by) /\ PolicyOK(r)

CanPromote(r, by) ==
    /\ r.status = "approved"
    /\ r.state = "ready_for_prod"
    /\ SeparateDuties => r.decidedBy # by
    /\ PolicyOK(r)

BeginPromotion(r, by) == [r EXCEPT !.state = "promoting", !.promotedBy = by]

\* Variant for mutation testing: a deploy that has not failed counts as done.
PromotionResultOptimistic(jenkins) ==
    IF jenkins = "FAILURE" THEN "failed" ELSE "success"

PromotionResultFor(jenkins) ==
    CASE jenkins = "SUCCESS" -> "success"
      [] jenkins \in NonTerminalBuildStates -> "queued"
      [] OTHER -> "failed"

CanFinalizePromotion(r) == r.state = "promoting"

\* Variant for mutation testing: a failed promotion may be tried again.
FinalizePromotionRetryable(r, result, url) ==
    [r EXCEPT !.prodUrl = IF url = NoBuild THEN @ ELSE url,
              !.state = CASE result = "success" -> "promoted_to_prod"
                          [] result = "queued"  -> "promoting"
                          [] OTHER -> "ready_for_prod"]

\* url = NoBuild keeps the url already recorded.
FinalizePromotion(r, result, url) ==
    [r EXCEPT !.prodUrl = IF url = NoBuild THEN @ ELSE url,
              !.state = CASE result = "success" -> "promoted_to_prod"
                          [] result = "queued"  -> "promoting"
                          [] OTHER -> "prod_promotion_failed"]

=============================================================================
