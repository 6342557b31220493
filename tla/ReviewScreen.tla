----------------------------- MODULE ReviewScreen -----------------------------
(***************************************************************************)
(* What the review screen tells a person about a change                    *)
(* (src/app/services/review.py): what the change waits for, the headline   *)
(* of its case file, and which actions are open on it.  The screen reads   *)
(* the record with the checks of the store; the store then applies its     *)
(* own, and asserts the move.                                              *)
(***************************************************************************)
EXTENDS ChangeControl

\* AGENT_RUN_MODE: only manual and auto let agents touch a change under approval.
AgentModes == {"off", "manual", "auto", "shadow"}

Working(r) == r.agentRun = "running"

Attention(r) ==
    IF Working(r) THEN "agents_working"
    ELSE CASE r.state = "promoting"         -> "promoting"
           [] r.state = "blocked_by_policy" -> "blocked"
           [] r.state = "escalated"         -> "escalated"
           [] r.state = "ready_for_prod"    ->
                IF r.status = "pending_approval" THEN "needs_approval" ELSE "needs_promotion"
           [] OTHER -> "nothing"

\* The headline of the case file, as far as it says what happens next.
Headline(r) ==
    IF r.status = "rejected" THEN "rejected"
    ELSE CASE r.state \in {"promoted_to_prod", "prod_promotion_failed", "promoting", "blocked_by_policy"} -> r.state
           [] OTHER ->
                IF Working(r) THEN "agents_working"
                ELSE CASE r.state = "escalated" -> "escalated"
                       [] r.state = "ready_for_prod" /\ r.status = "approved" -> "waits_for_promotion"
                       [] r.state = "ready_for_prod" /\ r.status # "approved" -> "waits_for_approval"
                       [] OTHER -> "in_progress"

Undecided(r) == r.status = "pending_approval"

\* Variant for mutation testing: a decision is open as long as nobody has decided.
ApprovalOpenUntilDecided(r) == ~Working(r) /\ Undecided(r)

ApprovalOpen(r) == ~Working(r) /\ Undecided(r) /\ r.state = "ready_for_prod"

\* promotion_blocker without an actor: separation of duties is a note beside the button.
PromotionOpen(r) ==
    ~Working(r) /\ r.status = "approved" /\ r.state = "ready_for_prod" /\ PolicyOK(r)

\* build_actions: the actions the screen offers, each where no check gives a reason against it.
Offered(r, mode) ==
    UNION { IF /\ mode \in {"manual", "auto"}
               /\ ~Working(r) /\ Undecided(r) /\ r.alert
               /\ r.state \in AgentStartStates                         THEN {"run_agents"} ELSE {},
            IF ApprovalOpen(r)                                         THEN {"approve"} ELSE {},
            IF Undecided(r)                                            THEN {"reject"} ELSE {},
            IF PromotionOpen(r)                                        THEN {"promote"} ELSE {},
            IF r.state \in {"dev_fix_in_progress", "promoting"}        THEN {"refresh_status"} ELSE {} }

\* BuildTracker.refresh finds the url of the build it is asked about.
Refreshable(r) ==
    \/ r.state = "promoting" /\ r.prodUrl # NoBuild
    \/ r.state = "dev_fix_in_progress" /\ r.devUrl # NoBuild

\* Whether the server takes an action, from anyone but the approver where that is the rule.
Accepts(r, action) ==
    CASE action = "run_agents"     -> CanBeginAgentRun(r)
      [] action = "approve"        -> CanDecide(r, "approve")
      [] action = "reject"         -> CanDecide(r, "reject")
      [] action = "promote"        -> \A by \in ReleaseOperators \ {r.decidedBy} : CanPromote(r, by)
      [] action = "refresh_status" -> Refreshable(r)

\* A request still holds the reservation of c, and will record how it ends.
BeingPromoted(c) ==
    \E k \in Clients : reqs[k].of = c /\ reqs[k].pc \in {"prod_trigger", "prod_poll", "prod_record", "prod_abort"}

\* review.py:5: "the screen cannot offer something the server would refuse for a different
\* reason."  What it offers, the server takes, along the lifecycle table too; only a refresh
\* may find no url yet, while the promotion is being triggered or a restart lost it.  What
\* the inbox says a change needs is open to do, and the headline says the same.
ScreenKeepsItsWord ==
    \A c \in Changes :
        /\ \A mode \in AgentModes : \A action \in Offered(changes[c], mode) :
              \/ Accepts(changes[c], action)
              \/ action = "refresh_status" /\ (BeingPromoted(c) \/ restarts # 0)
        /\ Attention(changes[c]) = "needs_approval"  => ApprovalOpen(changes[c])
        /\ Attention(changes[c]) = "needs_promotion" => PromotionOpen(changes[c])
        /\ Headline(changes[c]) = "waits_for_approval"  <=> Attention(changes[c]) = "needs_approval"
        /\ Headline(changes[c]) = "waits_for_promotion" <=> Attention(changes[c]) = "needs_promotion"

=============================================================================
