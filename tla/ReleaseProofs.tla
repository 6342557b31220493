---------------------------- MODULE ReleaseProofs ----------------------------
(***************************************************************************)
(* How a release ends, for every value of the constants.  Who holds a      *)
(* reserved promotion: a live request until it is finalized, and nobody    *)
(* finalizes it under the request that is about to deploy.  What the       *)
(* review screen says of it.  And that the store, its requests, the agent  *)
(* runs and Jenkins implement the abstract release gate, step by step.     *)
(***************************************************************************)
EXTENDS ChangeControlProofs, ReviewScreen

-----------------------------------------------------------------------------
(* A reservation without a url belongs to a live request. *)
Stranded(r) == r.state = "promoting" /\ r.prodUrl = NoBuild

HoldingSteps == {"prod_trigger", "prod_poll", "prod_record", "prod_abort"}

Holds(k, c) == reqs[k].of = c /\ reqs[k].pc \in HoldingSteps

Held == \A c \in Changes : (Stranded(changes[c]) /\ restarts = 0) => \E k \in Clients : Holds(k, c)

\* Only a reservation strands a record.
NoneStranded == \A c \in Changes : Stranded(changes'[c]) => Stranded(changes[c])

LEMMA RecordStrands ==
    ASSUME NEW r \in Records
    PROVE  /\ \A u, j : \A v \in DevVerdicts : ~Stranded(WithDevExecution(r, u, j, v))
           /\ ~Stranded(BeginAgentRun(r))
           /\ \A to \in AgentStates : \A d : ~Stranded(RecordAgentStep(r, to, d))
           /\ ~Stranded(FinishAgentRun(r))
           /\ \A d, u : ~Stranded(ApplyDecision(r, d, u))
           /\ \A res, u : Stranded(FinalizePromotion(r, res, u)) =>
                 u = NoBuild /\ r.prodUrl = NoBuild /\ res = "queued"
<1>1. \A u, j : \A v \in DevVerdicts : ~Stranded(WithDevExecution(r, u, j, v))
  BY DEF Records, Stranded, WithDevExecution, DevStateFor, DevVerdicts
<1>2. ~Stranded(BeginAgentRun(r))
  BY DEF Records, Stranded, BeginAgentRun
<1>3. \A to \in AgentStates : \A d : ~Stranded(RecordAgentStep(r, to, d))
  BY DEF Records, Stranded, RecordAgentStep, AgentStates
<1>4. ~Stranded(FinishAgentRun(r))
  BY DEF Records, Stranded, FinishAgentRun, WithDevExecution, DevStateFor
<1>5. \A d, u : ~Stranded(ApplyDecision(r, d, u))
  BY DEF Records, Stranded, ApplyDecision
<1>6. \A res, u : Stranded(FinalizePromotion(r, res, u)) =>
          u = NoBuild /\ r.prodUrl = NoBuild /\ res = "queued"
  BY DEF Records, Stranded, FinalizePromotion
<1>7. QED
  BY <1>1, <1>2, <1>3, <1>4, <1>5, <1>6

LEMMA WriteStrandsNone ==
    ASSUME Typed, NEW c \in Changes, NEW s, Write(c, s), ~Stranded(s)
    PROVE  NoneStranded /\ ~Stranded(changes'[c])
<1>1. changes \in [Changes -> Records]
  BY TypesOf DEF Typed
<1>2. QED
  BY <1>1 DEF Write, NoneStranded

LEMMA SameStrandsNone == ASSUME UNCHANGED changes PROVE NoneStranded
  BY DEF NoneStranded

\* A step that strands nothing and takes no thread off its reservation.
LEMMA HeldStays ==
    ASSUME Held, NoneStranded, restarts' = restarts,
           \A k \in Clients, c \in Changes : Holds(k, c) => Holds(k, c)' \/ ~Stranded(changes'[c])
    PROVE  Held'
<1>1. ASSUME NEW c \in Changes, Stranded(changes'[c]), restarts' = 0
      PROVE  \E k \in Clients : Holds(k, c)'
  BY <1>1 DEF Held, NoneStranded
<1>2. QED
  BY <1>1 DEF Held

\* A step of thread k leaves the others where they are.
LEMMA OneMoves ==
    ASSUME Typed, Held, NoneStranded, restarts' = restarts,
           NEW k \in Clients, NEW q \in RequestRecords, reqs' = [reqs EXCEPT ![k] = q],
           \A c \in Changes : Holds(k, c) =>
                (q.of = c /\ q.pc \in HoldingSteps) \/ ~Stranded(changes'[c])
    PROVE  Held'
<1>1. reqs \in [Clients -> RequestRecords]
  BY TypesOf DEF Typed
<1>2. ASSUME NEW j \in Clients, NEW c \in Changes, Holds(j, c)
      PROVE  Holds(j, c)' \/ ~Stranded(changes'[c])
  BY <1>1, <1>2 DEF Holds
<1>3. QED
  BY <1>2, HeldStays

LEMMA RequestStepHeld ==
    ASSUME Typed, Held, NEW k \in Clients, RequestStep(k)
    PROVE  Held'
<1> DEFINE q == reqs[k]
<1>t. /\ changes \in [Changes -> Records]
      /\ reqs \in [Clients -> RequestRecords]
      /\ builds \in [Builds -> BuildRecords]
      /\ q \in RequestRecords
      /\ q.of \in Changes /\ q.build \in AnyUrl /\ q.saw \in JenkinsStatuses
      /\ changes[q.of] \in Records
  BY TypesOf DEF Typed, RequestRecords
<1>d. ASSUME Done(k), NoneStranded, restarts' = restarts, q.pc \notin HoldingSteps \/ ~Stranded(changes'[q.of])
      PROVE  Held'
  BY <1>d, OneMoves, NoRequestType DEF Done, Holds
<1>m. ASSUME NEW p \in RequestRecords, reqs' = [reqs EXCEPT ![k] = p], changes' = changes, restarts' = restarts,
             p.of = q.of, q.pc \in HoldingSteps => p.pc \in HoldingSteps
      PROVE  Held'
  BY <1>m, OneMoves, SameStrandsNone DEF Holds
<1>r. ASSUME NEW pc \in RequestSteps, NEW b \in Builds, NEW saw \in JenkinsStatuses,
             Request(k, pc, q.of, b, saw), changes' = changes, restarts' = restarts,
             q.pc \in HoldingSteps => pc \in HoldingSteps
      PROVE  Held'
  <2> DEFINE p == [pc |-> pc, of |-> q.of, build |-> b, saw |-> saw]
  <2>1. p \in RequestRecords /\ reqs' = [reqs EXCEPT ![k] = p]
    BY <1>r, <1>t DEF Request, RequestRecords, AnyUrl
  <2>2. QED
    BY <1>r, <1>m, <2>1
<1>p. {"dev_record", "prod_record", "dev_poll", "prod_poll", "prod_abort"} \subseteq RequestSteps
  BY DEF RequestSteps
<1>1. CASE DevTrigger(k)
  BY <1>1, <1>r, <1>p, Statuses DEF DevTrigger, HoldingSteps
<1>2. CASE DevTriggerFails(k)
  BY <1>2, <1>d, SameStrandsNone DEF DevTriggerFails, HoldingSteps
<1>3. CASE Poll(k)
  <2> DEFINE pc == IF q.pc = "dev_poll" THEN "dev_record" ELSE "prod_record"
             p == [q EXCEPT !.pc = pc, !.saw = builds[q.build].status]
  <2>1. builds[q.build].status \in JenkinsStatuses
    BY <1>3, <1>t, Statuses DEF Poll, BuildRecords, BuildOutcomes
  <2>2. p \in RequestRecords /\ reqs' = [reqs EXCEPT ![k] = p]
    BY <1>3, <1>t, <1>p, <2>1 DEF Poll, RequestRecords
  <2>3. p.of = q.of /\ (q.pc \in HoldingSteps => p.pc \in HoldingSteps)
    BY <1>3, <1>t DEF Poll, RequestRecords, HoldingSteps
  <2>4. QED
    BY <1>3, <1>m, <2>2, <2>3 DEF Poll
<1>4. CASE PollFails(k)
  <2>1. CASE q.pc = "prod_poll" /\ GoTo(k, "prod_record")
    <3> DEFINE p == [q EXCEPT !.pc = "prod_record"]
    <3>1. p \in RequestRecords /\ reqs' = [reqs EXCEPT ![k] = p] /\ p.of = q.of /\ p.pc \in HoldingSteps
      BY <2>1, <1>t, <1>p DEF GoTo, RequestRecords, HoldingSteps
    <3>2. QED
      BY <1>4, <1>m, <3>1 DEF PollFails
  <2>2. CASE q.pc \in {"dev_poll", "prod_refresh"} /\ Done(k)
    BY <1>4, <1>d, <2>2, SameStrandsNone DEF PollFails, HoldingSteps
  <2>3. QED
    BY <1>4, <2>1, <2>2 DEF PollFails
<1>5. CASE DevRecord(k)
  <2>1. VerdictsFor(q.saw) \subseteq DevVerdicts
    BY DEF VerdictsFor, DevVerdicts
  <2>2. NoneStranded
    BY <1>5, <1>t, <2>1, RecordStrands, WriteStrandsNone, SameStrandsNone DEF DevRecord
  <2>3. QED
    BY <1>5, <1>d, <2>2 DEF DevRecord, HoldingSteps
<1>6. CASE ProdTrigger(k)
  BY <1>6, <1>r, <1>p, Statuses DEF ProdTrigger, HoldingSteps
<1>7. CASE ProdTriggerFails(k)
  <2> DEFINE p == [q EXCEPT !.pc = "prod_abort"]
  <2>1. p \in RequestRecords /\ reqs' = [reqs EXCEPT ![k] = p] /\ p.of = q.of /\ p.pc \in HoldingSteps
    BY <1>7, <1>t, <1>p DEF ProdTriggerFails, GoTo, RequestRecords, HoldingSteps
  <2>2. QED
    BY <1>7, <1>m, <2>1 DEF ProdTriggerFails
\* The thread that finalizes names a url or ends the promotion.
<1>f. ASSUME NEW res, NEW u, u # NoBuild \/ res # "queued", Finalize(k, res, u)
      PROVE  Held'
  <2>1. ~Stranded(FinalizePromotion(changes[q.of], res, u))
    BY <1>f, <1>t, RecordStrands
  <2>2. CASE CanFinalizePromotion(changes[q.of])
    BY <1>f, <1>t, <1>d, <2>1, <2>2, WriteStrandsNone DEF Finalize
  <2>3. CASE ~CanFinalizePromotion(changes[q.of])
    <3>1. changes' = changes /\ ~Stranded(changes[q.of])
      BY <1>f, <2>3 DEF Finalize, CanFinalizePromotion, Stranded
    <3>2. QED
      BY <1>f, <1>d, <3>1, SameStrandsNone DEF Finalize
  <2>4. QED
    BY <2>2, <2>3
<1>8. CASE ProdAbort(k)
  BY <1>8, <1>f DEF ProdAbort
<1>9. CASE ProdRecord(k)
  <2>1. q.build \in Builds /\ q.build # NoBuild
    BY <1>9, SentinelAssumption DEF ProdRecord, Typed, ProdUrlsAreBuilds, SentinelAssumption
  <2>2. QED
    BY <1>9, <1>f, <2>1 DEF ProdRecord
<1>10. QED
  BY <1>1, <1>2, <1>3, <1>4, <1>5, <1>6, <1>7, <1>8, <1>9 DEF RequestStep

LEMMA RequestArrivesHeld ==
    ASSUME Typed, Held, NEW k \in Clients, NEW c \in Changes, RequestArrives(k, c)
    PROVE  Held'
<1>t. /\ changes \in [Changes -> Records]
      /\ reqs \in [Clients -> RequestRecords]
      /\ changes[c].devUrl \in AnyUrl /\ changes[c].prodUrl \in AnyUrl
  BY TypesOf DEF Typed, Records, AnyUrl
<1>r. ASSUME NEW pc \in {"dev_trigger", "prod_trigger", "dev_poll", "prod_refresh"}, NEW b \in AnyUrl,
             Request(k, pc, c, b, "QUEUED")
      PROVE  \E q \in RequestRecords : reqs' = [reqs EXCEPT ![k] = q] /\ q.pc = pc /\ q.of = c
  <2> DEFINE q == [pc |-> pc, of |-> c, build |-> b, saw |-> "QUEUED"]
  <2>1. q \in RequestRecords /\ reqs' = [reqs EXCEPT ![k] = q] /\ q.pc = pc /\ q.of = c
    BY <1>r, Statuses DEF Request, RequestRecords, RequestSteps
  <2>2. QED
    BY <2>1
<1>i. reqs[k].pc = "idle" => \A d \in Changes : ~Holds(k, d)
  BY DEF Holds, HoldingSteps
<1>1. CASE DevCheck(k, c) \/ RefreshRead(k, c)
  <2>1. \E q \in RequestRecords : reqs' = [reqs EXCEPT ![k] = q]
    BY <1>1, <1>r, <1>t DEF DevCheck, RefreshRead, AnyUrl
  <2>2. reqs[k].pc = "idle" /\ changes' = changes /\ restarts' = restarts
    BY <1>1 DEF DevCheck, RefreshRead
  <2>3. QED
    BY <2>1, <2>2, <1>i, OneMoves, SameStrandsNone
<1>2. ASSUME NEW by \in ReleaseOperators, PromoteReserve(k, c, by) PROVE Held'
  <2>1. \E q \in RequestRecords : reqs' = [reqs EXCEPT ![k] = q] /\ q.pc = "prod_trigger" /\ q.of = c
    BY <1>2, <1>r DEF PromoteReserve, AnyUrl
  <2>2. /\ reqs[k].pc = "idle" /\ restarts' = restarts
        /\ \A d \in Changes : d # c => changes'[d] = changes[d]
    BY <1>2, <1>t DEF PromoteReserve, Write
  <2>3. ASSUME NEW d \in Changes, Stranded(changes'[d]), restarts' = 0
        PROVE  \E j \in Clients : Holds(j, d)'
    <3>1. CASE d = c
      BY <3>1, <2>1, <1>t DEF Holds, HoldingSteps
    <3>2. CASE d # c
      <4>1. PICK j \in Clients : Holds(j, d)
        BY <2>2, <2>3, <3>2 DEF Held
      <4>2. j # k
        BY <4>1, <2>2, <1>i
      <4>3. QED
        BY <4>1, <4>2, <2>1, <1>t DEF Holds
    <3>3. QED
      BY <3>1, <3>2
  <2>4. QED
    BY <2>3 DEF Held
<1>3. QED
  BY <1>1, <1>2 DEF RequestArrives

\* What neither promotes nor touches the threads strands nothing.
LEMMA OthersStrandNone ==
    ASSUME Typed,
           \/ \E c \in Changes, d \in {"approve", "reject"}, by \in Actors : Decide(c, d, by)
           \/ \E c \in Changes, g \in Runs : StartAgents(c, g)
           \/ \E g \in Runs : AgentStep(g)
           \/ \E b \in Builds : BuildEnds(b)
    PROVE  NoneStranded /\ UNCHANGED <<reqs, restarts>>
<1>t. /\ changes \in [Changes -> Records]
      /\ \A g \in Runs : run[g].of \in Changes
      /\ \A c \in Changes : changes[c] \in Records
  BY TypesOf DEF Typed, RunRecords
<1>1. CASE \E c \in Changes, d \in {"approve", "reject"}, by \in Actors : Decide(c, d, by)
  BY <1>1, <1>t, RecordStrands, WriteStrandsNone DEF Decide
<1>2. CASE \E c \in Changes, g \in Runs : StartAgents(c, g)
  BY <1>2, <1>t, RecordStrands, WriteStrandsNone DEF StartAgents
<1>3. ASSUME NEW g \in Runs, AgentStep(g) PROVE NoneStranded /\ UNCHANGED <<reqs, restarts>>
  <2>c. ASSUME NEW to \in AgentStates, NEW d, NEW next, NEW onError, AgentCall(g, to, d, next, onError)
        PROVE  NoneStranded /\ UNCHANGED <<reqs, restarts>>
    BY <2>c, <1>t, RecordStrands, WriteStrandsNone, SameStrandsNone DEF AgentCall
  <2>a. {"hypothesis_ready", "escalated", "fixing", "verifying", "reviewing"} \subseteq AgentStates
    BY DEF AgentStates
  <2>1. CASE Investigated(g)
    BY <2>1, <2>c, <2>a DEF Investigated
  <2>2. CASE RecordProgress(g)
    <3>1. \A at \in DOMAIN ProgressAt : ProgressAt[at].to \in AgentStates
      BY <2>a DEF ProgressAt
    <3>2. QED
      BY <2>2, <3>1, <2>c DEF RecordProgress
  <2>3. CASE RetryOverBudget(g) \/ FixCrashed(g) \/ Escalate(g) \/ CrashNode(g)
    BY <2>3, <2>c, <2>a DEF RetryOverBudget, FixCrashed, Escalate, CrashNode
  <2>4. CASE Package(g)
    BY <2>4, <1>t, RecordStrands, WriteStrandsNone, SameStrandsNone DEF Package
  <2>5. CASE GoOn(g) \/ SendBack(g) \/ Retry(g) \/ NodeRaises(g)
    BY <2>5, SameStrandsNone DEF GoOn, SendBack, Retry, NodeRaises
  <2>6. QED
    BY <1>3, <2>1, <2>2, <2>3, <2>4, <2>5 DEF AgentStep
<1>4. CASE \E b \in Builds : BuildEnds(b)
  BY <1>4, SameStrandsNone DEF BuildEnds
<1>5. QED
  BY <1>1, <1>2, <1>3, <1>4

LEMMA NextHeld ==
    ASSUME Typed, Held, [Next]_vars
    PROVE  Held'
<1>1. CASE UNCHANGED vars
  BY <1>1, SameStrandsNone, HeldStays DEF vars, Holds
<1>2. CASE \/ \E c \in Changes, d \in {"approve", "reject"}, by \in Actors : Decide(c, d, by)
           \/ \E c \in Changes, g \in Runs : StartAgents(c, g)
           \/ \E g \in Runs : AgentStep(g)
           \/ \E b \in Builds : BuildEnds(b)
  BY <1>2, OthersStrandNone, HeldStays DEF Holds
<1>3. CASE Restart
  <2>1. restarts' # 0
    BY <1>3, TypesOf DEF Restart, Typed
  <2>2. QED
    BY <2>1 DEF Held
<1>4. QED
  BY <1>1, <1>2, <1>3, RequestStepHeld, RequestArrivesHeld DEF Next

LEMMA InitHeld == Init => Held
<1>1. \A o : ~Stranded(CreateChange(o))
  BY DEF Stranded, CreateChange
<1>2. QED
  BY <1>1 DEF Init, Held

\* Short of a restart, a reserved promotion without a url is in the hands of a live request: no
\* refusal, lost answer or race leaves a change in promoting that nobody will finalize.
THEOREM ReservationIsHeld == Spec => []ReservationHasOwner
<1>1. Typed /\ Held /\ [Next]_vars => Held'
  BY NextHeld
<1>2. Held => ReservationHasOwner
  BY DEF Held, Stranded, Holds, HoldingSteps, ReservationHasOwner
<1>3. QED
  BY InitHeld, <1>1, <1>2, RecordsInvariant, PTL DEF Spec

-----------------------------------------------------------------------------
(* The review screen. *)

\* What a record of the store offers, the store takes; a refresh may only lack the url of a
\* reservation.
LEMMA OfferIsTaken ==
    ASSUME NEW c \in Changes, NEW r \in Records, RecordOK(r), RecordGrounded(c, r),
           NEW mode \in AgentModes, NEW action \in Offered(r, mode)
    PROVE  Accepts(r, action) \/ (action = "refresh_status" /\ Stranded(r))
<1>1. CASE action = "run_agents"
  <2>1. r.agentRun # "running" /\ r.status = "pending_approval" /\ r.alert /\ r.state \in AgentStartStates
    BY <1>1 DEF Offered, Working, Undecided
  <2>2. MayMoveTo(r, "investigating")
    BY <2>1 DEF MayMoveTo, IsAllowed, TRANSITIONS, EDGES, AgentStartStates
  <2>3. QED
    BY <1>1, <2>1, <2>2 DEF Accepts, CanBeginAgentRun
<1>2. CASE action = "approve"
  BY <1>2 DEF Offered, ApprovalOpen, Undecided, Accepts, CanDecide
<1>3. CASE action = "reject"
  <2>1. r.status = "pending_approval"
    BY <1>3 DEF Offered, Undecided
  <2>2. r.state \in PRE_APPROVAL_STATES
    BY <2>1 DEF RecordOK
  <2>3. MayMoveTo(r, "closed_rejected")
    BY <2>2 DEF MayMoveTo, IsAllowed, TRANSITIONS
  <2>4. QED
    BY <1>3, <2>1, <2>3 DEF Accepts, CanDecide
<1>4. CASE action = "promote"
  BY <1>4 DEF Offered, PromotionOpen, Accepts, CanPromote
<1>5. CASE action = "refresh_status"
  <2>1. r.state \in {"dev_fix_in_progress", "promoting"}
    BY <1>5 DEF Offered
  <2>2. QED
    BY <1>5, <2>1 DEF RecordGrounded, Stranded, Accepts, Refreshable
<1>6. action \in {"run_agents", "approve", "reject", "promote", "refresh_status"}
  BY DEF Offered
<1>7. QED
  BY <1>1, <1>2, <1>3, <1>4, <1>5, <1>6

\* The inbox, the headline and the open actions are three readings of one record.
LEMMA InboxAgrees ==
    ASSUME NEW r \in Records, RecordOK(r)
    PROVE  /\ Attention(r) = "needs_approval"  => ApprovalOpen(r)
           /\ Attention(r) = "needs_promotion" => PromotionOpen(r)
           /\ Headline(r) = "waits_for_approval"  <=> Attention(r) = "needs_approval"
           /\ Headline(r) = "waits_for_promotion" <=> Attention(r) = "needs_promotion"
<1>1. r.status \in {"pending_approval", "approved", "rejected"}
  BY DEF Records
<1>2. r.state = "ready_for_prod" =>
        r.status = "pending_approval" \/ (r.status = "approved" /\ PolicyOK(r))
  BY <1>1 DEF RecordOK
<1>3. /\ Attention(r) = "needs_approval" <=>
            ~Working(r) /\ r.state = "ready_for_prod" /\ r.status = "pending_approval"
      /\ Attention(r) = "needs_promotion" <=>
            ~Working(r) /\ r.state = "ready_for_prod" /\ r.status # "pending_approval"
  BY DEF Attention
<1>4. /\ Headline(r) = "waits_for_approval" <=>
            ~Working(r) /\ r.state = "ready_for_prod" /\ r.status = "pending_approval"
      /\ Headline(r) = "waits_for_promotion" <=>
            ~Working(r) /\ r.state = "ready_for_prod" /\ r.status = "approved"
  <2>1. CASE r.status = "rejected"
    BY <2>1 DEF Headline
  <2>2. CASE r.status # "rejected" /\ r.state = "ready_for_prod"
    <3>1. CASE Working(r)
      BY <1>1, <2>2, <3>1 DEF Headline
    <3>2. CASE ~Working(r) /\ r.status = "approved"
      BY <2>2, <3>2 DEF Headline
    <3>3. CASE ~Working(r) /\ r.status = "pending_approval"
      BY <2>2, <3>3 DEF Headline
    <3>4. QED
      BY <1>1, <2>2, <3>1, <3>2, <3>3
  <2>3. CASE r.status # "rejected" /\ r.state # "ready_for_prod"
    <3>1. Headline(r) \in {"promoted_to_prod", "prod_promotion_failed", "promoting", "blocked_by_policy",
                           "agents_working", "escalated", "in_progress"}
      BY <2>3 DEF Headline
    <3>2. QED
      BY <2>3, <3>1
  <2>4. QED
    BY <2>1, <2>2, <2>3
<1>5. QED
  BY <1>2, <1>3, <1>4 DEF ApprovalOpen, PromotionOpen, Undecided

\* "The screen cannot offer something the server would refuse for a different reason"
\* (review.py:5): whatever races, what the screen offers on a record the server takes from that
\* record, and its inbox and headline say the same.
THEOREM ScreenIsHonest == Spec => []ScreenKeepsItsWord
<1>1. Typed /\ RecordsOK /\ Grounded /\ Held => ScreenKeepsItsWord
  <2> SUFFICES ASSUME Typed, RecordsOK, Grounded, Held, NEW c \in Changes
      PROVE  /\ \A mode \in AgentModes : \A action \in Offered(changes[c], mode) :
                    \/ Accepts(changes[c], action)
                    \/ action = "refresh_status" /\ (BeingPromoted(c) \/ restarts # 0)
             /\ Attention(changes[c]) = "needs_approval"  => ApprovalOpen(changes[c])
             /\ Attention(changes[c]) = "needs_promotion" => PromotionOpen(changes[c])
             /\ Headline(changes[c]) = "waits_for_approval"  <=> Attention(changes[c]) = "needs_approval"
             /\ Headline(changes[c]) = "waits_for_promotion" <=> Attention(changes[c]) = "needs_promotion"
    BY DEF ScreenKeepsItsWord
  <2>1. /\ changes[c] \in Records /\ RecordOK(changes[c]) /\ RecordGrounded(c, changes[c])
        /\ Stranded(changes[c]) => BeingPromoted(c) \/ restarts # 0
    BY TypesOf DEF Typed, RecordsOK, Grounded, RecordsGrounded, Held, Holds, HoldingSteps, BeingPromoted
  <2>2. QED
    BY <2>1, OfferIsTaken, InboxAgrees
<1>2. Typed /\ Held /\ [Next]_vars => Held'
  BY NextHeld
<1>3. Spec => []Held
  BY InitHeld, <1>2, RecordsInvariant, PTL DEF Spec
<1>4. QED
  BY <1>1, <1>3, RecordsInvariant, GroundedInvariant, PTL

-----------------------------------------------------------------------------
(* Nobody finalizes a promotion under the thread that is about to deploy it. *)
Deploying ==
    /\ \A k \in Clients, c \in Changes : AboutToDeploy(k) /\ reqs[k].of = c =>
          changes[c].state = "promoting"
    /\ \A k \in Clients, c \in Changes : reqs[k].pc = "prod_abort" /\ reqs[k].of = c =>
          Released(changes[c])
    /\ \A j, k \in Clients : AboutToDeploy(j) /\ reqs[k].pc = "prod_abort" => reqs[j].of # reqs[k].of

\* A record in promoting is left alone by everything but the finalize.
LEMMA PromotingIsLeftAlone ==
    ASSUME NEW r \in Records, RecordOK(r), r.state = "promoting"
    PROVE  /\ \A v \in DevVerdicts : ~CanRecordDev(r, v)
           /\ ~CanBeginAgentRun(r)
           /\ \A to \in AgentStates : ~CanRecordAgentStep(r, to)
           /\ ~CanFinishAgentRun(r)
           /\ \A d \in {"approve", "reject"} : ~CanDecide(r, d)
           /\ \A by : ~CanPromote(r, by)
           /\ RecoverInterruptedRun(r) = r
<1>1. r.status = "approved"
  BY DEF RecordOK, Records, PRE_APPROVAL_STATES
<1>2. \A to \in AgentStates : ~CanRecordAgentStep(r, to)
  BY <1>1, DecidedRefusesAgents
<1>3. RecoverInterruptedRun(r) = r
  BY <1>2 DEF RecoverInterruptedRun, AgentStates
<1>4. QED
  BY <1>1, <1>2, <1>3
  DEF CanRecordDev, CanBeginAgentRun, AgentStartStates, CanFinishAgentRun, CanDecide, CanPromote

PromotingStays == \A c \in Changes : changes[c].state = "promoting" => changes'[c].state = "promoting"

\* A step that starts no deployment of its own accord and finalizes nothing under one.
LEMMA DeployingStays ==
    ASSUME Typed, RecordsOK, Deploying, [Next]_vars,
           \A k \in Clients : AboutToDeploy(k)' => reqs'[k] = reqs[k],
           \A k \in Clients : reqs'[k].pc = "prod_abort" => reqs'[k] = reqs[k],
           \A c \in Changes : (\E k \in Clients : AboutToDeploy(k) /\ reqs[k].of = c) =>
                (changes[c].state = "promoting" => changes'[c].state = "promoting")
    PROVE  Deploying'
<1>1. \A c \in Changes : Released(changes[c]) => Released(changes'[c])
  BY NextRecordsOK
<1>2. \A k \in Clients : AboutToDeploy(k)' => AboutToDeploy(k) /\ reqs'[k] = reqs[k]
  BY DEF AboutToDeploy
<1>3. ASSUME NEW k \in Clients, NEW c \in Changes, AboutToDeploy(k)', reqs'[k].of = c
      PROVE  changes'[c].state = "promoting"
  BY <1>2, <1>3 DEF Deploying
<1>4. ASSUME NEW k \in Clients, NEW c \in Changes, reqs'[k].pc = "prod_abort", reqs'[k].of = c
      PROVE  Released(changes'[c])
  BY <1>1, <1>4 DEF Deploying
<1>5. ASSUME NEW j \in Clients, NEW k \in Clients, AboutToDeploy(j)', reqs'[k].pc = "prod_abort"
      PROVE  reqs'[j].of # reqs'[k].of
  BY <1>2, <1>5 DEF Deploying
<1>6. QED
  BY <1>3, <1>4, <1>5 DEF Deploying

LEMMA SameStaysPromoting == ASSUME UNCHANGED changes PROVE PromotingStays
  BY DEF PromotingStays

LEMMA RefusedStaysPromoting ==
    ASSUME Typed, NEW c \in Changes, NEW s, Write(c, s), changes[c].state # "promoting"
    PROVE  PromotingStays
  BY TypesOf DEF Typed, Write, PromotingStays

\* Decisions, runs, dev results and restarts leave a promotion alone.
LEMMA OthersLeavePromoting ==
    ASSUME Typed, RecordsOK,
           \/ \E k \in Clients : DevRecord(k)
           \/ \E c \in Changes, d \in {"approve", "reject"}, by \in Actors : Decide(c, d, by)
           \/ \E c \in Changes, g \in Runs : StartAgents(c, g)
           \/ \E g \in Runs : AgentStep(g)
           \/ Restart
    PROVE  PromotingStays
<1>t. /\ changes \in [Changes -> Records]
      /\ \A c \in Changes : changes[c] \in Records /\ RecordOK(changes[c])
      /\ \A g \in Runs : run[g].of \in Changes
      /\ \A k \in Clients : reqs[k].of \in Changes
  BY TypesOf DEF Typed, RecordsOK, RunRecords, RequestRecords
<1>1. ASSUME NEW k \in Clients, DevRecord(k) PROVE PromotingStays
  <2>1. \A v \in VerdictsFor(reqs[k].saw) : v \in DevVerdicts
    BY DEF VerdictsFor, DevVerdicts
  <2>2. QED
    BY <1>1, <1>t, <2>1, PromotingIsLeftAlone, RefusedStaysPromoting, SameStaysPromoting DEF DevRecord
<1>2. CASE \E c \in Changes, d \in {"approve", "reject"}, by \in Actors : Decide(c, d, by)
  BY <1>2, <1>t, PromotingIsLeftAlone, RefusedStaysPromoting DEF Decide
<1>3. CASE \E c \in Changes, g \in Runs : StartAgents(c, g)
  BY <1>3, <1>t, PromotingIsLeftAlone, RefusedStaysPromoting DEF StartAgents
<1>4. ASSUME NEW g \in Runs, AgentStep(g) PROVE PromotingStays
  <2>c. ASSUME NEW to \in AgentStates, NEW d, NEW next, NEW onError, AgentCall(g, to, d, next, onError)
        PROVE  PromotingStays
    BY <2>c, <1>t, PromotingIsLeftAlone, RefusedStaysPromoting, SameStaysPromoting DEF AgentCall
  <2>a. {"hypothesis_ready", "escalated", "fixing", "verifying", "reviewing"} \subseteq AgentStates
    BY DEF AgentStates
  <2>1. CASE Investigated(g)
    BY <2>1, <2>c, <2>a DEF Investigated
  <2>2. CASE RecordProgress(g)
    <3>1. \A at \in DOMAIN ProgressAt : ProgressAt[at].to \in AgentStates
      BY <2>a DEF ProgressAt
    <3>2. QED
      BY <2>2, <3>1, <2>c DEF RecordProgress
  <2>3. CASE RetryOverBudget(g) \/ FixCrashed(g) \/ Escalate(g) \/ CrashNode(g)
    BY <2>3, <2>c, <2>a DEF RetryOverBudget, FixCrashed, Escalate, CrashNode
  <2>4. CASE Package(g)
    BY <2>4, <1>t, PromotingIsLeftAlone, RefusedStaysPromoting, SameStaysPromoting DEF Package
  <2>5. CASE GoOn(g) \/ SendBack(g) \/ Retry(g) \/ NodeRaises(g)
    BY <2>5, SameStaysPromoting DEF GoOn, SendBack, Retry, NodeRaises
  <2>6. QED
    BY <1>4, <2>1, <2>2, <2>3, <2>4, <2>5 DEF AgentStep
<1>5. CASE Restart
  BY <1>5, <1>t, PromotingIsLeftAlone DEF Restart, PromotingStays
<1>6. QED
  BY <1>1, <1>2, <1>3, <1>4, <1>5

LEMMA NextDeploying ==
    ASSUME Typed, RecordsOK, OneDeployment, Grounded, Deploying, [Next]_vars
    PROVE  Deploying'
<1>t. /\ changes \in [Changes -> Records]
      /\ reqs \in [Clients -> RequestRecords]
      /\ \A k \in Clients : reqs[k] \in RequestRecords /\ reqs[k].of \in Changes
  BY TypesOf DEF Typed, RequestRecords
<1>d. ASSUME NEW k \in Clients, Done(k)
      PROVE  \A j \in Clients : /\ AboutToDeploy(j)' => reqs'[j] = reqs[j]
                                /\ reqs'[j].pc = "prod_abort" => reqs'[j] = reqs[j]
  BY <1>d, <1>t, NoRequestType DEF Done, AboutToDeploy
<1>s. PromotingStays => \A c \in Changes : (\E k \in Clients : AboutToDeploy(k) /\ reqs[k].of = c) =>
                              (changes[c].state = "promoting" => changes'[c].state = "promoting")
  BY DEF PromotingStays
<1>1. CASE UNCHANGED vars
  BY <1>1, <1>s, SameStaysPromoting, DeployingStays DEF vars
<1>2. ASSUME NEW k \in Clients, RequestStep(k) PROVE Deploying'
  <2>0. [Next]_vars
    BY <1>2 DEF Next
  <2>1. CASE DevTrigger(k) \/ ProdTrigger(k)
    BY <2>1, <2>0, <1>t, <1>s, SameStaysPromoting, DeployingStays
    DEF DevTrigger, ProdTrigger, Request, AboutToDeploy
  <2>2. CASE DevTriggerFails(k)
    BY <2>2, <2>0, <1>d, <1>s, SameStaysPromoting, DeployingStays DEF DevTriggerFails
  <2>3. CASE Poll(k)
    <3>1. \A j \in Clients : j # k => reqs'[j] = reqs[j]
      BY <2>3, <1>t DEF Poll
    <3>2. reqs'[k].pc \in {"dev_record", "prod_record"}
      BY <2>3, <1>t DEF Poll, RequestRecords
    <3>3. changes' = changes
      BY <2>3 DEF Poll
    <3>4. QED
      BY <3>1, <3>2, <3>3, <2>0, <1>s, SameStaysPromoting, DeployingStays DEF AboutToDeploy
  <2>4. CASE PollFails(k)
    <3>1. CASE GoTo(k, "prod_record")
      <4>1. \A j \in Clients : j # k => reqs'[j] = reqs[j]
        BY <3>1, <1>t DEF GoTo
      <4>2. reqs'[k].pc = "prod_record"
        BY <3>1, <1>t DEF GoTo, RequestRecords
      <4>3. QED
        BY <2>4, <4>1, <4>2, <2>0, <1>s, SameStaysPromoting, DeployingStays DEF PollFails, AboutToDeploy
    <3>2. CASE Done(k)
      BY <2>4, <3>2, <2>0, <1>d, <1>s, SameStaysPromoting, DeployingStays DEF PollFails
    <3>3. QED
      BY <2>4, <3>1, <3>2 DEF PollFails
  <2>5. CASE DevRecord(k)
    BY <2>5, <2>0, <1>d, <1>s, OthersLeavePromoting, DeployingStays DEF DevRecord
  <2>6. CASE ProdTriggerFails(k)
    <3>1. /\ AboutToDeploy(k) /\ changes' = changes
          /\ \A j \in Clients : j # k => reqs'[j] = reqs[j]
          /\ reqs'[k].pc = "prod_abort" /\ reqs'[k].of = reqs[k].of
      BY <2>6, <1>t DEF ProdTriggerFails, GoTo, AboutToDeploy, RequestRecords
    <3>2. Released(changes[reqs[k].of])
      BY <3>1, <1>t DEF OneDeployment
    <3>3. ASSUME NEW j \in Clients, NEW c \in Changes, AboutToDeploy(j)', reqs'[j].of = c
          PROVE  changes'[c].state = "promoting"
      BY <3>1, <3>3 DEF Deploying, AboutToDeploy
    <3>4. ASSUME NEW j \in Clients, NEW c \in Changes, reqs'[j].pc = "prod_abort", reqs'[j].of = c
          PROVE  Released(changes'[c])
      BY <3>1, <3>2, <3>4 DEF Deploying
    <3>5. ASSUME NEW i \in Clients, NEW j \in Clients, AboutToDeploy(i)', reqs'[j].pc = "prod_abort"
          PROVE  reqs'[i].of # reqs'[j].of
      BY <3>1, <3>5 DEF Deploying, OneDeployment, AboutToDeploy
    <3>6. QED
      BY <3>3, <3>4, <3>5 DEF Deploying
  <2>f. ASSUME NEW res, NEW u, Finalize(k, res, u),
               \A j \in Clients : AboutToDeploy(j) => reqs[j].of # reqs[k].of
        PROVE  Deploying'
    <3>1. \A c \in Changes : c # reqs[k].of => changes'[c] = changes[c]
      BY <2>f, <1>t DEF Finalize, Write
    <3>2. QED
      BY <2>f, <3>1, <2>0, <1>d, DeployingStays DEF Finalize
  <2>7. CASE ProdAbort(k)
    BY <2>7, <2>f DEF ProdAbort, Deploying
  <2>8. CASE ProdRecord(k)
    <3>1. IsBuild(reqs[k].build, "prod", reqs[k].of)
      BY <2>8, <1>t DEF ProdRecord, Grounded, RequestsGrounded, RequestGrounded
    <3>2. reqs[k].build \in BuildsOf(reqs[k].of, "prod")
      BY <3>1 DEF IsBuild, BuildsOf
    <3>3. \A j \in Clients : AboutToDeploy(j) => reqs[j].of # reqs[k].of
      BY <3>2, <1>t DEF OneDeployment
    <3>4. QED
      BY <2>8, <2>f, <3>3 DEF ProdRecord
  <2>9. QED
    BY <1>2, <2>1, <2>2, <2>3, <2>4, <2>5, <2>6, <2>7, <2>8 DEF RequestStep
<1>3. ASSUME NEW k \in Clients, NEW c \in Changes, RequestArrives(k, c) PROVE Deploying'
  <2>0. [Next]_vars
    BY <1>3 DEF Next
  <2>1. CASE DevCheck(k, c) \/ RefreshRead(k, c)
    BY <2>1, <2>0, <1>t, <1>s, SameStaysPromoting, DeployingStays
    DEF DevCheck, RefreshRead, Request, AboutToDeploy
  <2>2. ASSUME NEW by \in ReleaseOperators, PromoteReserve(k, c, by) PROVE Deploying'
    <3>1. ~Released(changes[c]) /\ changes[c] \in Records
      BY <2>2, <1>t DEF PromoteReserve, CanPromote, Released, PromotionOver
    <3>2. /\ changes'[c].state = "promoting"
          /\ \A d \in Changes : d # c => changes'[d] = changes[d]
          /\ reqs'[k].pc = "prod_trigger" /\ reqs'[k].of = c
          /\ \A j \in Clients : j # k => reqs'[j] = reqs[j]
      BY <2>2, <3>1, <1>t DEF PromoteReserve, Write, BeginPromotion, Request, Records
    <3>3. ASSUME NEW j \in Clients, NEW d \in Changes, AboutToDeploy(j)', reqs'[j].of = d
          PROVE  changes'[d].state = "promoting"
      BY <3>2, <3>3 DEF Deploying, AboutToDeploy
    <3>4. ASSUME NEW j \in Clients, NEW d \in Changes, reqs'[j].pc = "prod_abort", reqs'[j].of = d
          PROVE  j # k /\ d # c /\ Released(changes'[d])
      BY <3>1, <3>2, <3>4 DEF Deploying
    <3>5. ASSUME NEW i \in Clients, NEW j \in Clients, AboutToDeploy(i)', reqs'[j].pc = "prod_abort"
          PROVE  reqs'[i].of # reqs'[j].of
      <4>1. reqs'[j] = reqs[j] /\ reqs[j].of # c /\ reqs[j].pc = "prod_abort"
        BY <3>1, <3>2, <3>5, <1>t DEF Deploying
      <4>2. QED
        BY <3>2, <3>5, <4>1 DEF Deploying, AboutToDeploy
    <3>6. QED
      BY <3>3, <3>4, <3>5 DEF Deploying
  <2>3. QED
    BY <1>3, <2>1, <2>2 DEF RequestArrives
<1>4. ASSUME Next,
             \/ \E c \in Changes, d \in {"approve", "reject"}, by \in Actors : Decide(c, d, by)
             \/ \E c \in Changes, g \in Runs : StartAgents(c, g)
             \/ \E g \in Runs : AgentStep(g)
             \/ \E b \in Builds : BuildEnds(b)
      PROVE  Deploying'
  <2>1. reqs' = reqs
    BY <1>4, OthersStrandNone
  <2>2. PromotingStays
    BY <1>4, OthersLeavePromoting, SameStaysPromoting DEF BuildEnds
  <2>3. QED
    BY <1>4, <2>1, <2>2, <1>s, DeployingStays
<1>5. ASSUME Next, Restart PROVE Deploying'
  <2>1. \A k \in Clients : reqs'[k].pc = "idle"
    BY <1>5, NoRequestType DEF Restart
  <2>2. QED
    BY <2>1 DEF Deploying, AboutToDeploy
<1>6. QED
  BY <1>1, <1>2, <1>3, <1>4, <1>5 DEF Next

LEMMA InitDeploying == Init => Deploying
<1>1. Init => \A k \in Clients : reqs[k].pc = "idle"
  BY NoRequestType DEF Init
<1>2. QED
  BY <1>1 DEF Deploying, AboutToDeploy

-----------------------------------------------------------------------------
(* What the gate sees. *)
Landed(c) == {b \in BuildsOf(c, "prod") : builds[b].status = "SUCCESS"}

GateMap == [c \in Changes |-> GateOf(changes[c])]
GoodMap == [c \in Changes |-> PolicyOK(changes[c])]
ApproverMap == [c \in Changes |-> changes[c].decidedBy]
DeployMap == [c \in Changes |-> BuildsOf(c, "prod")]
LandedMap == [c \in Changes |-> {b \in BuildsOf(c, "prod") : builds[b].status = "SUCCESS"}]

GateStep == [Gate!Next]_(Gate!gateVars)

SameBuilds ==
    \A c \in Changes : BuildsOf(c, "prod")' = BuildsOf(c, "prod") /\ Landed(c)' = Landed(c)

\* Evidence of open changes is reworked, or the gate sees nothing.
LEMMA ReworkStep ==
    ASSUME SameBuilds,
           \A c \in Changes : /\ GateOf(changes'[c]) = GateOf(changes[c])
                              /\ changes'[c].decidedBy = changes[c].decidedBy
                              /\ GateOf(changes[c]) # "open" => PolicyOK(changes'[c]) = PolicyOK(changes[c])
    PROVE  GateStep
<1>1. UNCHANGED <<GateMap, ApproverMap, DeployMap, LandedMap>>
  BY DEF GateMap, ApproverMap, DeployMap, LandedMap, SameBuilds, Landed
<1>2. GoodMap' \in [Changes -> BOOLEAN]
  BY DEF GoodMap, PolicyOK
<1>3. \A c \in Changes : GateMap[c] # "open" => GoodMap'[c] = GoodMap[c]
  BY DEF GateMap, GoodMap
<1>4. Gate!Rework
  BY <1>1, <1>2, <1>3 DEF Gate!Rework, GateMap, GoodMap, ApproverMap, DeployMap, LandedMap
<1>5. QED
  BY <1>4 DEF GateStep, Gate!Next

\* One record is written: what the gate sees of it, and of the others.
LEMMA GateWrite ==
    ASSUME Typed, SameBuilds, NEW c \in Changes, NEW s, Write(c, s)
    PROVE  /\ GateMap' = [GateMap EXCEPT ![c] = GateOf(s)]
           /\ GoodMap' = [GoodMap EXCEPT ![c] = PolicyOK(s)]
           /\ ApproverMap' = [ApproverMap EXCEPT ![c] = s.decidedBy]
           /\ UNCHANGED <<DeployMap, LandedMap>>
           /\ GateMap[c] = GateOf(changes[c]) /\ GoodMap[c] = PolicyOK(changes[c])
           /\ ApproverMap[c] = changes[c].decidedBy
<1>1. changes \in [Changes -> Records] /\ changes' = [changes EXCEPT ![c] = s]
  BY TypesOf DEF Typed, Write
<1>2. GateMap' = [GateMap EXCEPT ![c] = GateOf(s)]
  BY <1>1 DEF GateMap
<1>3. GoodMap' = [GoodMap EXCEPT ![c] = PolicyOK(s)]
  BY <1>1 DEF GoodMap
<1>4. ApproverMap' = [ApproverMap EXCEPT ![c] = s.decidedBy]
  BY <1>1 DEF ApproverMap
<1>5. UNCHANGED <<DeployMap, LandedMap>>
  BY DEF DeployMap, LandedMap, SameBuilds, Landed
<1>6. QED
  BY <1>2, <1>3, <1>4, <1>5 DEF GateMap, GoodMap, ApproverMap

\* Parts that the new record does not change stay as they are.
LEMMA GateKeeps ==
    ASSUME Typed, NEW c \in Changes, NEW s, Write(c, s)
    PROVE  /\ PolicyOK(s) = PolicyOK(changes[c]) => GoodMap' = GoodMap
           /\ s.decidedBy = changes[c].decidedBy => ApproverMap' = ApproverMap
<1>1. \A d \in Changes : changes'[d] = IF d = c THEN s ELSE changes[d]
  BY TypesOf DEF Typed, Write
<1>2. ASSUME PolicyOK(s) = PolicyOK(changes[c]) PROVE GoodMap' = GoodMap
  <2>1. \A d \in Changes : PolicyOK(changes'[d]) = PolicyOK(changes[d])
    BY <1>1, <1>2
  <2>2. QED
    BY <2>1 DEF GoodMap
<1>3. ASSUME s.decidedBy = changes[c].decidedBy PROVE ApproverMap' = ApproverMap
  <2>1. \A d \in Changes : changes'[d].decidedBy = changes[d].decidedBy
    BY <1>1, <1>3
  <2>2. QED
    BY <2>1 DEF ApproverMap
<1>4. QED
  BY <1>2, <1>3

LEMMA SameBuildsIfUnchanged == ASSUME UNCHANGED builds PROVE SameBuilds
  BY DEF SameBuilds, BuildsOf, Landed

LEMMA StutterStep == ASSUME UNCHANGED changes, SameBuilds PROVE GateStep
  BY ReworkStep

LEMMA DecideStep ==
    ASSUME Typed, RecordsOK, NEW c \in Changes, NEW d \in {"approve", "reject"}, NEW by \in Actors,
           Decide(c, d, by)
    PROVE  GateStep
<1> DEFINE r == changes[c]
           s == ApplyDecision(r, d, by)
<1>1. r \in Records /\ r.status = "pending_approval" /\ Write(c, s) /\ UNCHANGED builds
  BY TypesOf DEF Typed, Decide, CanDecide
<1>2. SameBuilds
  BY <1>1, SameBuildsIfUnchanged
<1>3. GateOf(r) = "open"
  BY <1>1 DEF GateOf
<1>4. s.decidedBy = by /\ PolicyOK(s) = PolicyOK(r)
  BY <1>1 DEF ApplyDecision, Records, PolicyOK
<1>5. GoodMap' = GoodMap
  BY <1>1, <1>2, <1>4, GateKeeps
<1>6. CASE d = "approve" /\ PolicyOK(r)
  <2>1. GateOf(s) = "approved"
    BY <1>1, <1>6 DEF ApplyDecision, Records, GateOf
  <2>2. /\ GoodMap[c] /\ GateMap[c] = "open"
        /\ GateMap' = [GateMap EXCEPT ![c] = "approved"]
        /\ ApproverMap' = [ApproverMap EXCEPT ![c] = by]
        /\ UNCHANGED <<GoodMap, DeployMap, LandedMap>>
    BY <1>1, <1>2, <1>3, <1>4, <1>5, <1>6, <2>1, GateWrite
  <2>3. Gate!Approve(c, by)
    BY <2>2 DEF Gate!Approve, Gate!MoveTo, GateMap, GoodMap, ApproverMap, DeployMap, LandedMap
  <2>4. QED
    BY <2>3 DEF GateStep, Gate!Next
<1>7. CASE ~(d = "approve" /\ PolicyOK(r))
  <2>1. GateOf(s) = "closed"
    BY <1>1, <1>7 DEF ApplyDecision, Records, GateOf
  <2>2. /\ GateMap[c] = "open"
        /\ GateMap' = [GateMap EXCEPT ![c] = "closed"]
        /\ ApproverMap' = [ApproverMap EXCEPT ![c] = by]
        /\ UNCHANGED <<GoodMap, DeployMap, LandedMap>>
    BY <1>1, <1>2, <1>3, <1>4, <1>5, <2>1, GateWrite
  <2>3. Gate!TurnDown(c, by)
    BY <2>2 DEF Gate!TurnDown, Gate!MoveTo, GateMap, GoodMap, ApproverMap, DeployMap, LandedMap
  <2>4. QED
    BY <2>3 DEF GateStep, Gate!Next
<1>8. QED
  BY <1>6, <1>7

LEMMA ReserveStep ==
    ASSUME Typed, NEW k \in Clients, NEW c \in Changes, NEW by \in ReleaseOperators,
           PromoteReserve(k, c, by)
    PROVE  GateStep
<1> DEFINE r == changes[c]
           s == BeginPromotion(r, by)
<1>1. r \in Records /\ CanPromote(r, by) /\ Write(c, s) /\ UNCHANGED builds
  BY TypesOf DEF Typed, PromoteReserve
<1>2. SameBuilds
  BY <1>1, SameBuildsIfUnchanged
<1>3. GateOf(r) = "approved" /\ GateOf(s) = "deploying"
  BY <1>1 DEF CanPromote, GateOf, BeginPromotion, Records
<1>4. s.decidedBy = r.decidedBy /\ PolicyOK(s) = PolicyOK(r)
  BY <1>1 DEF BeginPromotion, Records, PolicyOK
<1>5. UNCHANGED <<GoodMap, ApproverMap>>
  BY <1>1, <1>2, <1>4, GateKeeps
<1>6. SeparateDuties => by # ApproverMap[c]
  BY <1>1 DEF CanPromote, ApproverMap
<1>7. /\ GateMap[c] = "approved"
      /\ GateMap' = [GateMap EXCEPT ![c] = "deploying"]
      /\ UNCHANGED <<DeployMap, LandedMap>>
  BY <1>1, <1>2, <1>3, GateWrite
<1>8. Gate!Reserve(c, by)
  BY <1>5, <1>6, <1>7
  DEF Gate!Reserve, Gate!MoveTo, GateMap, GoodMap, ApproverMap, DeployMap, LandedMap
<1>9. QED
  BY <1>8 DEF GateStep, Gate!Next

\* A production build starts, for the thread that holds the reservation.
LEMMA DeployStep ==
    ASSUME Typed, RecordsOK, OneDeployment, Deploying, NEW k \in Clients, AboutToDeploy(k),
           UNCHANGED changes, NEW b \in Builds, NEW c \in Changes, reqs[k].of = c, StartBuild(b, "prod", c)
    PROVE  GateStep
<1>1. builds \in [Builds -> BuildRecords] /\ changes[c] \in Records /\ RecordOK(changes[c])
  BY TypesOf DEF Typed, RecordsOK
<1>2. BuildsOf(c, "prod") = {} /\ changes[c].state = "promoting"
  BY DEF OneDeployment, Deploying
<1>3. GateMap[c] = "deploying" /\ DeployMap[c] = {}
  <2>1. changes[c].status = "approved"
    BY <1>1, <1>2 DEF RecordOK, Records, PRE_APPROVAL_STATES
  <2>2. GateOf(changes[c]) = "deploying"
    BY <1>2, <2>1 DEF GateOf
  <2>3. QED
    BY <1>2, <2>2 DEF GateMap, DeployMap
<1>4. \A d \in Changes : BuildsOf(d, "prod")' = IF d = c THEN {b} ELSE BuildsOf(d, "prod")
  BY <1>1, <1>2 DEF BuildsOf, StartBuild
<1>5. \A d \in Changes : Landed(d)' = Landed(d)
  <2>1. Landed(c) = {} /\ Landed(c)' = {}
    BY <1>1, <1>2, <1>4 DEF Landed, StartBuild
  <2>2. ASSUME NEW d \in Changes, d # c PROVE Landed(d)' = Landed(d)
    BY <1>1, <1>4, <2>2 DEF Landed, BuildsOf, StartBuild
  <2>3. QED
    BY <2>1, <2>2
<1>6. UNCHANGED <<GateMap, GoodMap, ApproverMap>>
  BY DEF GateMap, GoodMap, ApproverMap
<1>7. LandedMap' = LandedMap
  BY <1>5 DEF Landed, LandedMap
<1>8. DeployMap' = [DeployMap EXCEPT ![c] = {b}]
  BY <1>4 DEF DeployMap
<1>9. Gate!StartDeploy(c, b)
  BY <1>3, <1>6, <1>7, <1>8 DEF Gate!StartDeploy, GateMap, GoodMap, ApproverMap, DeployMap, LandedMap
<1>10. QED
  BY <1>9 DEF GateStep, Gate!Next

LEMMA DevBuildStep ==
    ASSUME Typed, NEW b \in Builds, NEW c \in Changes, StartBuild(b, "dev", c)
    PROVE  SameBuilds
<1>1. builds \in [Builds -> BuildRecords]
  BY TypesOf DEF Typed
<1>2. \A d \in Changes : BuildsOf(d, "prod")' = BuildsOf(d, "prod")
  BY <1>1 DEF BuildsOf, StartBuild
<1>3. \A d \in Changes : Landed(d)' = Landed(d)
  BY <1>1, <1>2 DEF BuildsOf, Landed, StartBuild
<1>4. QED
  BY <1>2, <1>3 DEF SameBuilds

LEMMA BuildEndStep ==
    ASSUME Typed, NEW b \in Builds, BuildEnds(b)
    PROVE  GateStep
<1>1. /\ builds \in [Builds -> BuildRecords] /\ builds[b].of \in Changes
      /\ UNCHANGED changes
  BY TypesOf DEF Typed, BuildEnds, BuildRecords
<1>2. PICK outcome \in BuildOutcomes : builds' = [builds EXCEPT ![b].status = outcome]
  BY DEF BuildEnds
<1>3. \A d \in Changes : BuildsOf(d, "prod")' = BuildsOf(d, "prod")
  BY <1>1, <1>2 DEF BuildsOf, BuildRecords
<1>4. builds[b].status = "RUNNING"
  BY DEF BuildEnds
<1>5. CASE outcome = "SUCCESS" /\ builds[b].kind = "prod"
  <2>1. PICK c \in Changes : builds[b].of = c
    BY <1>1
  <2>2. b \in BuildsOf(c, "prod") /\ b \notin Landed(c)
    BY <1>4, <1>5, <2>1 DEF BuildsOf, Landed
  <2>3. \A d \in Changes : Landed(d)' = IF d = c THEN Landed(d) \union {b} ELSE Landed(d)
    BY <1>1, <1>2, <1>3, <1>5, <2>1, <2>2 DEF Landed, BuildsOf, BuildRecords
  <2>4. LandedMap' = [LandedMap EXCEPT ![c] = @ \union {b}]
    BY <2>3 DEF Landed, LandedMap
  <2>5. UNCHANGED <<GateMap, GoodMap, ApproverMap, DeployMap>>
    BY <1>1, <1>3 DEF GateMap, GoodMap, ApproverMap, DeployMap
  <2>6. b \in DeployMap[c] \ LandedMap[c]
    BY <2>2 DEF DeployMap, LandedMap, Landed
  <2>7. Gate!Land(c, b)
    BY <2>4, <2>5, <2>6 DEF Gate!Land, GateMap, GoodMap, ApproverMap, DeployMap, LandedMap
  <2>8. QED
    BY <2>7 DEF GateStep, Gate!Next
<1>6. CASE ~(outcome = "SUCCESS" /\ builds[b].kind = "prod")
  <2>1. \A d \in Changes : Landed(d)' = Landed(d)
    <3>1. \A x \in Builds : /\ x # b => builds'[x] = builds[x]
                            /\ builds'[b].status = outcome
      BY <1>1, <1>2 DEF BuildRecords
    <3>2. CASE outcome # "SUCCESS"
      BY <1>3, <1>4, <3>1, <3>2 DEF Landed, BuildsOf
    <3>3. CASE builds[b].kind # "prod"
      BY <1>3, <3>1, <3>3 DEF Landed, BuildsOf
    <3>4. QED
      BY <1>6, <3>2, <3>3
  <2>2. QED
    BY <1>1, <1>3, <2>1, StutterStep DEF SameBuilds
<1>7. QED
  BY <1>5, <1>6

LEMMA FinalizeStep ==
    ASSUME Typed, RecordsOK, NEW k \in Clients, NEW res \in {"success", "queued", "failed"}, NEW u,
           res = "success" => IsBuild(u, "prod", reqs[k].of) /\ Succeeded(u),
           Finalize(k, res, u)
    PROVE  GateStep
<1> DEFINE r == changes[reqs[k].of]
           s == FinalizePromotion(r, res, u)
<1>1. PICK c \in Changes : reqs[k].of = c
  BY TypesOf DEF Typed, RequestRecords
<1>2. r \in Records /\ RecordOK(r) /\ UNCHANGED builds
  BY <1>1, TypesOf DEF Typed, RecordsOK, Finalize
<1>3. SameBuilds
  BY <1>2, SameBuildsIfUnchanged
<1>4. CASE ~CanFinalizePromotion(r)
  BY <1>3, <1>4, StutterStep DEF Finalize
<1>5. CASE CanFinalizePromotion(r)
  <2>1. Write(c, s)
    BY <1>1, <1>5 DEF Finalize
  <2>2. r.state = "promoting" /\ r.status = "approved" /\ s.status = "approved"
    BY <1>2, <1>5 DEF CanFinalizePromotion, RecordOK, Records, PRE_APPROVAL_STATES, FinalizePromotion
  <2>3. s.decidedBy = r.decidedBy /\ PolicyOK(s) = PolicyOK(r) /\ GateOf(r) = "deploying"
    BY <1>2, <2>2 DEF FinalizePromotion, Records, PolicyOK, GateOf
  <2>4. UNCHANGED <<GoodMap, ApproverMap>>
    BY <1>1, <2>1, <2>3, GateKeeps
  <2>5. /\ GateMap[c] = "deploying" /\ GateMap' = [GateMap EXCEPT ![c] = GateOf(s)]
        /\ UNCHANGED <<DeployMap, LandedMap>>
    BY <1>1, <1>3, <2>1, <2>3, GateWrite
  <2>6. CASE res = "queued"
    <3>1. GateOf(s) = "deploying"
      BY <1>2, <2>2, <2>6 DEF FinalizePromotion, Records, GateOf
    <3>2. \A d \in Changes : changes'[d] = IF d = c THEN s ELSE changes[d]
      BY <2>1, TypesOf DEF Typed, Write
    <3>3. QED
      BY <1>1, <1>3, <2>3, <3>1, <3>2, ReworkStep
  <2>7. CASE res = "success"
    <3>1. GateOf(s) = "live"
      BY <1>2, <2>2, <2>7 DEF FinalizePromotion, Records, GateOf
    <3>2. LandedMap[c] # {}
      BY <1>1, <2>7 DEF LandedMap, BuildsOf, IsBuild, Succeeded
    <3>3. Gate!GoLive(c)
      BY <2>4, <2>5, <3>1, <3>2
      DEF Gate!GoLive, Gate!MoveTo, GateMap, GoodMap, ApproverMap, DeployMap, LandedMap
    <3>4. QED
      BY <3>3 DEF GateStep, Gate!Next
  <2>8. CASE res = "failed"
    <3>1. GateOf(s) = "failed"
      BY <1>2, <2>2, <2>8 DEF FinalizePromotion, Records, GateOf
    <3>2. Gate!GiveUp(c)
      BY <2>4, <2>5, <3>1
      DEF Gate!GiveUp, Gate!MoveTo, GateMap, GoodMap, ApproverMap, DeployMap, LandedMap
    <3>3. QED
      BY <3>2 DEF GateStep, Gate!Next
  <2>9. QED
    BY <2>6, <2>7, <2>8
<1>6. QED
  BY <1>4, <1>5

\* A write to a change still open that leaves it open.
OpenWrite(r, s) ==
    s = r \/ (r.status = "pending_approval" /\ s.status = "pending_approval" /\ s.decidedBy = r.decidedBy)

LEMMA OpenStep ==
    ASSUME SameBuilds, \A c \in Changes : OpenWrite(changes[c], changes'[c])
    PROVE  GateStep
<1>1. ASSUME NEW r, NEW s, OpenWrite(r, s)
      PROVE  /\ GateOf(s) = GateOf(r) /\ s.decidedBy = r.decidedBy
             /\ GateOf(r) # "open" => PolicyOK(s) = PolicyOK(r)
  BY <1>1 DEF OpenWrite, GateOf
<1>2. QED
  BY <1>1, ReworkStep

LEMMA OpenOperations ==
    ASSUME NEW r \in Records, RecordOK(r)
    PROVE  /\ \A u, j, v : CanRecordDev(r, v) => OpenWrite(r, WithDevExecution(r, u, j, v))
           /\ CanBeginAgentRun(r) => OpenWrite(r, BeginAgentRun(r))
           /\ \A to \in AgentStates : \A d :
                 CanRecordAgentStep(r, to) => OpenWrite(r, RecordAgentStep(r, to, d))
           /\ CanFinishAgentRun(r) => OpenWrite(r, FinishAgentRun(r))
           /\ OpenWrite(r, RecoverInterruptedRun(r))
<1>1. \A u, j, v : CanRecordDev(r, v) => OpenWrite(r, WithDevExecution(r, u, j, v))
  BY DEF Records, CanRecordDev, WithDevExecution, OpenWrite
<1>2. CanBeginAgentRun(r) => OpenWrite(r, BeginAgentRun(r))
  BY DEF Records, CanBeginAgentRun, BeginAgentRun, OpenWrite
<1>3. \A to \in AgentStates : \A d : CanRecordAgentStep(r, to) => OpenWrite(r, RecordAgentStep(r, to, d))
  <2>1. \A to \in AgentStates : CanRecordAgentStep(r, to) => r.status = "pending_approval"
    BY DecidedRefusesAgents
  <2>2. QED
    BY <2>1 DEF Records, RecordAgentStep, OpenWrite
<1>4. CanFinishAgentRun(r) => OpenWrite(r, FinishAgentRun(r))
  BY DEF Records, CanFinishAgentRun, CanRecordDev, FinishAgentRun, WithDevExecution, OpenWrite
<1>5. OpenWrite(r, RecoverInterruptedRun(r))
  <2>1. "escalated" \in AgentStates
    BY DEF AgentStates
  <2>2. CASE CanRecordAgentStep(r, "escalated")
    BY <1>3, <2>1, <2>2 DEF RecoverInterruptedRun
  <2>3. CASE ~CanRecordAgentStep(r, "escalated")
    BY <2>3 DEF RecoverInterruptedRun, OpenWrite
  <2>4. QED
    BY <2>2, <2>3
<1>6. QED
  BY <1>1, <1>2, <1>3, <1>4, <1>5

LEMMA OneOpenWrite ==
    ASSUME Typed, SameBuilds, NEW c \in Changes, NEW s, Write(c, s), OpenWrite(changes[c], s)
    PROVE  GateStep
<1>1. \A d \in Changes : changes'[d] = IF d = c THEN s ELSE changes[d]
  BY TypesOf DEF Typed, Write
<1>2. \A d \in Changes : OpenWrite(changes[d], changes'[d])
  BY <1>1 DEF OpenWrite
<1>3. QED
  BY <1>2, OpenStep

-----------------------------------------------------------------------------
(* Every step of the system is a step of the gate, or one it does not see. *)
LEMMA RequestGateStep ==
    ASSUME Typed, RecordsOK, OneDeployment, Grounded, Deploying, NEW k \in Clients, RequestStep(k)
    PROVE  GateStep
<1> DEFINE q == reqs[k]
<1>t. q \in RequestRecords /\ q.of \in Changes /\ changes[q.of] \in Records
  BY TypesOf DEF Typed, RequestRecords
<1>1. CASE DevTrigger(k)
  BY <1>1, <1>t, DevBuildStep, StutterStep DEF DevTrigger
<1>2. CASE DevTriggerFails(k)
  BY <1>2, <1>t, DevBuildStep, SameBuildsIfUnchanged, StutterStep DEF DevTriggerFails
<1>3. CASE Poll(k) \/ PollFails(k)
  BY <1>3, SameBuildsIfUnchanged, StutterStep DEF Poll, PollFails
<1>4. CASE DevRecord(k)
  <2>1. RecordOK(changes[q.of]) /\ SameBuilds
    BY <1>4, <1>t, SameBuildsIfUnchanged DEF RecordsOK, DevRecord
  <2>2. QED
    BY <1>4, <1>t, <2>1, OpenOperations, OneOpenWrite, StutterStep DEF DevRecord
<1>5. CASE ProdTrigger(k) \/ ProdTriggerFails(k)
  <2>1. AboutToDeploy(k) /\ UNCHANGED changes
    BY <1>5 DEF ProdTrigger, ProdTriggerFails, AboutToDeploy
  <2>2. UNCHANGED builds \/ \E b \in Builds : StartBuild(b, "prod", q.of)
    BY <1>5 DEF ProdTrigger, ProdTriggerFails
  <2>3. QED
    BY <1>t, <2>1, <2>2, DeployStep, SameBuildsIfUnchanged, StutterStep
<1>6. CASE ProdAbort(k)
  BY <1>6, FinalizeStep DEF ProdAbort
<1>7. CASE ProdRecord(k)
  <2>1. /\ PromotionResultFor(q.saw) \in {"success", "queued", "failed"}
        /\ PromotionResultFor(q.saw) = "success" => q.saw = "SUCCESS"
    BY DEF PromotionResultFor
  <2>2. IsBuild(q.build, "prod", q.of) /\ (q.saw = "SUCCESS" => Succeeded(q.build))
    BY <1>7, <1>t DEF ProdRecord, Grounded, RequestsGrounded, RequestGrounded
  <2>3. QED
    BY <1>7, <2>1, <2>2, FinalizeStep DEF ProdRecord
<1>8. QED
  BY <1>1, <1>2, <1>3, <1>4, <1>5, <1>6, <1>7 DEF RequestStep

LEMMA AgentGateStep ==
    ASSUME Typed, RecordsOK, NEW g \in Runs, (\E c \in Changes : StartAgents(c, g)) \/ AgentStep(g)
    PROVE  GateStep
<1>t. /\ run[g].of \in Changes
      /\ \A c \in Changes : changes[c] \in Records /\ RecordOK(changes[c])
  BY TypesOf DEF Typed, RunRecords, RecordsOK
<1>b. SameBuilds
  BY AgentsGrounded, SameBuildsIfUnchanged
<1>0. CASE \E c \in Changes : StartAgents(c, g)
  BY <1>0, <1>b, <1>t, OpenOperations, OneOpenWrite DEF StartAgents
<1>c. ASSUME NEW to \in AgentStates, NEW d, NEW next, NEW onError, AgentCall(g, to, d, next, onError)
      PROVE  GateStep
  BY <1>c, <1>b, <1>t, OpenOperations, OneOpenWrite, StutterStep DEF AgentCall
<1>a. {"hypothesis_ready", "escalated", "fixing", "verifying", "reviewing"} \subseteq AgentStates
  BY DEF AgentStates
<1>1. CASE Investigated(g)
  BY <1>1, <1>c, <1>a DEF Investigated
<1>2. CASE RecordProgress(g)
  <2>1. \A at \in DOMAIN ProgressAt : ProgressAt[at].to \in AgentStates
    BY <1>a DEF ProgressAt
  <2>2. QED
    BY <1>2, <2>1, <1>c DEF RecordProgress
<1>3. CASE RetryOverBudget(g) \/ FixCrashed(g) \/ Escalate(g) \/ CrashNode(g)
  BY <1>3, <1>c, <1>a DEF RetryOverBudget, FixCrashed, Escalate, CrashNode
<1>4. CASE Package(g)
  BY <1>4, <1>b, <1>t, OpenOperations, OneOpenWrite, StutterStep DEF Package
<1>5. CASE GoOn(g) \/ SendBack(g) \/ Retry(g) \/ NodeRaises(g)
  BY <1>5, <1>b, StutterStep DEF GoOn, SendBack, Retry, NodeRaises
<1>6. QED
  BY <1>0, <1>1, <1>2, <1>3, <1>4, <1>5 DEF AgentStep

LEMMA NextGateStep ==
    ASSUME Typed, RecordsOK, OneDeployment, Grounded, Deploying, [Next]_vars
    PROVE  GateStep
<1>1. CASE UNCHANGED vars
  BY <1>1, SameBuildsIfUnchanged, StutterStep DEF vars
<1>2. ASSUME NEW k \in Clients, NEW c \in Changes, RequestArrives(k, c) PROVE GateStep
  <2>1. CASE DevCheck(k, c) \/ RefreshRead(k, c)
    BY <2>1, SameBuildsIfUnchanged, StutterStep DEF DevCheck, RefreshRead
  <2>2. QED
    BY <1>2, <2>1, ReserveStep DEF RequestArrives
<1>3. CASE Restart
  <2>1. \A c \in Changes : OpenWrite(changes[c], changes'[c])
    BY <1>3, TypesOf, OpenOperations DEF Restart, Typed, RecordsOK
  <2>2. QED
    BY <1>3, <2>1, OpenStep, SameBuildsIfUnchanged DEF Restart
<1>4. QED
  BY <1>1, <1>2, <1>3, RequestGateStep, DecideStep, AgentGateStep, BuildEndStep DEF Next

LEMMA InitGate == Init => Gate!Init
<1> SUFFICES ASSUME Init PROVE Gate!Init
  OBVIOUS
<1>1. PICK opening \in [Changes -> Opened] : changes = [c \in Changes |-> CreateChange(opening[c])]
  BY DEF Init
<1>2. \A c \in Changes : /\ GateOf(changes[c]) = "open"
                         /\ PolicyOK(changes[c]) = FALSE
                         /\ changes[c].decidedBy = Nobody
  BY <1>1 DEF CreateChange, GateOf, PolicyOK
<1>3. \A c \in Changes : BuildsOf(c, "prod") = {} /\ Landed(c) = {}
  BY DEF Init, BuildsOf, Landed
<1>4. /\ GateMap = [c \in Changes |-> "open"]
      /\ GoodMap = [c \in Changes |-> FALSE]
      /\ ApproverMap = [c \in Changes |-> Nobody]
  BY <1>2 DEF GateMap, GoodMap, ApproverMap
<1>5. DeployMap = [c \in Changes |-> {}] /\ LandedMap = [c \in Changes |-> {}]
  BY <1>3 DEF DeployMap, LandedMap, Landed
<1>6. QED
  BY <1>4, <1>5 DEF Gate!Init, GateMap, GoodMap, ApproverMap, DeployMap, LandedMap

\* The release gate is implemented: whatever requests, agents, Jenkins and restarts do to the
\* store, production sees only what the abstract gate allows.
THEOREM StoreImplementsReleaseGate == Spec => ImplementsReleaseGate
<1> DEFINE Inv == Typed /\ RecordsOK /\ OneDeployment /\ Grounded /\ Deploying
<1>1. Init => Inv
  BY InitTyped, InitRecordsOK, InitOneDeployment, InitGrounded, InitDeploying
<1>2. Inv /\ [Next]_vars => Inv'
  BY NextTyped, NextRecordsOK, NextOneDeployment, NextGrounded, NextDeploying
<1>3. Inv /\ [Next]_vars => [Gate!Next]_(Gate!gateVars)
  BY NextGateStep DEF GateStep
<1>4. QED
  BY InitGate, <1>1, <1>2, <1>3, PTL DEF Spec, ImplementsReleaseGate, Gate!Spec

=============================================================================
