------------------------- MODULE ChangeControlProofs -------------------------
(***************************************************************************)
(* Theorems about ChangeControl, for every set of changes, clients and     *)
(* builds, every policy and every bound.  First the records: they are well *)
(* formed, released only through the gate, and deployed once.  Then the    *)
(* evidence: what the records and the request threads say of Jenkins is    *)
(* true: a url names a build of this very change, a success that was seen  *)
(* happened, and so a change is ready, or promoted, on evidence that       *)
(* exists.                                                                 *)
(***************************************************************************)
EXTENDS ChangeControl, TLAPS

-----------------------------------------------------------------------------
(* What the record operations return. *)
LEMMA RecordTypes ==
    ASSUME NEW r \in Records
    PROVE  /\ \A u \in Builds \union {NoBuild, AgentDeploy}, j \in JenkinsStatuses, v \in DevVerdicts :
                 WithDevExecution(r, u, j, v) \in Records
           /\ BeginAgentRun(r) \in Records
           /\ \A to \in AgentStates, d \in {"sound", "weak"} : RecordAgentStep(r, to, d) \in Records
           /\ FinishAgentRun(r) \in Records
           /\ \A d \in {"approve", "reject"}, u \in Actors : ApplyDecision(r, d, u) \in Records
           /\ \A u \in Actors : BeginPromotion(r, u) \in Records
           /\ \A res \in {"success", "queued", "failed"}, u \in Builds \union {NoBuild} :
                 FinalizePromotion(r, res, u) \in Records
<1> USE DEF Records
<1> DEFINE States == DeploymentStates
<1>s. /\ {"ready_for_prod", "dev_fix_in_progress", "dev_fix_failed", "investigating", "closed_rejected",
          "blocked_by_policy", "promoting", "promoted_to_prod", "prod_promotion_failed"} \subseteq States
      /\ AgentStates \subseteq States
  BY DEF DeploymentStates, PRE_APPROVAL_STATES, TERMINAL_STATES, AgentStates
<1>j. "SUCCESS" \in JenkinsStatuses
  BY DEF JenkinsStatuses
<1> HIDE DEF States
<1>1. ASSUME NEW u \in Builds \union {NoBuild, AgentDeploy}, NEW j \in JenkinsStatuses, NEW v \in DevVerdicts
      PROVE  WithDevExecution(r, u, j, v) \in Records
  <2>1. DevStatusFor(v) \in {"not_started", "in_progress", "passed", "failed"}
    BY DEF DevStatusFor, DevVerdicts
  <2>2. DevStateFor(v) \in DeploymentStates
    BY <1>s DEF DevStateFor, DevVerdicts, States
  <2>3. QED
    BY <2>1, <2>2 DEF WithDevExecution
<1>2. BeginAgentRun(r) \in Records
  BY <1>s DEF BeginAgentRun, States
<1>3. ASSUME NEW to \in AgentStates, NEW d \in {"sound", "weak"}
      PROVE  RecordAgentStep(r, to, d) \in Records
  <2>1. to \in DeploymentStates
    BY <1>s DEF States
  <2>2. QED
    BY <2>1 DEF RecordAgentStep
<1>4. FinishAgentRun(r) \in Records
  <2>1. WithDevExecution(r, AgentDeploy, "SUCCESS", "passed") \in Records
    BY <1>1, <1>j DEF DevVerdicts
  <2>2. QED
    BY <2>1 DEF FinishAgentRun
<1>6. ASSUME NEW d \in {"approve", "reject"}, NEW u \in Actors
      PROVE  ApplyDecision(r, d, u) \in Records
  BY <1>s DEF ApplyDecision, States
<1>7. ASSUME NEW u \in Actors
      PROVE  BeginPromotion(r, u) \in Records
  BY <1>s DEF BeginPromotion, States
<1>8. ASSUME NEW res \in {"success", "queued", "failed"}, NEW u \in Builds \union {NoBuild}
      PROVE  FinalizePromotion(r, res, u) \in Records
  BY <1>s DEF FinalizePromotion, States
<1>9. QED
  BY <1>1, <1>2, <1>3, <1>4, <1>6, <1>7, <1>8

LEMMA CreatedType ==
    ASSUME NEW o \in Openings PROVE CreateChange(o) \in Records
<1>1. /\ "awaiting_dev_execution" \in DeploymentStates
      /\ {"QUEUED", "UNKNOWN"} \subseteq JenkinsStatuses
  BY DEF DeploymentStates, PRE_APPROVAL_STATES, JenkinsStatuses, NonTerminalBuildStates
<1>2. QED
  BY <1>1 DEF CreateChange, Openings, Records

-----------------------------------------------------------------------------
(* Every write of the store is one of the record operations, on a record that allows it. *)
AnyUrl == Builds \union {NoBuild, AgentDeploy}

RecordStep(r, s) ==
    \/ \E u \in AnyUrl, j \in JenkinsStatuses, v \in DevVerdicts :
          CanRecordDev(r, v) /\ s = WithDevExecution(r, u, j, v)
    \/ CanBeginAgentRun(r) /\ s = BeginAgentRun(r)
    \/ \E to \in AgentStates, d \in {"sound", "weak"} :
          CanRecordAgentStep(r, to) /\ s = RecordAgentStep(r, to, d)
    \/ CanFinishAgentRun(r) /\ s = FinishAgentRun(r)
    \/ \E d \in {"approve", "reject"}, u \in Actors : CanDecide(r, d) /\ s = ApplyDecision(r, d, u)
    \/ \E u \in ReleaseOperators : CanPromote(r, u) /\ s = BeginPromotion(r, u)
    \/ \E res \in {"success", "queued", "failed"}, u \in Builds \union {NoBuild} :
          CanFinalizePromotion(r) /\ s = FinalizePromotion(r, res, u)

StoreStep ==
    /\ changes' \in [Changes -> Records]
    /\ \A c \in Changes : changes'[c] = changes[c] \/ RecordStep(changes[c], changes'[c])

LEMMA RecordStepType ==
    ASSUME NEW r \in Records, NEW s, RecordStep(r, s) PROVE s \in Records
<1>1. ReleaseOperators \subseteq Actors
  BY DEF Actors
<1>2. QED
  BY <1>1, RecordTypes DEF RecordStep, AnyUrl

LEMMA WriteIsStoreStep ==
    ASSUME changes \in [Changes -> Records], NEW c \in Changes, NEW r,
           RecordStep(changes[c], r), Write(c, r)
    PROVE  StoreStep
<1>1. r \in Records
  BY RecordStepType
<1>2. changes' = [changes EXCEPT ![c] = r]
  BY DEF Write
<1>3. QED
  BY <1>1, <1>2 DEF StoreStep

LEMMA NoWriteIsStoreStep ==
    ASSUME changes \in [Changes -> Records], UNCHANGED changes PROVE StoreStep
  BY DEF StoreStep

-----------------------------------------------------------------------------
(* Type correctness, with what a promotion knows of its build. *)
RequestRecords == [pc : RequestSteps, of : Changes, build : AnyUrl, saw : JenkinsStatuses]

BuildRecords == [kind : BuildKinds, of : Changes, status : {"RUNNING"} \union BuildOutcomes]

RunRecords == [at : RunSteps, of : Changes, attempt : 1 .. MaxAttempts]

RetriesLeft == \A g \in Runs : run[g].at = "retry" => run[g].attempt < MaxAttempts

\* A request that polls or records a production deploy holds the url of a Jenkins build.
ProdUrlsAreBuilds ==
    \A k \in Clients : reqs[k].pc \in {"prod_poll", "prod_refresh", "prod_record"} =>
        reqs[k].build \in Builds

Typed == TypeOK /\ ProdUrlsAreBuilds

LEMMA TypesOf ==
    TypeOK <=> /\ changes \in [Changes -> Records]
               /\ builds \in [Builds -> BuildRecords]
               /\ reqs \in [Clients -> RequestRecords]
               /\ run \in [Runs -> RunRecords]
               /\ restarts \in 0 .. MaxRestarts
               /\ RetriesLeft
  BY DEF TypeOK, RetriesLeft, BuildRecords, RequestRecords, RunRecords, AnyUrl

LEMMA TypesNext ==
    ASSUME changes' \in [Changes -> Records], builds' \in [Builds -> BuildRecords],
           reqs' \in [Clients -> RequestRecords], run' \in [Runs -> RunRecords],
           restarts' \in 0 .. MaxRestarts, RetriesLeft'
    PROVE  TypeOK'
  BY DEF TypeOK, RetriesLeft, BuildRecords, RequestRecords, RunRecords, AnyUrl

LEMMA SomeChange == (CHOOSE c \in Changes : TRUE) \in Changes
  BY ControlAssumption DEF ControlAssumption

LEMMA NoRequestType == NoRequest \in RequestRecords /\ NoRequest.pc = "idle"
  BY SomeChange
  DEF NoRequest, RequestRecords, RequestSteps, JenkinsStatuses, NonTerminalBuildStates, AnyUrl

LEMMA NotRunningType == NotRunning \in RunRecords /\ NotRunning.at = "none"
  BY SomeChange, ControlAssumption DEF ControlAssumption, NotRunning, RunSteps, RunRecords

LEMMA Statuses == {"QUEUED", "RUNNING", "SUCCESS", "FAILURE", "UNKNOWN"} \subseteq JenkinsStatuses
  BY DEF JenkinsStatuses, NonTerminalBuildStates

LEMMA InitTyped == Init => Typed
<1> SUFFICES ASSUME Init PROVE Typed
  OBVIOUS
<1>1. changes \in [Changes -> Records]
  BY CreatedType, ControlAssumption DEF Init, ControlAssumption
<1>2. builds \in [Builds -> BuildRecords]
  BY SomeChange DEF Init, BuildKinds, BuildRecords
<1>3. reqs \in [Clients -> RequestRecords]
  BY NoRequestType DEF Init
<1>4. run \in [Runs -> RunRecords]
  BY NotRunningType DEF Init
<1>5. restarts \in 0 .. MaxRestarts
  BY ControlAssumption DEF Init, ControlAssumption
<1>6. ProdUrlsAreBuilds
  BY NoRequestType DEF Init, ProdUrlsAreBuilds
<1>7. RetriesLeft
  BY NotRunningType DEF Init, RetriesLeft
<1>8. QED
  BY <1>1, <1>2, <1>3, <1>4, <1>5, <1>6, <1>7, TypesOf DEF Typed

\* A request thread moves to a well-typed place, and to a production step only with a build.
LEMMA RequestMoves ==
    ASSUME Typed, NEW k \in Clients, NEW q \in RequestRecords,
           reqs' = [reqs EXCEPT ![k] = q],
           q.pc \in {"prod_poll", "prod_refresh", "prod_record"} => q.build \in Builds
    PROVE  reqs' \in [Clients -> RequestRecords] /\ ProdUrlsAreBuilds'
<1>1. reqs \in [Clients -> RequestRecords]
  BY TypesOf DEF Typed
<1>2. QED
  BY <1>1 DEF Typed, ProdUrlsAreBuilds

LEMMA BuildStarts ==
    ASSUME Typed, NEW b \in Builds, NEW kind \in BuildKinds, NEW c \in Changes, StartBuild(b, kind, c)
    PROVE  builds' \in [Builds -> BuildRecords]
<1>1. builds \in [Builds -> BuildRecords]
  BY TypesOf DEF Typed
<1>2. QED
  BY <1>1 DEF StartBuild, BuildRecords

\* The steps of a request thread.
LEMMA RequestStepTyped ==
    ASSUME Typed, NEW k \in Clients, RequestStep(k)
    PROVE  StoreStep /\ Typed'
<1>t. /\ changes \in [Changes -> Records]
      /\ builds \in [Builds -> BuildRecords]
      /\ reqs \in [Clients -> RequestRecords]
      /\ reqs[k] \in RequestRecords
      /\ run \in [Runs -> RunRecords]
      /\ restarts \in 0 .. MaxRestarts
      /\ RetriesLeft
  BY TypesOf DEF Typed
<1>o. /\ reqs[k].pc \in RequestSteps
      /\ reqs[k].of \in Changes
      /\ reqs[k].build \in AnyUrl
      /\ reqs[k].saw \in JenkinsStatuses
  BY <1>t DEF RequestRecords
<1>u. reqs[k].pc \in {"prod_poll", "prod_refresh", "prod_record"} => reqs[k].build \in Builds
  BY DEF Typed, ProdUrlsAreBuilds
<1>p. {"dev_record", "prod_record", "dev_poll", "prod_poll", "prod_abort"} \subseteq RequestSteps
  BY DEF RequestSteps
<1>k. {"dev", "prod"} \subseteq BuildKinds
  BY DEF BuildKinds
<1>s. SUFFICES /\ StoreStep
               /\ builds' \in [Builds -> BuildRecords]
               /\ \E q \in RequestRecords :
                    /\ reqs' = [reqs EXCEPT ![k] = q]
                    /\ q.pc \in {"prod_poll", "prod_refresh", "prod_record"} => q.build \in Builds
               /\ run' = run
               /\ restarts' = restarts
  <2>1. StoreStep => changes' \in [Changes -> Records]
    BY DEF StoreStep
  <2>2. (\E q \in RequestRecords :
            /\ reqs' = [reqs EXCEPT ![k] = q]
            /\ q.pc \in {"prod_poll", "prod_refresh", "prod_record"} => q.build \in Builds)
        => reqs' \in [Clients -> RequestRecords] /\ ProdUrlsAreBuilds'
    BY RequestMoves
  <2>3. QED
    BY <1>s, <1>t, <2>1, <2>2, TypesNext DEF Typed, RetriesLeft
\* What the helpers do to the requests.
<1>r. ASSUME NEW pc \in RequestSteps, NEW b \in Builds, NEW saw \in JenkinsStatuses,
             Request(k, pc, reqs[k].of, b, saw)
      PROVE  \E q \in RequestRecords :
                /\ reqs' = [reqs EXCEPT ![k] = q]
                /\ q.pc \in {"prod_poll", "prod_refresh", "prod_record"} => q.build \in Builds
  <2> DEFINE q == [pc |-> pc, of |-> reqs[k].of, build |-> b, saw |-> saw]
  <2>1. q \in RequestRecords /\ q.build \in Builds
    BY <1>o DEF RequestRecords, AnyUrl
  <2>2. QED
    BY <2>1, <1>r DEF Request
<1>d. ASSUME Done(k)
      PROVE  \E q \in RequestRecords :
                /\ reqs' = [reqs EXCEPT ![k] = q]
                /\ q.pc \in {"prod_poll", "prod_refresh", "prod_record"} => q.build \in Builds
  BY <1>d, NoRequestType DEF Done
<1>m. ASSUME NEW pc \in RequestSteps, NEW saw \in JenkinsStatuses,
             reqs' = [reqs EXCEPT ![k].pc = pc, ![k].saw = saw],
             pc \in {"prod_poll", "prod_refresh", "prod_record"} => reqs[k].build \in Builds
      PROVE  \E q \in RequestRecords :
                /\ reqs' = [reqs EXCEPT ![k] = q]
                /\ q.pc \in {"prod_poll", "prod_refresh", "prod_record"} => q.build \in Builds
  <2> DEFINE q == [reqs[k] EXCEPT !.pc = pc, !.saw = saw]
  <2>1. q \in RequestRecords /\ q.pc = pc /\ q.build = reqs[k].build
    BY <1>t DEF RequestRecords
  <2>2. reqs' = [reqs EXCEPT ![k] = q]
    BY <1>m, <1>t DEF RequestRecords
  <2>3. QED
    BY <2>1, <2>2, <1>m
<1>g. ASSUME NEW pc \in RequestSteps, GoTo(k, pc),
             pc \in {"prod_poll", "prod_refresh", "prod_record"} => reqs[k].build \in Builds
      PROVE  \E q \in RequestRecords :
                /\ reqs' = [reqs EXCEPT ![k] = q]
                /\ q.pc \in {"prod_poll", "prod_refresh", "prod_record"} => q.build \in Builds
  <2> DEFINE q == [reqs[k] EXCEPT !.pc = pc]
  <2>1. q \in RequestRecords /\ q.pc = pc /\ q.build = reqs[k].build
    BY <1>t DEF RequestRecords
  <2>2. reqs' = [reqs EXCEPT ![k] = q]
    BY <1>g, <1>t DEF GoTo
  <2>3. QED
    BY <2>1, <2>2, <1>g
<1>b. (\E b \in Builds, kind \in {"dev", "prod"} : StartBuild(b, kind, reqs[k].of))
      => builds' \in [Builds -> BuildRecords]
  BY <1>o, <1>k, BuildStarts
<1>1. CASE DevTrigger(k)
  BY <1>1, <1>t, <1>o, <1>p, <1>r, <1>b, Statuses, NoWriteIsStoreStep DEF DevTrigger
<1>2. CASE DevTriggerFails(k)
  BY <1>2, <1>t, <1>d, <1>b, NoWriteIsStoreStep DEF DevTriggerFails
<1>3. CASE Poll(k)
  <2>1. builds[reqs[k].build].status \in JenkinsStatuses
    BY <1>3, <1>t, Statuses DEF Poll, BuildRecords, BuildOutcomes
  <2>2. reqs[k].build \in Builds /\ UNCHANGED <<changes, builds, run, restarts>>
    BY <1>3 DEF Poll
  <2>3. \E q \in RequestRecords :
            /\ reqs' = [reqs EXCEPT ![k] = q]
            /\ q.pc \in {"prod_poll", "prod_refresh", "prod_record"} => q.build \in Builds
    <3> DEFINE pc == IF reqs[k].pc = "dev_poll" THEN "dev_record" ELSE "prod_record"
    <3>1. reqs' = [reqs EXCEPT ![k].pc = pc, ![k].saw = builds[reqs[k].build].status]
      BY <1>3, <1>t DEF Poll
    <3>2. pc \in RequestSteps
      BY <1>p
    <3>3. QED
      BY <3>1, <3>2, <2>1, <2>2, <1>m
  <2>4. QED
    BY <2>2, <2>3, <1>t, NoWriteIsStoreStep
<1>4. CASE PollFails(k)
  BY <1>4, <1>t, <1>u, <1>p, <1>d, <1>g, NoWriteIsStoreStep DEF PollFails
<1>5. CASE DevRecord(k)
  <2>1. \A v \in VerdictsFor(reqs[k].saw) : v \in DevVerdicts
    BY DEF VerdictsFor, DevVerdicts
  <2>2. StoreStep
    <3> DEFINE c == reqs[k].of
    <3>1. PICK v \in VerdictsFor(reqs[k].saw) :
            IF CanRecordDev(changes[c], v)
            THEN Write(c, WithDevExecution(changes[c], reqs[k].build, reqs[k].saw, v))
            ELSE UNCHANGED changes
      BY <1>5 DEF DevRecord
    <3>2. v \in DevVerdicts
      BY <2>1
    <3>3. ASSUME CanRecordDev(changes[c], v)
          PROVE  RecordStep(changes[c], WithDevExecution(changes[c], reqs[k].build, reqs[k].saw, v))
      BY <3>2, <3>3, <1>o DEF RecordStep
    <3>4. QED
      BY <3>1, <3>3, <1>t, <1>o, WriteIsStoreStep, NoWriteIsStoreStep
  <2>3. QED
    BY <1>5, <2>2, <1>t, <1>d DEF DevRecord
<1>6. CASE ProdTrigger(k)
  BY <1>6, <1>t, <1>o, <1>p, <1>r, <1>b, Statuses, NoWriteIsStoreStep DEF ProdTrigger
<1>7. CASE ProdTriggerFails(k)
  BY <1>7, <1>t, <1>p, <1>g, <1>b, NoWriteIsStoreStep DEF ProdTriggerFails
<1>f. ASSUME NEW result \in {"success", "queued", "failed"}, NEW u \in Builds \union {NoBuild},
             Finalize(k, result, u)
      PROVE  StoreStep /\ Done(k) /\ UNCHANGED <<builds, run, restarts>>
  <2> DEFINE c == reqs[k].of
  <2>1. ASSUME CanFinalizePromotion(changes[c])
        PROVE  RecordStep(changes[c], FinalizePromotion(changes[c], result, u))
    BY <2>1 DEF RecordStep
  <2>2. QED
    BY <1>f, <2>1, <1>t, <1>o, WriteIsStoreStep, NoWriteIsStoreStep DEF Finalize
<1>8. CASE ProdAbort(k)
  BY <1>8, <1>f, <1>d, <1>t DEF ProdAbort
<1>9. CASE ProdRecord(k)
  <2>1. PromotionResultFor(reqs[k].saw) \in {"success", "queued", "failed"}
    BY DEF PromotionResultFor
  <2>2. reqs[k].build \in Builds
    BY <1>9, <1>u DEF ProdRecord
  <2>3. QED
    BY <1>9, <1>f, <1>d, <1>t, <2>1, <2>2 DEF ProdRecord
<1>10. QED
  BY <1>1, <1>2, <1>3, <1>4, <1>5, <1>6, <1>7, <1>8, <1>9 DEF RequestStep

\* The requests that arrive.
LEMMA RequestArrivesTyped ==
    ASSUME Typed, NEW k \in Clients, NEW c \in Changes, RequestArrives(k, c)
    PROVE  StoreStep /\ Typed'
<1>t. /\ changes \in [Changes -> Records]
      /\ builds \in [Builds -> BuildRecords]
      /\ run \in [Runs -> RunRecords]
      /\ restarts \in 0 .. MaxRestarts
      /\ RetriesLeft
      /\ changes[c].devUrl \in AnyUrl
      /\ changes[c].prodUrl \in Builds \union {NoBuild}
  BY TypesOf DEF Typed, Records, AnyUrl
<1>p. {"dev_trigger", "dev_poll", "prod_refresh", "prod_trigger"} \subseteq RequestSteps
  BY DEF RequestSteps
<1>s. SUFFICES /\ StoreStep
               /\ \E pc \in {"dev_trigger", "dev_poll", "prod_refresh", "prod_trigger"}, b \in AnyUrl :
                    /\ Request(k, pc, c, b, "QUEUED")
                    /\ pc = "prod_refresh" => b \in Builds
               /\ UNCHANGED <<builds, run, restarts>>
  <2>1. StoreStep => changes' \in [Changes -> Records]
    BY DEF StoreStep
  <2>2. ASSUME NEW pc \in {"dev_trigger", "dev_poll", "prod_refresh", "prod_trigger"}, NEW b \in AnyUrl,
               Request(k, pc, c, b, "QUEUED"), pc = "prod_refresh" => b \in Builds
        PROVE  reqs' \in [Clients -> RequestRecords] /\ ProdUrlsAreBuilds'
    <3> DEFINE q == [pc |-> pc, of |-> c, build |-> b, saw |-> "QUEUED"]
    <3>1. q \in RequestRecords
      BY <1>p, Statuses DEF RequestRecords
    <3>2. q.pc \in {"prod_poll", "prod_refresh", "prod_record"} => q.build \in Builds
      BY <2>2
    <3>3. reqs' = [reqs EXCEPT ![k] = q]
      BY <2>2 DEF Request
    <3>4. QED
      BY <3>1, <3>2, <3>3, RequestMoves
  <2>3. QED
    BY <1>s, <1>t, <2>1, <2>2, TypesNext DEF Typed, RetriesLeft
<1>1. CASE DevCheck(k, c)
  BY <1>1, <1>t, NoWriteIsStoreStep DEF DevCheck, AnyUrl
<1>2. CASE RefreshRead(k, c)
  BY <1>2, <1>t, NoWriteIsStoreStep DEF RefreshRead, AnyUrl
<1>3. ASSUME NEW by \in ReleaseOperators, PromoteReserve(k, c, by)
      PROVE  /\ StoreStep
             /\ Request(k, "prod_trigger", c, NoBuild, "QUEUED")
             /\ UNCHANGED <<builds, run, restarts>>
  <2>1. RecordStep(changes[c], BeginPromotion(changes[c], by))
    BY <1>3 DEF PromoteReserve, RecordStep
  <2>2. QED
    BY <1>3, <2>1, <1>t, WriteIsStoreStep DEF PromoteReserve
<1>4. NoBuild \in AnyUrl
  BY DEF AnyUrl
<1>5. QED
  BY <1>1, <1>2, <1>3, <1>4 DEF RequestArrives

\* A decision.
LEMMA DecideTyped ==
    ASSUME Typed, NEW c \in Changes, NEW d \in {"approve", "reject"}, NEW by \in Actors, Decide(c, d, by)
    PROVE  StoreStep /\ Typed'
<1>1. changes \in [Changes -> Records]
  BY TypesOf DEF Typed
<1>2. RecordStep(changes[c], ApplyDecision(changes[c], d, by))
  BY DEF Decide, RecordStep
<1>3. StoreStep
  BY <1>1, <1>2, WriteIsStoreStep DEF Decide
<1>4. changes' \in [Changes -> Records] /\ UNCHANGED <<builds, reqs, run, restarts>>
  BY <1>3 DEF StoreStep, Decide
<1>5. QED
  BY <1>3, <1>4, TypesOf, TypesNext DEF Typed, ProdUrlsAreBuilds, RetriesLeft

\* An agent run: it starts, or takes a step of its graph.
LEMMA AgentsTyped ==
    ASSUME Typed, NEW g \in Runs, (\E c \in Changes : StartAgents(c, g)) \/ AgentStep(g)
    PROVE  StoreStep /\ Typed'
<1>t. /\ changes \in [Changes -> Records]
      /\ run \in [Runs -> RunRecords]
      /\ run[g] \in RunRecords
      /\ run[g].of \in Changes
      /\ run[g].attempt \in 1 .. MaxAttempts
      /\ RetriesLeft
  BY TypesOf DEF Typed, RunRecords
<1>d. Diagnosis(g) \in {"sound", "weak"}
  BY <1>t DEF Diagnosis, Records
\* What a step must do to the runs.
<1> DEFINE RunsMove == \E q \in RunRecords : /\ run' = [run EXCEPT ![g] = q]
                                             /\ q.at = "retry" => q.attempt < MaxAttempts
<1>s. SUFFICES StoreStep /\ RunsMove /\ UNCHANGED <<builds, reqs, restarts>>
  <2>1. StoreStep => changes' \in [Changes -> Records]
    BY DEF StoreStep
  <2>2. RunsMove => run' \in [Runs -> RunRecords] /\ RetriesLeft'
    BY <1>t DEF RetriesLeft
  <2>3. QED
    BY <1>s, <2>1, <2>2, TypesOf, TypesNext DEF Typed, ProdUrlsAreBuilds
<1>p. {"none", "investigate", "fix", "propose", "verify", "verdict", "verified",
       "review", "judge", "judged", "retry", "fix_crashed", "package", "crash"} \subseteq RunSteps
  BY DEF RunSteps
<1>a. ASSUME NEW at \in RunSteps, RunAt(g, at), at = "retry" => run[g].attempt < MaxAttempts
      PROVE  RunsMove
  <2> DEFINE q == [run[g] EXCEPT !.at = at]
  <2>1. q \in RunRecords /\ q.at = at /\ q.attempt = run[g].attempt
    BY <1>t DEF RunRecords
  <2>2. run' = [run EXCEPT ![g] = q]
    BY <1>a DEF RunAt
  <2>3. QED
    BY <2>1, <2>2, <1>a
<1> HIDE DEF RunsMove
<1>c. ASSUME NEW to \in AgentStates, NEW d \in {"sound", "weak"},
             NEW next \in RunSteps \ {"retry"}, NEW onError \in RunSteps \ {"retry"},
             AgentCall(g, to, d, next, onError)
      PROVE  StoreStep /\ RunsMove /\ UNCHANGED <<builds, reqs, restarts>>
  <2>1. CanRecordAgentStep(changes[run[g].of], to) =>
            RecordStep(changes[run[g].of], RecordAgentStep(changes[run[g].of], to, d))
    BY DEF RecordStep
  <2>2. StoreStep
    BY <1>c, <1>t, <2>1, WriteIsStoreStep, NoWriteIsStoreStep DEF AgentCall
  <2>3. RunsMove
    BY <1>c, <1>a DEF AgentCall
  <2>4. QED
    BY <1>c, <2>2, <2>3 DEF AgentCall
<1>0. ASSUME NEW c \in Changes, StartAgents(c, g)
      PROVE  StoreStep /\ RunsMove /\ UNCHANGED <<builds, reqs, restarts>>
  <2>1. RecordStep(changes[c], BeginAgentRun(changes[c]))
    BY <1>0 DEF StartAgents, RecordStep
  <2>2. [at |-> "investigate", of |-> c, attempt |-> 1] \in RunRecords
    BY <1>p, ControlAssumption DEF RunRecords, ControlAssumption
  <2>3. QED
    BY <1>0, <1>t, <2>1, <2>2, WriteIsStoreStep DEF StartAgents, RunsMove
<1>1. CASE Investigated(g)
  BY <1>1, <1>c, <1>p DEF Investigated, AgentStates
<1>2. CASE RecordProgress(g)
  BY <1>2, <1>c, <1>p, <1>d DEF RecordProgress, ProgressAt, AgentStates
<1>3. CASE GoOn(g)
  BY <1>3, <1>a, <1>p, <1>t, NoWriteIsStoreStep DEF GoOn, PassedTo
<1>4. CASE SendBack(g)
  BY <1>4, <1>a, <1>p, <1>t, NoWriteIsStoreStep DEF SendBack
<1>5. CASE Retry(g)
  <2> DEFINE q == [run[g] EXCEPT !.at = "fix", !.attempt = run[g].attempt + 1]
  <2>1. run[g].attempt + 1 \in 1 .. MaxAttempts
    BY <1>5, <1>t, ControlAssumption DEF Retry, RetriesLeft, ControlAssumption
  <2>2. q \in RunRecords /\ q.at # "retry"
    BY <2>1, <1>t, <1>p DEF RunRecords
  <2>3. run' = [run EXCEPT ![g] = q]
    BY <1>5, <1>t DEF Retry, RunRecords
  <2>4. RunsMove
    BY <2>2, <2>3 DEF RunsMove
  <2>5. QED
    BY <1>5, <1>t, <2>4, NoWriteIsStoreStep DEF Retry
<1>6. CASE RetryOverBudget(g)
  BY <1>6, <1>c, <1>p, <1>d DEF RetryOverBudget, AgentStates
<1>7. CASE FixCrashed(g)
  BY <1>7, <1>c, <1>p, <1>d DEF FixCrashed, AgentStates
<1>8. CASE Escalate(g)
  BY <1>8, <1>c, <1>p DEF Escalate, AgentStates
<1>9. CASE Package(g)
  <2>1. CanFinishAgentRun(changes[run[g].of]) =>
            RecordStep(changes[run[g].of], FinishAgentRun(changes[run[g].of]))
    BY DEF RecordStep
  <2>2. QED
    BY <1>9, <1>t, <1>a, <1>p, <2>1, WriteIsStoreStep, NoWriteIsStoreStep DEF Package
<1>10. CASE NodeRaises(g)
  BY <1>10, <1>t, <1>a, <1>p, NoWriteIsStoreStep DEF NodeRaises
<1>11. CASE CrashNode(g)
  BY <1>11, <1>c, <1>p, <1>d DEF CrashNode, AgentStates
<1>12. QED
  BY <1>0, <1>1, <1>2, <1>3, <1>4, <1>5, <1>6, <1>7, <1>8, <1>9, <1>10, <1>11 DEF AgentStep

\* Jenkins, and the restart of the process.
LEMMA OutsideTyped ==
    ASSUME Typed, (\E b \in Builds : BuildEnds(b)) \/ Restart
    PROVE  StoreStep /\ Typed'
<1>t. /\ changes \in [Changes -> Records]
      /\ builds \in [Builds -> BuildRecords]
      /\ restarts \in 0 .. MaxRestarts
  BY TypesOf DEF Typed
<1>1. ASSUME NEW b \in Builds, BuildEnds(b) PROVE StoreStep /\ Typed'
  <2>1. builds' \in [Builds -> BuildRecords]
    BY <1>1, <1>t DEF BuildEnds, BuildRecords
  <2>2. UNCHANGED <<changes, reqs, run, restarts>>
    BY <1>1 DEF BuildEnds
  <2>3. QED
    BY <2>1, <2>2, <1>t, NoWriteIsStoreStep, TypesOf, TypesNext DEF Typed, ProdUrlsAreBuilds, RetriesLeft
<1>2. CASE Restart
  <2>1. \A r \in Records : RecoverInterruptedRun(r) = r \/ RecordStep(r, RecoverInterruptedRun(r))
    BY DEF RecoverInterruptedRun, RecordStep, AgentStates, Records
  <2>2. StoreStep
    BY <1>2, <1>t, <2>1, RecordStepType DEF Restart, StoreStep
  <2>3. /\ changes' \in [Changes -> Records]
        /\ reqs' \in [Clients -> RequestRecords]
        /\ run' \in [Runs -> RunRecords]
        /\ builds' = builds
    BY <1>2, <2>2, NoRequestType, NotRunningType DEF Restart, StoreStep
  <2>4. restarts' \in 0 .. MaxRestarts
    BY <1>2, <1>t, ControlAssumption DEF Restart, ControlAssumption
  <2>5. ProdUrlsAreBuilds'
    BY <1>2, NoRequestType DEF Restart, ProdUrlsAreBuilds
  <2>6. RetriesLeft'
    BY <1>2, NotRunningType DEF Restart, RetriesLeft
  <2>7. QED
    BY <2>2, <2>3, <2>4, <2>5, <2>6, <1>t, TypesNext DEF Typed
<1>3. QED
  BY <1>1, <1>2

\* Every step of the system writes to the store as the record operations allow.
LEMMA NextTyped ==
    ASSUME Typed, [Next]_vars
    PROVE  StoreStep /\ Typed'
<1>1. CASE UNCHANGED vars
  <2>1. changes \in [Changes -> Records]
    BY TypesOf DEF Typed
  <2>2. QED
    BY <1>1, <2>1, NoWriteIsStoreStep, TypesOf, TypesNext DEF vars, Typed, ProdUrlsAreBuilds, RetriesLeft
<1>2. CASE Next
  BY <1>2, RequestStepTyped, RequestArrivesTyped, DecideTyped, AgentsTyped, OutsideTyped DEF Next
<1>3. QED
  BY <1>1, <1>2

\* Types: the store, Jenkins, the request threads and the runs keep their shape; in particular
\* no fix attempt is numbered past AGENT_MAX_FIX_ATTEMPTS.
THEOREM TypeCorrect == Spec => []TypeOK
<1>1. Typed /\ [Next]_vars => Typed'
  BY NextTyped
<1>2. Typed => TypeOK
  BY DEF Typed
<1>3. QED
  BY InitTyped, <1>1, <1>2, PTL DEF Spec

-----------------------------------------------------------------------------
(* What every record obeys on its own: the decision and the deployment state agree. *)
DecidedStates == {"ready_for_prod", "blocked_by_policy", "promoting"} \union PromotionOver

RecordOK(r) ==
    /\ r.status = "pending_approval" => r.state \in PRE_APPROVAL_STATES
    /\ r.status = "rejected" => r.state = "closed_rejected"
    /\ r.status = "approved" =>
          /\ r.state \in DecidedStates
          /\ r.decidedBy \in Actors
          /\ r.state # "blocked_by_policy" => PolicyOK(r)
    /\ Released(r) => (SeparateDuties => r.promotedBy # r.decidedBy)

RecordsOK == \A c \in Changes : RecordOK(changes[c])

\* The table has no move from a decided state back into the agents' part of it.
LEMMA NoWayBack ==
    ASSUME NEW from \in DecidedStates \union {"closed_rejected"}, NEW to \in AgentStates
    PROVE  ~IsAllowed(from, to)
<1>1. from \notin PRE_APPROVAL_STATES \/ from = "ready_for_prod"
  BY DEF DecidedStates, PromotionOver, PRE_APPROVAL_STATES
<1>2. to # "closed_rejected" /\ to # from
  BY DEF DecidedStates, PromotionOver, AgentStates
<1>3. <<from, to>> \notin EDGES
  BY DEF EDGES, DecidedStates, PromotionOver, AgentStates
<1>4. QED
  BY <1>2, <1>3 DEF IsAllowed, TRANSITIONS

LEMMA DecidedRefusesAgents ==
    ASSUME NEW r \in Records, RecordOK(r), r.status # "pending_approval", NEW to \in AgentStates
    PROVE  ~CanRecordAgentStep(r, to)
<1>1. r.state \in DecidedStates \union {"closed_rejected"}
  BY DEF RecordOK, Records
<1>2. QED
  BY <1>1, NoWayBack DEF CanRecordAgentStep, MayMoveTo

\* An operation on a pending record leaves it pending or decides it properly; an operation on
\* a decided one is a promotion.
LEMMA RecordStepOK ==
    ASSUME NEW r \in Records, RecordOK(r), NEW s, RecordStep(r, s)
    PROVE  /\ RecordOK(s)
           /\ Released(r) => Released(s)
           /\ r.status # "pending_approval" => Evidence(s) = Evidence(r) /\ s.status = r.status
<1>p. /\ {"ready_for_prod", "dev_fix_in_progress", "dev_fix_failed", "investigating"}
            \subseteq PRE_APPROVAL_STATES
      /\ AgentStates \subseteq PRE_APPROVAL_STATES
      /\ \A x \in PRE_APPROVAL_STATES : x \notin {"promoting"} \union PromotionOver
  BY DEF PRE_APPROVAL_STATES, AgentStates, PromotionOver
<1>i. r.status = "pending_approval" => r.state \in PRE_APPROVAL_STATES /\ ~Released(r)
  BY <1>p DEF RecordOK, Released
<1>q. ASSUME r.status = "pending_approval", s.status = "pending_approval",
             s.state \in PRE_APPROVAL_STATES
      PROVE  RecordOK(s) /\ (Released(r) => Released(s))
  BY <1>q, <1>p, <1>i DEF RecordOK, Released
<1>1. ASSUME NEW u \in AnyUrl, NEW j \in JenkinsStatuses, NEW v \in DevVerdicts,
             CanRecordDev(r, v), s = WithDevExecution(r, u, j, v)
      PROVE  /\ r.status = "pending_approval"
             /\ s.status = "pending_approval"
             /\ s.state \in PRE_APPROVAL_STATES
  BY <1>1, <1>p DEF CanRecordDev, WithDevExecution, DevStateFor, DevVerdicts, Records
<1>2. ASSUME CanBeginAgentRun(r), s = BeginAgentRun(r)
      PROVE  /\ r.status = "pending_approval"
             /\ s.status = "pending_approval"
             /\ s.state \in PRE_APPROVAL_STATES
  BY <1>2, <1>p DEF CanBeginAgentRun, BeginAgentRun, Records
<1>3. ASSUME NEW to \in AgentStates, NEW d \in {"sound", "weak"},
             CanRecordAgentStep(r, to), s = RecordAgentStep(r, to, d)
      PROVE  /\ r.status = "pending_approval"
             /\ s.status = "pending_approval"
             /\ s.state \in PRE_APPROVAL_STATES
  <2>1. r.status = "pending_approval"
    BY <1>3, DecidedRefusesAgents
  <2>2. QED
    BY <1>3, <2>1, <1>p DEF RecordAgentStep, Records
<1>4. ASSUME CanFinishAgentRun(r), s = FinishAgentRun(r)
      PROVE  /\ r.status = "pending_approval"
             /\ s.status = "pending_approval"
             /\ s.state \in PRE_APPROVAL_STATES
  BY <1>4, <1>p DEF CanFinishAgentRun, CanRecordDev, FinishAgentRun, WithDevExecution, DevStateFor, Records
<1>5. ASSUME NEW d \in {"approve", "reject"}, NEW u \in Actors,
             CanDecide(r, d), s = ApplyDecision(r, d, u)
      PROVE  RecordOK(s) /\ r.status = "pending_approval"
  <2>1. r.status = "pending_approval" /\ ~Released(r)
    BY <1>5, <1>i DEF CanDecide
  <2>2. CASE d = "approve" /\ PolicyOK(r)
    BY <1>5, <2>1, <2>2 DEF ApplyDecision, RecordOK, Records, DecidedStates, Released, PromotionOver, PolicyOK
  <2>3. CASE d = "approve" /\ ~PolicyOK(r)
    BY <1>5, <2>1, <2>3 DEF ApplyDecision, RecordOK, Records, DecidedStates, Released, PromotionOver
  <2>4. CASE d = "reject"
    BY <1>5, <2>1, <2>4 DEF ApplyDecision, RecordOK, Records, Released, PromotionOver
  <2>5. QED
    BY <2>1, <2>2, <2>3, <2>4
<1>6. ASSUME NEW u \in ReleaseOperators, CanPromote(r, u), s = BeginPromotion(r, u)
      PROVE  /\ RecordOK(s) /\ Released(s)
             /\ Evidence(s) = Evidence(r) /\ s.status = r.status
  BY <1>6 DEF CanPromote, BeginPromotion, RecordOK, Records, DecidedStates, Released, PolicyOK, Evidence
<1>7. ASSUME NEW res \in {"success", "queued", "failed"}, NEW u \in Builds \union {NoBuild},
             CanFinalizePromotion(r), s = FinalizePromotion(r, res, u)
      PROVE  /\ RecordOK(s) /\ Released(s)
             /\ Evidence(s) = Evidence(r) /\ s.status = r.status
  <2>1. r.state = "promoting" /\ r.status = "approved"
    BY <1>7, <1>p DEF CanFinalizePromotion, RecordOK, Records, PromotionOver
  <2>2. s.state \in {"promoting", "promoted_to_prod", "prod_promotion_failed"}
    BY <1>7 DEF FinalizePromotion, Records
  <2>3. /\ s.status = r.status /\ Evidence(s) = Evidence(r)
        /\ s.warned = r.warned /\ s.promotedBy = r.promotedBy
    BY <1>7 DEF FinalizePromotion, Records, Evidence
  <2>4. QED
    BY <2>1, <2>2, <2>3 DEF RecordOK, DecidedStates, Released, PromotionOver, PolicyOK, Evidence
<1>8. QED
  BY <1>q, <1>1, <1>2, <1>3, <1>4, <1>5, <1>6, <1>7, <1>i DEF RecordStep

LEMMA InitRecordsOK == Init => RecordsOK
<1>1. "awaiting_dev_execution" \in PRE_APPROVAL_STATES
  BY DEF PRE_APPROVAL_STATES
<1>2. \A o : RecordOK(CreateChange(o))
  BY <1>1 DEF CreateChange, RecordOK, Released, PromotionOver
<1>3. QED
  BY <1>2 DEF Init, RecordsOK

LEMMA NextRecordsOK ==
    ASSUME Typed, RecordsOK, [Next]_vars
    PROVE  /\ RecordsOK'
           /\ \A c \in Changes :
                /\ Released(changes[c]) => Released(changes'[c])
                /\ changes[c].status # "pending_approval" =>
                      /\ Evidence(changes'[c]) = Evidence(changes[c])
                      /\ changes'[c].status = changes[c].status
<1>1. StoreStep /\ changes \in [Changes -> Records]
  BY NextTyped, TypesOf DEF Typed
<1>2. ASSUME NEW c \in Changes
      PROVE  /\ RecordOK(changes'[c])
             /\ Released(changes[c]) => Released(changes'[c])
             /\ changes[c].status # "pending_approval" =>
                   /\ Evidence(changes'[c]) = Evidence(changes[c])
                   /\ changes'[c].status = changes[c].status
  <2>1. changes[c] \in Records /\ RecordOK(changes[c])
    BY <1>1 DEF RecordsOK
  <2>2. CASE changes'[c] = changes[c]
    BY <2>1, <2>2
  <2>3. CASE RecordStep(changes[c], changes'[c])
    BY <2>1, <2>3, RecordStepOK
  <2>4. QED
    BY <1>1, <2>2, <2>3 DEF StoreStep
<1>3. QED
  BY <1>2 DEF RecordsOK

LEMMA RecordsInvariant == Spec => [](Typed /\ RecordsOK)
<1>1. Typed /\ RecordsOK /\ [Next]_vars => (Typed /\ RecordsOK)'
  BY NextTyped, NextRecordsOK
<1>2. QED
  BY InitTyped, InitRecordsOK, <1>1, PTL DEF Spec

\* Only an approved change that passes the policy gate is ever promoted, and where duties are
\* separated never by the person who approved it.
THEOREM ReleaseIsGuarded == Spec => []ReleasedIsGuarded
<1>1. Typed /\ RecordsOK => ReleasedIsGuarded
  <2> SUFFICES ASSUME Typed, RecordsOK, NEW c \in Changes, Released(changes[c])
               PROVE  /\ changes[c].status = "approved"
                      /\ PolicyOK(changes[c])
                      /\ changes[c].decidedBy \in Actors
                      /\ SeparateDuties => changes[c].promotedBy # changes[c].decidedBy
    BY DEF ReleasedIsGuarded
  <2>1. changes[c] \in Records /\ RecordOK(changes[c])
    BY TypesOf DEF Typed, RecordsOK
  <2>2. /\ changes[c].state \notin PRE_APPROVAL_STATES
        /\ changes[c].state \notin {"closed_rejected", "blocked_by_policy"}
    BY DEF Released, PromotionOver, PRE_APPROVAL_STATES
  <2>3. changes[c].status = "approved"
    BY <2>1, <2>2 DEF RecordOK, Records
  <2>4. QED
    BY <2>1, <2>2, <2>3 DEF RecordOK
<1>2. QED
  BY <1>1, RecordsInvariant, PTL

\* What was decided on is what is released: no step changes the evidence, the diagnosis or
\* the decision of a change that has been decided.
THEOREM DecisionIsFinal == Spec => DecidedIsFrozen
<1>1. Typed /\ RecordsOK /\ [Next]_vars =>
        [\A c \in Changes : changes[c].status # "pending_approval" =>
            /\ Evidence(changes'[c]) = Evidence(changes[c])
            /\ changes'[c].status = changes[c].status]_changes
  BY NextRecordsOK
<1>2. QED
  BY <1>1, RecordsInvariant, PTL DEF Spec, DecidedIsFrozen

-----------------------------------------------------------------------------
(* One deployment per change: a request about to deploy holds the only reservation, and *)
(* nothing was deployed before it.                                                       *)
AboutToDeploy(k) == reqs[k].pc = "prod_trigger"

OneDeployment ==
    /\ \A k \in Clients, c \in Changes : AboutToDeploy(k) /\ reqs[k].of = c =>
          Released(changes[c]) /\ BuildsOf(c, "prod") = {}
    /\ \A k1, k2 \in Clients :
          AboutToDeploy(k1) /\ AboutToDeploy(k2) /\ reqs[k1].of = reqs[k2].of => k1 = k2
    /\ DeployedOnce

\* Steps that neither reserve a promotion nor start a production build.
QuietStep ==
    /\ \A k \in Clients : AboutToDeploy(k)' => reqs'[k] = reqs[k]
    /\ \A c \in Changes : BuildsOf(c, "prod")' = BuildsOf(c, "prod")

LEMMA QuietStepKeepsOneDeployment ==
    ASSUME Typed, RecordsOK, OneDeployment, [Next]_vars, QuietStep
    PROVE  OneDeployment'
<1>1. \A c \in Changes : Released(changes[c]) => Released(changes'[c])
  BY NextRecordsOK
<1>2. \A k \in Clients : reqs[k].of \in Changes
  BY TypesOf DEF Typed, RequestRecords
<1>3. \A k \in Clients : AboutToDeploy(k)' => AboutToDeploy(k) /\ reqs'[k] = reqs[k]
  BY DEF QuietStep, AboutToDeploy
<1>4. DeployedOnce'
  <2>1. ASSUME NEW c \in Changes
        PROVE  /\ \A b1, b2 \in BuildsOf(c, "prod")' : b1 = b2
               /\ BuildsOf(c, "prod")' # {} => Released(changes'[c])
    <3>1. BuildsOf(c, "prod")' = BuildsOf(c, "prod")
      BY DEF QuietStep
    <3>2. QED
      BY <3>1, <1>1 DEF OneDeployment, DeployedOnce
  <2>2. QED
    BY <2>1 DEF DeployedOnce
<1>5. ASSUME NEW k \in Clients, NEW d \in Changes, AboutToDeploy(k)', reqs'[k].of = d
      PROVE  Released(changes'[d]) /\ BuildsOf(d, "prod")' = {}
  BY <1>5, <1>1, <1>2, <1>3 DEF OneDeployment, QuietStep
<1>6. ASSUME NEW k1 \in Clients, NEW k2 \in Clients, AboutToDeploy(k1)', AboutToDeploy(k2)',
             reqs'[k1].of = reqs'[k2].of
      PROVE  k1 = k2
  BY <1>6, <1>3 DEF OneDeployment
<1>7. QED
  BY <1>4, <1>5, <1>6 DEF OneDeployment

LEMMA ReserveKeepsOneDeployment ==
    ASSUME Typed, RecordsOK, OneDeployment, NEW k \in Clients, NEW c \in Changes,
           NEW by \in ReleaseOperators, PromoteReserve(k, c, by)
    PROVE  OneDeployment'
<1>1. /\ changes \in [Changes -> Records] /\ changes[c] \in Records
      /\ reqs \in [Clients -> RequestRecords]
      /\ \A j \in Clients : reqs[j].of \in Changes
  BY TypesOf DEF Typed, RequestRecords
<1>2. ~Released(changes[c])
  BY DEF PromoteReserve, CanPromote, Released, PromotionOver
<1>3. /\ changes' = [changes EXCEPT ![c] = BeginPromotion(changes[c], by)]
      /\ reqs' = [reqs EXCEPT ![k] = [pc |-> "prod_trigger", of |-> c, build |-> NoBuild, saw |-> "QUEUED"]]
      /\ builds' = builds
  BY DEF PromoteReserve, Write, Request
<1>4. Released(changes'[c]) /\ \A d \in Changes : d # c => changes'[d] = changes[d]
  BY <1>1, <1>3 DEF BeginPromotion, Released, Records
<1>5. \A d \in Changes : BuildsOf(d, "prod")' = BuildsOf(d, "prod")
  BY <1>3 DEF BuildsOf
<1>6. BuildsOf(c, "prod") = {} /\ \A j \in Clients : AboutToDeploy(j) => reqs[j].of # c
  BY <1>2 DEF OneDeployment, DeployedOnce
<1>7. DeployedOnce'
  <2>1. ASSUME NEW d \in Changes
        PROVE  /\ \A b1, b2 \in BuildsOf(d, "prod")' : b1 = b2
               /\ BuildsOf(d, "prod")' # {} => Released(changes'[d])
    BY <1>4, <1>5 DEF OneDeployment, DeployedOnce
  <2>2. QED
    BY <2>1 DEF DeployedOnce
<1>8. reqs'[k].of = c /\ \A j \in Clients : j # k => reqs'[j] = reqs[j]
  BY <1>1, <1>3
<1>9. ASSUME NEW j \in Clients, NEW d \in Changes, AboutToDeploy(j)', reqs'[j].of = d
      PROVE  Released(changes'[d]) /\ BuildsOf(d, "prod")' = {}
  BY <1>9, <1>1, <1>4, <1>5, <1>6, <1>8 DEF OneDeployment, AboutToDeploy
<1>10. ASSUME NEW k1 \in Clients, NEW k2 \in Clients, AboutToDeploy(k1)', AboutToDeploy(k2)',
              reqs'[k1].of = reqs'[k2].of
       PROVE  k1 = k2
  BY <1>10, <1>6, <1>8 DEF OneDeployment, AboutToDeploy
<1>11. QED
  BY <1>7, <1>9, <1>10 DEF OneDeployment

\* The request that deploys leaves its step with the reservation, whatever Jenkins answers.
LEMMA DeployKeepsOneDeployment ==
    ASSUME Typed, RecordsOK, OneDeployment, NEW k \in Clients, AboutToDeploy(k),
           NEW c \in Changes, reqs[k].of = c, changes' = changes,
           NEW b \in Builds, StartBuild(b, "prod", c),
           NEW q \in RequestRecords, reqs' = [reqs EXCEPT ![k] = q], q.pc # "prod_trigger"
    PROVE  OneDeployment'
<1>1. /\ builds \in [Builds -> BuildRecords]
      /\ reqs \in [Clients -> RequestRecords]
      /\ \A j \in Clients : reqs[j].of \in Changes
  BY TypesOf DEF Typed, RequestRecords
<1>2. Released(changes[c]) /\ BuildsOf(c, "prod") = {}
  BY DEF OneDeployment
<1>3. /\ BuildsOf(c, "prod")' = {b}
      /\ \A d \in Changes : d # c => BuildsOf(d, "prod")' = BuildsOf(d, "prod")
  BY <1>1, <1>2 DEF BuildsOf, StartBuild
<1>4. \A j \in Clients : AboutToDeploy(j)' =>
          j # k /\ reqs'[j] = reqs[j] /\ AboutToDeploy(j) /\ reqs[j].of # c
  BY <1>1 DEF AboutToDeploy, OneDeployment
<1>5. DeployedOnce'
  <2>1. ASSUME NEW d \in Changes
        PROVE  /\ \A b1, b2 \in BuildsOf(d, "prod")' : b1 = b2
               /\ BuildsOf(d, "prod")' # {} => Released(changes'[d])
    BY <1>2, <1>3 DEF OneDeployment, DeployedOnce
  <2>2. QED
    BY <2>1 DEF DeployedOnce
<1>6. ASSUME NEW j \in Clients, NEW d \in Changes, AboutToDeploy(j)', reqs'[j].of = d
      PROVE  Released(changes'[d]) /\ BuildsOf(d, "prod")' = {}
  BY <1>6, <1>1, <1>3, <1>4 DEF OneDeployment
<1>7. ASSUME NEW k1 \in Clients, NEW k2 \in Clients, AboutToDeploy(k1)', AboutToDeploy(k2)',
             reqs'[k1].of = reqs'[k2].of
      PROVE  k1 = k2
  BY <1>7, <1>4 DEF OneDeployment
<1>8. QED
  BY <1>5, <1>6, <1>7 DEF OneDeployment

LEMMA NextOneDeployment ==
    ASSUME Typed, RecordsOK, OneDeployment, [Next]_vars
    PROVE  OneDeployment'
<1>t. /\ builds \in [Builds -> BuildRecords]
      /\ reqs \in [Clients -> RequestRecords]
      /\ \A k \in Clients : reqs[k] \in RequestRecords
  BY TypesOf DEF Typed
<1>q. \A k \in Clients : reqs' = [reqs EXCEPT ![k] = NoRequest] =>
        \A j \in Clients : AboutToDeploy(j)' => reqs'[j] = reqs[j]
  BY <1>t, NoRequestType DEF AboutToDeploy
<1>b. builds' = builds => \A c \in Changes : BuildsOf(c, "prod")' = BuildsOf(c, "prod")
  BY DEF BuildsOf
<1>1. CASE UNCHANGED vars
  BY <1>1, <1>b, QuietStepKeepsOneDeployment DEF vars, QuietStep
<1>2. ASSUME NEW k \in Clients, RequestStep(k) PROVE OneDeployment'
  <2>0. Next
    BY <1>2 DEF Next
  <2>d. ASSUME NEW b \in Builds, StartBuild(b, "dev", reqs[k].of)
        PROVE  \A c \in Changes : BuildsOf(c, "prod")' = BuildsOf(c, "prod")
    BY <2>d, <1>t DEF StartBuild, BuildsOf
  <2>1. CASE DevTrigger(k)
    BY <2>1, <2>0, <2>d, <1>t, QuietStepKeepsOneDeployment DEF DevTrigger, Request, QuietStep, AboutToDeploy
  <2>2. CASE DevTriggerFails(k)
    BY <2>2, <2>0, <2>d, <1>b, <1>q, QuietStepKeepsOneDeployment DEF DevTriggerFails, Done, QuietStep
  <2>3. CASE Poll(k)
    BY <2>3, <2>0, <1>t, <1>b, QuietStepKeepsOneDeployment DEF Poll, QuietStep, AboutToDeploy, RequestRecords
  <2>4. CASE PollFails(k)
    BY <2>4, <2>0, <1>t, <1>b, <1>q, QuietStepKeepsOneDeployment
    DEF PollFails, GoTo, Done, QuietStep, AboutToDeploy, RequestRecords
  <2>5. CASE DevRecord(k)
    BY <2>5, <2>0, <1>b, <1>q, QuietStepKeepsOneDeployment DEF DevRecord, Done, QuietStep
  <2>6. CASE ProdTrigger(k)
    <3>1. PICK b \in Builds :
            /\ StartBuild(b, "prod", reqs[k].of)
            /\ \/ Request(k, "prod_poll", reqs[k].of, b, "QUEUED")
               \/ Request(k, "prod_record", reqs[k].of, b, "UNKNOWN")
      BY <2>6 DEF ProdTrigger
    <3>2. \E q \in RequestRecords : reqs' = [reqs EXCEPT ![k] = q] /\ q.pc # "prod_trigger"
      BY <3>1, <1>t, Statuses DEF Request, RequestRecords, RequestSteps, AnyUrl
    <3>3. AboutToDeploy(k) /\ changes' = changes
      BY <2>6 DEF ProdTrigger, AboutToDeploy
    <3>4. QED
      BY <3>1, <3>2, <3>3, <1>t, DeployKeepsOneDeployment DEF RequestRecords
  <2>7. CASE ProdTriggerFails(k)
    <3>1. CASE builds' = builds
      BY <2>7, <3>1, <2>0, <1>t, <1>b, QuietStepKeepsOneDeployment
      DEF ProdTriggerFails, GoTo, QuietStep, AboutToDeploy, RequestRecords
    <3>2. ASSUME NEW b \in Builds, StartBuild(b, "prod", reqs[k].of)
          PROVE  OneDeployment'
      <4> DEFINE q == [reqs[k] EXCEPT !.pc = "prod_abort"]
      <4>1. q \in RequestRecords /\ q.pc # "prod_trigger"
        BY <1>t DEF RequestRecords, RequestSteps
      <4>2. reqs' = [reqs EXCEPT ![k] = q]
        BY <2>7, <1>t DEF ProdTriggerFails, GoTo
      <4>3. AboutToDeploy(k) /\ changes' = changes
        BY <2>7 DEF ProdTriggerFails, AboutToDeploy
      <4>4. QED
        BY <3>2, <4>1, <4>2, <4>3, <1>t, DeployKeepsOneDeployment DEF RequestRecords
    <3>3. QED
      BY <2>7, <3>1, <3>2 DEF ProdTriggerFails
  <2>8. CASE ProdAbort(k) \/ ProdRecord(k)
    BY <2>8, <2>0, <1>b, <1>q, QuietStepKeepsOneDeployment
    DEF ProdAbort, ProdRecord, Finalize, Done, QuietStep
  <2>9. QED
    BY <1>2, <2>1, <2>2, <2>3, <2>4, <2>5, <2>6, <2>7, <2>8 DEF RequestStep
<1>3. ASSUME NEW k \in Clients, NEW c \in Changes, RequestArrives(k, c) PROVE OneDeployment'
  <2>0. Next
    BY <1>3 DEF Next
  <2>1. CASE DevCheck(k, c) \/ RefreshRead(k, c)
    BY <2>1, <2>0, <1>t, <1>b, QuietStepKeepsOneDeployment
    DEF DevCheck, RefreshRead, Request, QuietStep, AboutToDeploy
  <2>2. QED
    BY <1>3, <2>1, ReserveKeepsOneDeployment DEF RequestArrives
<1>4. ASSUME Next,
             \/ \E c \in Changes, d \in {"approve", "reject"}, by \in Actors : Decide(c, d, by)
             \/ \E c \in Changes, g \in Runs : StartAgents(c, g)
             \/ \E g \in Runs : AgentStep(g)
      PROVE  OneDeployment'
  <2>1. builds' = builds /\ reqs' = reqs
    BY <1>4 DEF Decide, StartAgents, AgentStep, Investigated, RecordProgress, GoOn, SendBack, Retry,
                RetryOverBudget, FixCrashed, Escalate, Package, NodeRaises, CrashNode, AgentCall
  <2>2. QED
    BY <2>1, <1>4, <1>b, QuietStepKeepsOneDeployment DEF QuietStep
<1>5. ASSUME Next, (\E b \in Builds : BuildEnds(b)) \/ Restart PROVE OneDeployment'
  <2>1. \A c \in Changes : BuildsOf(c, "prod")' = BuildsOf(c, "prod")
    BY <1>5, <1>t DEF BuildEnds, Restart, BuildsOf, BuildRecords
  <2>2. \A k \in Clients : AboutToDeploy(k)' => reqs'[k] = reqs[k]
    BY <1>5, NoRequestType DEF BuildEnds, Restart, AboutToDeploy
  <2>3. QED
    BY <2>1, <2>2, <1>5, QuietStepKeepsOneDeployment DEF QuietStep
<1>6. QED
  BY <1>1, <1>2, <1>3, <1>4, <1>5 DEF Next

LEMMA InitOneDeployment == Init => OneDeployment
<1> SUFFICES ASSUME Init PROVE OneDeployment
  OBVIOUS
<1>1. \A c \in Changes : BuildsOf(c, "prod") = {}
  BY DEF Init, BuildsOf
<1>2. \A k \in Clients : ~AboutToDeploy(k)
  BY NoRequestType DEF Init, AboutToDeploy
<1>3. QED
  BY <1>1, <1>2 DEF OneDeployment, DeployedOnce

\* However many promote requests race, retry or are lost in a restart, a change is deployed
\* to production at most once, and only under its reservation.
THEOREM DeploysOnce == Spec => []DeployedOnce
<1>1. Typed /\ RecordsOK /\ OneDeployment /\ [Next]_vars => OneDeployment'
  BY NextOneDeployment
<1>2. OneDeployment => DeployedOnce
  BY DEF OneDeployment
<1>3. QED
  BY InitOneDeployment, <1>1, <1>2, RecordsInvariant, PTL DEF Spec

-----------------------------------------------------------------------------
(* The evidence. *)
IsBuild(b, kind, c) == b \in Builds /\ builds[b].kind = kind /\ builds[b].of = c

Succeeded(b) == builds[b].status = "SUCCESS"

\* What a request thread holds in hand.
RequestGrounded(q) ==
    /\ q.pc \in {"dev_poll", "dev_record"} /\ q.build \in Builds => IsBuild(q.build, "dev", q.of)
    /\ q.pc = "dev_record" => q.build \in Builds
    /\ q.pc \in {"prod_poll", "prod_refresh", "prod_record"} => IsBuild(q.build, "prod", q.of)
    /\ q.pc \in {"dev_record", "prod_record"} /\ q.saw = "SUCCESS" => Succeeded(q.build)
    /\ q.pc = "prod_poll" => q.saw # "SUCCESS"

\* What the record of change c says.
RecordGrounded(c, r) ==
    /\ r.devUrl \in Builds => IsBuild(r.devUrl, "dev", c)
    /\ r.prodUrl \in Builds => IsBuild(r.prodUrl, "prod", c)
    /\ r.state = "dev_fix_in_progress" => r.devUrl # NoBuild
    /\ r.state = "ready_for_prod" =>
          r.dev = "passed" /\ (r.devUrl # AgentDeploy => r.devUrl \in Builds /\ Succeeded(r.devUrl))
    /\ r.state = "promoted_to_prod" => \E b \in Builds : IsBuild(b, "prod", c) /\ Succeeded(b)

RequestsGrounded ==
    \A k \in Clients, q \in RequestRecords : reqs[k] = q => RequestGrounded(q)

RecordsGrounded ==
    \A c \in Changes, r \in Records : changes[c] = r => RecordGrounded(c, r)

Grounded == RequestsGrounded /\ RecordsGrounded

-----------------------------------------------------------------------------
(* Jenkins never takes back what it said of a build. *)
BuildsGrow ==
    \A b \in Builds : builds[b].kind # "none" =>
        /\ builds'[b].kind = builds[b].kind
        /\ builds'[b].of = builds[b].of
        /\ Succeeded(b) => builds'[b].status = "SUCCESS"

LEMMA StartGrows ==
    ASSUME Typed, NEW b \in Builds, NEW kind, NEW c, StartBuild(b, kind, c)
    PROVE  BuildsGrow
  BY TypesOf DEF Typed, StartBuild, BuildsGrow, Succeeded

LEMMA SameGrows == ASSUME UNCHANGED builds PROVE BuildsGrow
  BY DEF BuildsGrow, Succeeded

LEMMA NextBuildsGrow ==
    ASSUME Typed, [Next]_vars PROVE BuildsGrow
<1>1. CASE UNCHANGED builds
  BY <1>1, SameGrows
<1>2. ASSUME NEW k \in Clients, RequestStep(k) PROVE BuildsGrow
  BY <1>2, StartGrows, SameGrows
  DEF RequestStep, DevTrigger, DevTriggerFails, Poll, PollFails, DevRecord, ProdTrigger,
      ProdTriggerFails, ProdAbort, ProdRecord, Finalize
<1>3. ASSUME NEW b \in Builds, BuildEnds(b) PROVE BuildsGrow
  BY <1>3, TypesOf DEF Typed, BuildEnds, BuildsGrow, Succeeded, BuildRecords
<1>4. CASE \E k \in Clients, c \in Changes : RequestArrives(k, c)
  BY <1>4, <1>1 DEF RequestArrives, DevCheck, RefreshRead, PromoteReserve
<1>5. CASE \/ \E c \in Changes, d \in {"approve", "reject"}, by \in Actors : Decide(c, d, by)
           \/ \E c \in Changes, g \in Runs : StartAgents(c, g)
           \/ \E g \in Runs : AgentStep(g)
           \/ Restart
  BY <1>5, <1>1 DEF Decide, StartAgents, AgentStep, Investigated, RecordProgress, GoOn, SendBack, Retry,
                RetryOverBudget, FixCrashed, Escalate, Package, NodeRaises, CrashNode, AgentCall, Restart
<1>6. QED
  BY <1>1, <1>2, <1>3, <1>4, <1>5 DEF Next, vars

LEMMA BuildStaysBuild ==
    ASSUME BuildsGrow, NEW b, NEW kind \in {"dev", "prod"}, NEW c, IsBuild(b, kind, c)
    PROVE  IsBuild(b, kind, c)' /\ (Succeeded(b) => Succeeded(b)')
  BY DEF BuildsGrow, IsBuild, Succeeded

LEMMA RequestStaysGrounded ==
    ASSUME BuildsGrow, NEW q \in RequestRecords, RequestGrounded(q)
    PROVE  RequestGrounded(q)'
  BY BuildStaysBuild DEF RequestGrounded

LEMMA RecordStaysGrounded ==
    ASSUME BuildsGrow, NEW c \in Changes, NEW r \in Records, RecordGrounded(c, r)
    PROVE  RecordGrounded(c, r)'
<1>1. r.devUrl \in Builds => IsBuild(r.devUrl, "dev", c)' /\ (Succeeded(r.devUrl) => Succeeded(r.devUrl)')
  BY BuildStaysBuild DEF RecordGrounded
<1>2. r.prodUrl \in Builds => IsBuild(r.prodUrl, "prod", c)'
  BY BuildStaysBuild DEF RecordGrounded
<1>3. r.state = "promoted_to_prod" => \E b \in Builds : IsBuild(b, "prod", c)' /\ Succeeded(b)'
  BY BuildStaysBuild DEF RecordGrounded
<1>4. QED
  BY <1>1, <1>2, <1>3 DEF RecordGrounded

-----------------------------------------------------------------------------
(* A write that invents nothing: what it records of Jenkins is so when it is recorded. *)
GroundedStep(c, r, s) ==
    \/ s = r
    \/ \E u \in Builds, j \in JenkinsStatuses, v \in DevVerdicts :
          /\ IsBuild(u, "dev", c)
          /\ v = "passed" => Succeeded(u)
          /\ s = WithDevExecution(r, u, j, v)
    \/ s = BeginAgentRun(r)
    \/ \E to \in AgentStates, d \in {"sound", "weak"} : s = RecordAgentStep(r, to, d)
    \/ s = FinishAgentRun(r)
    \/ \E d \in {"approve", "reject"}, u \in Actors : CanDecide(r, d) /\ s = ApplyDecision(r, d, u)
    \/ \E u \in ReleaseOperators : s = BeginPromotion(r, u)
    \/ \E res \in {"success", "queued", "failed"}, u \in Builds \union {NoBuild} :
          /\ u # NoBuild => IsBuild(u, "prod", c)
          /\ res = "success" => u # NoBuild /\ Succeeded(u)
          /\ s = FinalizePromotion(r, res, u)

LEMMA GroundedStepKeepsRecord ==
    ASSUME NEW c \in Changes, NEW r \in Records, RecordGrounded(c, r), NEW s, GroundedStep(c, r, s)
    PROVE  RecordGrounded(c, s)
<1>1. ASSUME NEW u \in Builds, NEW j \in JenkinsStatuses, NEW v \in DevVerdicts,
             IsBuild(u, "dev", c), v = "passed" => Succeeded(u), s = WithDevExecution(r, u, j, v)
      PROVE  RecordGrounded(c, s)
  BY <1>1, SentinelAssumption
  DEF RecordGrounded, WithDevExecution, DevStateFor, DevStatusFor, DevVerdicts, Records, SentinelAssumption
<1>2. ASSUME s = BeginAgentRun(r) PROVE RecordGrounded(c, s)
  BY <1>2 DEF RecordGrounded, BeginAgentRun, Records
<1>3. ASSUME NEW to \in AgentStates, NEW d \in {"sound", "weak"}, s = RecordAgentStep(r, to, d)
      PROVE  RecordGrounded(c, s)
  <2>1. to \notin {"ready_for_prod", "promoted_to_prod", "dev_fix_in_progress"}
    BY DEF AgentStates
  <2>2. QED
    BY <1>3, <2>1 DEF RecordGrounded, RecordAgentStep, Records
<1>4. ASSUME s = FinishAgentRun(r) PROVE RecordGrounded(c, s)
  BY <1>4, SentinelAssumption
  DEF RecordGrounded, FinishAgentRun, WithDevExecution, DevStateFor, DevStatusFor, Records, SentinelAssumption
<1>5. ASSUME NEW d \in {"approve", "reject"}, NEW u \in Actors, CanDecide(r, d), s = ApplyDecision(r, d, u)
      PROVE  RecordGrounded(c, s)
  BY <1>5 DEF RecordGrounded, ApplyDecision, CanDecide, Records
<1>6. ASSUME NEW u \in ReleaseOperators, s = BeginPromotion(r, u) PROVE RecordGrounded(c, s)
  BY <1>6 DEF RecordGrounded, BeginPromotion, Records
<1>7. ASSUME NEW res \in {"success", "queued", "failed"}, NEW u \in Builds \union {NoBuild},
             u # NoBuild => IsBuild(u, "prod", c), res = "success" => u # NoBuild /\ Succeeded(u),
             s = FinalizePromotion(r, res, u)
      PROVE  RecordGrounded(c, s)
  BY <1>7 DEF RecordGrounded, FinalizePromotion, Records
<1>8. QED
  BY <1>1, <1>2, <1>3, <1>4, <1>5, <1>6, <1>7 DEF GroundedStep

GroundedWrites == \A c \in Changes : GroundedStep(c, changes[c], changes'[c])

LEMMA WritesKeepRecordsGrounded ==
    ASSUME Typed, RecordsGrounded, BuildsGrow, GroundedWrites, changes' \in [Changes -> Records]
    PROVE  RecordsGrounded'
<1>1. ASSUME NEW c \in Changes, NEW s \in Records, changes'[c] = s
      PROVE  RecordGrounded(c, s)'
  <2>1. PICK r \in Records : changes[c] = r /\ RecordGrounded(c, r)
    BY TypesOf DEF Typed, RecordsGrounded
  <2>2. RecordGrounded(c, s)
    BY <1>1, <2>1, GroundedStepKeepsRecord DEF GroundedWrites
  <2>3. QED
    BY <2>2, RecordStaysGrounded
<1>2. QED
  BY <1>1 DEF RecordsGrounded

LEMMA OneWrite ==
    ASSUME Typed, NEW c \in Changes, NEW s, Write(c, s), GroundedStep(c, changes[c], s)
    PROVE  GroundedWrites
<1>1. changes \in [Changes -> Records]
  BY TypesOf DEF Typed
<1>2. \A d \in Changes : changes'[d] = changes[d] \/ (d = c /\ changes'[d] = s)
  BY <1>1 DEF Write
<1>3. QED
  BY <1>2 DEF GroundedWrites, GroundedStep

LEMMA NoWrite == ASSUME UNCHANGED changes PROVE GroundedWrites
  BY DEF GroundedWrites, GroundedStep

-----------------------------------------------------------------------------
(* A request thread that moves takes only what is so. *)
LEMMA MoveKeepsRequestsGrounded ==
    ASSUME Typed, RequestsGrounded, BuildsGrow, NEW k \in Clients, NEW q \in RequestRecords,
           reqs' = [reqs EXCEPT ![k] = q], RequestGrounded(q)'
    PROVE  RequestsGrounded'
<1>1. ASSUME NEW j \in Clients, NEW p \in RequestRecords, reqs'[j] = p PROVE RequestGrounded(p)'
  <2>1. reqs \in [Clients -> RequestRecords]
    BY TypesOf DEF Typed
  <2>2. CASE j = k
    BY <1>1, <2>1, <2>2
  <2>3. CASE j # k
    <3>1. reqs[j] = p /\ RequestGrounded(p)
      BY <1>1, <2>1, <2>3 DEF RequestsGrounded
    <3>2. QED
      BY <3>1, RequestStaysGrounded
  <2>4. QED
    BY <2>2, <2>3
<1>2. QED
  BY <1>1 DEF RequestsGrounded

LEMMA IdleIsGrounded == RequestGrounded(NoRequest) /\ RequestGrounded(NoRequest)'
  BY NoRequestType DEF RequestGrounded

LEMMA DoneKeepsRequestsGrounded ==
    ASSUME Typed, RequestsGrounded, BuildsGrow, NEW k \in Clients, Done(k)
    PROVE  RequestsGrounded'
  BY NoRequestType, IdleIsGrounded, MoveKeepsRequestsGrounded DEF Done

LEMMA SameKeepsRequestsGrounded ==
    ASSUME Typed, RequestsGrounded, BuildsGrow, UNCHANGED reqs
    PROVE  RequestsGrounded'
<1>1. ASSUME NEW k \in Clients, NEW q \in RequestRecords, reqs'[k] = q PROVE RequestGrounded(q)'
  BY <1>1, RequestStaysGrounded DEF RequestsGrounded
<1>2. QED
  BY <1>1 DEF RequestsGrounded

\* The steps of a request thread.
LEMMA RequestStepGrounded ==
    ASSUME Typed, Grounded, NEW k \in Clients, RequestStep(k), BuildsGrow
    PROVE  GroundedWrites /\ RequestsGrounded'
<1> DEFINE q == reqs[k]
<1>t. /\ builds \in [Builds -> BuildRecords]
      /\ reqs \in [Clients -> RequestRecords]
      /\ q \in RequestRecords
      /\ q.of \in Changes /\ q.build \in AnyUrl /\ q.saw \in JenkinsStatuses
  BY TypesOf DEF Typed, RequestRecords
<1>g. RequestGrounded(q)
  BY <1>t DEF Grounded, RequestsGrounded
<1>d. Done(k) => RequestsGrounded'
  BY DoneKeepsRequestsGrounded DEF Grounded
\* A trigger that answered: the new build is of the kind and the change asked for.
<1>n. ASSUME NEW kind \in {"dev", "prod"}, NEW b \in Builds, NEW c \in Changes, StartBuild(b, kind, c),
             NEW pc \in RequestSteps, NEW saw \in JenkinsStatuses, saw # "SUCCESS",
             Request(k, pc, c, b, saw),
             pc \in (IF kind = "dev" THEN {"dev_poll", "dev_record"} ELSE {"prod_poll", "prod_record"})
      PROVE  RequestsGrounded'
  <2> DEFINE p == [pc |-> pc, of |-> c, build |-> b, saw |-> saw]
  <2>1. p \in RequestRecords /\ reqs' = [reqs EXCEPT ![k] = p]
    BY <1>n DEF RequestRecords, AnyUrl, Request
  <2>2. IsBuild(b, kind, c)'
    BY <1>n, <1>t DEF StartBuild, IsBuild, BuildRecords
  <2>3. RequestGrounded(p)'
    BY <1>n, <2>2 DEF RequestGrounded
  <2>4. QED
    BY <2>1, <2>3, MoveKeepsRequestsGrounded DEF Grounded
\* A thread that keeps its build in hand.
<1>m. ASSUME NEW p \in RequestRecords, reqs' = [reqs EXCEPT ![k] = p], RequestGrounded(p)
      PROVE  RequestsGrounded'
  BY <1>m, RequestStaysGrounded, MoveKeepsRequestsGrounded DEF Grounded
<1>p. {"dev_record", "prod_record", "dev_poll", "prod_poll", "prod_abort"} \subseteq RequestSteps
  BY DEF RequestSteps
<1>1. CASE DevTrigger(k)
  BY <1>1, <1>n, <1>t, <1>p, Statuses, NoWrite DEF DevTrigger
<1>2. CASE DevTriggerFails(k)
  BY <1>2, <1>d, NoWrite DEF DevTriggerFails
<1>3. CASE Poll(k)
  <2> DEFINE pc == IF q.pc = "dev_poll" THEN "dev_record" ELSE "prod_record"
             p == [q EXCEPT !.pc = pc, !.saw = builds[q.build].status]
  <2>1. q.build \in Builds /\ q.pc \in {"dev_poll", "prod_poll", "prod_refresh"}
    BY <1>3 DEF Poll
  <2>2. builds[q.build].status \in JenkinsStatuses
    BY <2>1, <1>t, Statuses DEF BuildRecords, BuildOutcomes
  <2>3. p \in RequestRecords /\ reqs' = [reqs EXCEPT ![k] = p]
    BY <1>3, <1>t, <1>p, <2>2 DEF Poll, RequestRecords
  <2>4. /\ p.pc = pc /\ p.of = q.of /\ p.build = q.build /\ p.saw = builds[q.build].status
    BY <1>t DEF RequestRecords
  <2>5. RequestGrounded(p)
    BY <1>g, <2>1, <2>4 DEF RequestGrounded, Succeeded
  <2>6. QED
    BY <1>3, <1>m, <2>3, <2>5, NoWrite DEF Poll
<1>4. CASE PollFails(k)
  <2>1. CASE q.pc = "prod_poll" /\ GoTo(k, "prod_record")
    <3> DEFINE p == [q EXCEPT !.pc = "prod_record"]
    <3>1. p \in RequestRecords /\ reqs' = [reqs EXCEPT ![k] = p]
      BY <2>1, <1>t, <1>p DEF GoTo, RequestRecords
    <3>2. p.pc = "prod_record" /\ p.of = q.of /\ p.build = q.build /\ p.saw = q.saw
      BY <1>t DEF RequestRecords
    <3>3. RequestGrounded(p)
      BY <1>g, <2>1, <3>2 DEF RequestGrounded
    <3>4. QED
      BY <1>4, <1>m, <3>1, <3>3, NoWrite DEF PollFails
  <2>2. QED
    BY <1>4, <1>d, <2>1, NoWrite DEF PollFails
<1>5. CASE DevRecord(k)
  <2>1. PICK v \in VerdictsFor(q.saw) :
          IF CanRecordDev(changes[q.of], v)
          THEN Write(q.of, WithDevExecution(changes[q.of], q.build, q.saw, v))
          ELSE UNCHANGED changes
    BY <1>5 DEF DevRecord
  <2>2. v \in DevVerdicts /\ (v = "passed" => q.saw = "SUCCESS")
    BY DEF VerdictsFor, DevVerdicts
  <2>3. q.build \in Builds /\ IsBuild(q.build, "dev", q.of) /\ (v = "passed" => Succeeded(q.build))
    BY <1>5, <1>g, <2>2 DEF DevRecord, RequestGrounded
  <2>4. GroundedStep(q.of, changes[q.of], WithDevExecution(changes[q.of], q.build, q.saw, v))
    BY <1>t, <2>2, <2>3 DEF GroundedStep
  <2>5. QED
    BY <1>5, <1>t, <1>d, <2>1, <2>4, OneWrite, NoWrite DEF DevRecord
<1>6. CASE ProdTrigger(k)
  BY <1>6, <1>n, <1>t, <1>p, Statuses, NoWrite DEF ProdTrigger
<1>7. CASE ProdTriggerFails(k)
  <2> DEFINE p == [q EXCEPT !.pc = "prod_abort"]
  <2>1. p \in RequestRecords /\ reqs' = [reqs EXCEPT ![k] = p] /\ p.pc = "prod_abort"
    BY <1>7, <1>t, <1>p DEF ProdTriggerFails, GoTo, RequestRecords
  <2>2. RequestGrounded(p)
    BY <2>1 DEF RequestGrounded
  <2>3. QED
    BY <1>7, <1>m, <2>1, <2>2, NoWrite DEF ProdTriggerFails
<1>f. ASSUME NEW res \in {"success", "queued", "failed"}, NEW u \in Builds \union {NoBuild},
             u # NoBuild => IsBuild(u, "prod", q.of), res = "success" => u # NoBuild /\ Succeeded(u),
             Finalize(k, res, u)
      PROVE  GroundedWrites /\ RequestsGrounded'
  <2>1. GroundedStep(q.of, changes[q.of], FinalizePromotion(changes[q.of], res, u))
    BY <1>f DEF GroundedStep
  <2>2. QED
    BY <1>f, <1>t, <1>d, <2>1, OneWrite, NoWrite DEF Finalize
<1>8. CASE ProdAbort(k)
  BY <1>8, <1>f DEF ProdAbort
<1>9. CASE ProdRecord(k)
  <2>1. /\ PromotionResultFor(q.saw) \in {"success", "queued", "failed"}
        /\ PromotionResultFor(q.saw) = "success" => q.saw = "SUCCESS"
    BY DEF PromotionResultFor
  <2>2. /\ IsBuild(q.build, "prod", q.of) /\ q.build \in Builds /\ q.build # NoBuild
        /\ q.saw = "SUCCESS" => Succeeded(q.build)
    BY <1>9, <1>g, SentinelAssumption DEF ProdRecord, RequestGrounded, IsBuild, SentinelAssumption
  <2>3. QED
    BY <1>9, <1>f, <2>1, <2>2 DEF ProdRecord
<1>10. QED
  BY <1>1, <1>2, <1>3, <1>4, <1>5, <1>6, <1>7, <1>8, <1>9 DEF RequestStep

\* The requests that arrive take their url from the record.
LEMMA RequestArrivesGrounded ==
    ASSUME Typed, Grounded, NEW k \in Clients, NEW c \in Changes, RequestArrives(k, c), BuildsGrow
    PROVE  GroundedWrites /\ RequestsGrounded'
<1>t. changes[c] \in Records /\ RecordGrounded(c, changes[c])
  BY TypesOf DEF Typed, Grounded, RecordsGrounded
<1>r. ASSUME NEW pc \in {"dev_trigger", "prod_trigger", "dev_poll", "prod_refresh"}, NEW b \in AnyUrl,
             pc = "dev_poll" /\ b \in Builds => IsBuild(b, "dev", c),
             pc = "prod_refresh" => IsBuild(b, "prod", c),
             Request(k, pc, c, b, "QUEUED")
      PROVE  RequestsGrounded'
  <2> DEFINE p == [pc |-> pc, of |-> c, build |-> b, saw |-> "QUEUED"]
  <2>1. p \in RequestRecords /\ reqs' = [reqs EXCEPT ![k] = p]
    BY <1>r, Statuses DEF Request, RequestRecords, RequestSteps
  <2>2. RequestGrounded(p)
    BY <1>r DEF RequestGrounded
  <2>3. QED
    BY <2>1, <2>2, RequestStaysGrounded, MoveKeepsRequestsGrounded DEF Grounded
<1>u. NoBuild \in AnyUrl /\ changes[c].devUrl \in AnyUrl /\ changes[c].prodUrl \in Builds \union {NoBuild}
  BY <1>t DEF AnyUrl, Records
<1>1. CASE DevCheck(k, c)
  BY <1>1, <1>r, <1>u, NoWrite DEF DevCheck
<1>2. CASE RefreshRead(k, c)
  <2>1. CASE changes[c].prodUrl # NoBuild /\ Request(k, "prod_refresh", c, changes[c].prodUrl, "QUEUED")
    <3>1. IsBuild(changes[c].prodUrl, "prod", c) /\ changes[c].prodUrl \in AnyUrl
      BY <2>1, <1>t, <1>u DEF RecordGrounded, AnyUrl
    <3>2. QED
      BY <1>2, <2>1, <3>1, <1>r, NoWrite DEF RefreshRead
  <2>2. CASE Request(k, "dev_poll", c, changes[c].devUrl, "QUEUED")
    <3>1. changes[c].devUrl \in Builds => IsBuild(changes[c].devUrl, "dev", c)
      BY <1>t DEF RecordGrounded
    <3>2. QED
      BY <1>2, <2>2, <3>1, <1>r, <1>u, NoWrite DEF RefreshRead
  <2>3. QED
    BY <1>2, <2>1, <2>2 DEF RefreshRead
<1>3. ASSUME NEW by \in ReleaseOperators, PromoteReserve(k, c, by)
      PROVE  GroundedWrites /\ RequestsGrounded'
  <2>1. GroundedStep(c, changes[c], BeginPromotion(changes[c], by))
    BY DEF GroundedStep
  <2>2. QED
    BY <1>3, <2>1, <1>r, <1>u, OneWrite DEF PromoteReserve
<1>4. QED
  BY <1>1, <1>2, <1>3 DEF RequestArrives

\* An agent run brings its own evidence and no url of Jenkins.
LEMMA AgentsGrounded ==
    ASSUME Typed, NEW g \in Runs, (\E c \in Changes : StartAgents(c, g)) \/ AgentStep(g)
    PROVE  GroundedWrites /\ UNCHANGED <<builds, reqs>>
<1>t. run[g].of \in Changes /\ changes[run[g].of].diagnosis \in {"sound", "weak"}
  BY TypesOf DEF Typed, RunRecords, Records
<1>0. ASSUME NEW c \in Changes, StartAgents(c, g) PROVE GroundedWrites /\ UNCHANGED <<builds, reqs>>
  <2>1. GroundedStep(c, changes[c], BeginAgentRun(changes[c]))
    BY DEF GroundedStep
  <2>2. QED
    BY <1>0, <2>1, OneWrite DEF StartAgents
<1>c. ASSUME NEW to \in AgentStates, NEW d \in {"sound", "weak"}, NEW next, NEW onError,
             AgentCall(g, to, d, next, onError)
      PROVE  GroundedWrites /\ UNCHANGED <<builds, reqs>>
  <2>1. GroundedStep(run[g].of, changes[run[g].of], RecordAgentStep(changes[run[g].of], to, d))
    BY DEF GroundedStep
  <2>2. QED
    BY <1>c, <1>t, <2>1, OneWrite, NoWrite DEF AgentCall
<1>a. {"hypothesis_ready", "escalated", "fixing", "verifying", "reviewing"} \subseteq AgentStates
  BY DEF AgentStates
<1>d. Diagnosis(g) \in {"sound", "weak"}
  BY <1>t DEF Diagnosis
<1>1. CASE Investigated(g) \/ RecordProgress(g) \/ RetryOverBudget(g) \/ FixCrashed(g) \/ Escalate(g) \/ CrashNode(g)
  <2>1. CASE Investigated(g)
    BY <2>1, <1>c, <1>a DEF Investigated
  <2>2. CASE RecordProgress(g)
    <3>1. \A at \in DOMAIN ProgressAt : ProgressAt[at].to \in AgentStates
      BY <1>a DEF ProgressAt
    <3>2. QED
      BY <2>2, <3>1, <1>c, <1>d DEF RecordProgress
  <2>3. CASE RetryOverBudget(g) \/ FixCrashed(g) \/ CrashNode(g)
    BY <2>3, <1>c, <1>a, <1>d DEF RetryOverBudget, FixCrashed, CrashNode
  <2>4. CASE Escalate(g)
    BY <2>4, <1>c, <1>a DEF Escalate
  <2>5. QED
    BY <1>1, <2>1, <2>2, <2>3, <2>4
<1>2. CASE Package(g)
  <2>1. GroundedStep(run[g].of, changes[run[g].of], FinishAgentRun(changes[run[g].of]))
    BY DEF GroundedStep
  <2>2. QED
    BY <1>2, <1>t, <2>1, OneWrite, NoWrite DEF Package
<1>3. CASE GoOn(g) \/ SendBack(g) \/ Retry(g) \/ NodeRaises(g)
  BY <1>3, NoWrite DEF GoOn, SendBack, Retry, NodeRaises
<1>4. QED
  BY <1>0, <1>1, <1>2, <1>3 DEF AgentStep

LEMMA NextGrounded ==
    ASSUME Typed, Grounded, [Next]_vars
    PROVE  Grounded'
<1>g. BuildsGrow
  BY NextBuildsGrow
<1>s. SUFFICES GroundedWrites /\ RequestsGrounded'
  BY <1>g, WritesKeepRecordsGrounded, NextTyped DEF Grounded, StoreStep
<1>1. CASE UNCHANGED vars
  BY <1>1, <1>g, NoWrite, SameKeepsRequestsGrounded DEF vars, Grounded
<1>2. CASE \E k \in Clients : RequestStep(k)
  BY <1>2, <1>g, RequestStepGrounded
<1>3. CASE \E k \in Clients, c \in Changes : RequestArrives(k, c)
  BY <1>3, <1>g, RequestArrivesGrounded
<1>4. ASSUME NEW c \in Changes, NEW d \in {"approve", "reject"}, NEW by \in Actors, Decide(c, d, by)
      PROVE  GroundedWrites /\ RequestsGrounded'
  <2>1. GroundedStep(c, changes[c], ApplyDecision(changes[c], d, by))
    BY <1>4 DEF GroundedStep, Decide
  <2>2. QED
    BY <1>4, <1>g, <2>1, OneWrite, SameKeepsRequestsGrounded DEF Decide, Grounded
<1>5. CASE (\E c \in Changes, g \in Runs : StartAgents(c, g)) \/ (\E g \in Runs : AgentStep(g))
  BY <1>5, <1>g, AgentsGrounded, SameKeepsRequestsGrounded DEF Grounded
<1>6. CASE \E b \in Builds : BuildEnds(b)
  BY <1>6, <1>g, NoWrite, SameKeepsRequestsGrounded DEF BuildEnds, Grounded
<1>7. CASE Restart
  <2>1. GroundedWrites
    BY <1>7 DEF Restart, GroundedWrites, GroundedStep, RecoverInterruptedRun, AgentStates,
                Typed, TypeOK, Records
  <2>2. \A k \in Clients : reqs'[k] = NoRequest
    BY <1>7 DEF Restart
  <2>3. QED
    BY <2>1, <2>2, IdleIsGrounded DEF RequestsGrounded, RequestGrounded
<1>8. QED
  BY <1>1, <1>2, <1>3, <1>4, <1>5, <1>6, <1>7 DEF Next

LEMMA InitGrounded == Init => Grounded
<1> SUFFICES ASSUME Init PROVE Grounded
  OBVIOUS
<1>1. RequestsGrounded
  BY IdleIsGrounded DEF Init, RequestsGrounded
<1>2. \A c \in Changes : \A o : RecordGrounded(c, CreateChange(o))
  BY SentinelAssumption DEF RecordGrounded, CreateChange, SentinelAssumption
<1>3. RecordsGrounded
  BY <1>2 DEF Init, RecordsGrounded
<1>4. QED
  BY <1>1, <1>3 DEF Grounded

LEMMA GroundedInvariant == Spec => [](Typed /\ Grounded)
<1>1. Typed /\ Grounded /\ [Next]_vars => (Typed /\ Grounded)'
  BY NextTyped, NextGrounded
<1>2. QED
  BY InitTyped, InitGrounded, <1>1, PTL DEF Spec

\* promoted_to_prod is never a guess: whatever is polled late, refreshed or lost, a promoted
\* change has a production build of its own that succeeded.
THEOREM PromotionIsConfirmed == Spec => []PromotedWasDeployed
<1>1. Typed /\ Grounded => PromotedWasDeployed
  <2> SUFFICES ASSUME Typed, Grounded, NEW c \in Changes, changes[c].state = "promoted_to_prod"
               PROVE  \E b \in BuildsOf(c, "prod") : builds[b].status = "SUCCESS"
    BY DEF PromotedWasDeployed
  <2>1. RecordGrounded(c, changes[c])
    BY TypesOf DEF Typed, Grounded, RecordsGrounded
  <2>2. QED
    BY <2>1 DEF RecordGrounded, IsBuild, Succeeded, BuildsOf
<1>2. QED
  BY <1>1, GroundedInvariant, PTL

\* A change offered for approval has evidence of its own: the deploy its agent run verified, or
\* a dev build of this change that succeeded, however many builds and refreshes overlapped.
THEOREM ReadinessIsEarned == Spec => []ReadyWasValidated
<1>1. Typed /\ Grounded => ReadyWasValidated
  <2> SUFFICES ASSUME Typed, Grounded, NEW c \in Changes, changes[c].state = "ready_for_prod"
               PROVE  /\ changes[c].dev = "passed"
                      /\ \/ changes[c].devUrl = AgentDeploy
                         \/ /\ changes[c].devUrl \in BuildsOf(c, "dev")
                            /\ builds[changes[c].devUrl].status = "SUCCESS"
    BY DEF ReadyWasValidated
  <2>1. RecordGrounded(c, changes[c])
    BY TypesOf DEF Typed, Grounded, RecordsGrounded
  <2>2. QED
    BY <2>1 DEF RecordGrounded, IsBuild, Succeeded, BuildsOf
<1>2. QED
  BY <1>1, GroundedInvariant, PTL

=============================================================================
