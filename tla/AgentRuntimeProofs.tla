------------------------- MODULE AgentRuntimeProofs -------------------------
(***************************************************************************)
(* Theorems about AgentRuntime, for every set of changes and runs, every   *)
(* size of the pool, any number of attempts and restarts, in real and in   *)
(* shadow mode: no change is left in a working state, nothing outlives the *)
(* runs it belongs to, what is shown to a person was checked and reviewed, *)
(* a run measures its own branch, and has only so many nodes to go through.*)
(***************************************************************************)
EXTENDS AgentRuntime, SequenceTheorems, TLAPS

RunRecords ==
    [at : Positions, of : Changes, attempt : 1 .. MaxAttempts, crashed : BOOLEAN,
     checked : SUBSET Edits, reviewed : SUBSET Edits, diff : SUBSET Edits,
     measured : Changes \union {None}, passed : BOOLEAN, alone : BOOLEAN]

\* A run is sent back only with attempts left, or its next attempt would have no number.
RetriesBounded == \A g \in Runs : run[g].at = "retry" => run[g].attempt < MaxAttempts

Typed == TypeOK /\ RetriesBounded

-----------------------------------------------------------------------------
(* What the operations on a record return. *)
LEMMA AgentStatesAreStates ==
    /\ AgentStates \subseteq DeploymentStates
    /\ {"investigating", "ready_for_prod", "blocked_by_policy", "closed_rejected", "awaiting_dev_execution"}
          \subseteq DeploymentStates
  BY DEF AgentStates, DeploymentStates, PRE_APPROVAL_STATES, TERMINAL_STATES

LEMMA OperationTypes ==
    ASSUME NEW r \in Records
    PROVE  /\ BeginAgentRun(r) \in Records
           /\ \A to \in AgentStates, d \in {"sound", "weak"} : RecordAgentStep(r, to, d) \in Records
           /\ FinishAgentRun(r) \in Records
           /\ \A d \in {"approve", "reject"}, by \in Approvers : ApplyDecision(r, d, by) \in Records
           /\ RecoverInterruptedRun(r) \in Records
<1>1. BeginAgentRun(r) \in Records
  BY AgentStatesAreStates DEF BeginAgentRun, Records
<1>2. ASSUME NEW to \in AgentStates, NEW d \in {"sound", "weak"} PROVE RecordAgentStep(r, to, d) \in Records
  <2>1. to \in DeploymentStates
    BY AgentStatesAreStates
  <2>2. QED
    BY <2>1 DEF RecordAgentStep, Records
<1>3. FinishAgentRun(r) \in Records
  BY AgentStatesAreStates
  DEF FinishAgentRun, WithDevExecution, DevStatusFor, DevStateFor, Records, JenkinsStatuses
<1>4. ASSUME NEW d \in {"approve", "reject"}, NEW by \in Approvers PROVE ApplyDecision(r, d, by) \in Records
  BY AgentStatesAreStates DEF ApplyDecision, Records, Actors
<1>5. RecoverInterruptedRun(r) \in Records
  <2>1. "escalated" \in AgentStates /\ r.diagnosis \in {"sound", "weak"}
    BY DEF AgentStates, Records
  <2>2. QED
    BY <1>2, <2>1 DEF RecoverInterruptedRun
<1>6. QED
  BY <1>1, <1>2, <1>3, <1>4, <1>5

-----------------------------------------------------------------------------
(* Types. *)
LEMMA TypesOf ==
    ASSUME Typed
    PROVE  /\ changes \in [Changes -> Records] /\ shown \in [Changes -> Offers]
           /\ shadow \in [Changes -> {"none", "running", "ready", "escalated"}]
           /\ mode \in {"real", "shadow"} /\ queue \in Seq(Runs) /\ run \in [Runs -> RunRecords]
           /\ sandboxes \subseteq Keys /\ budgets \in [Keys -> {"none", "open", "spent"}]
           /\ tree \in [Changes -> SUBSET Edits]
           /\ active \in [{ServiceOf[c] : c \in Changes} -> Changes \union {None}] /\ displaced \subseteq Runs
           /\ \A g \in Runs : /\ run[g] \in RunRecords /\ run[g].of \in Changes /\ Key(g) \in Keys
                              /\ run[g].attempt \in Nat \ {0}
                              /\ Edit(g, "fixer") \in Edits /\ Edit(g, "tests") \in Edits
  BY RuntimeAssumption DEF Edit, Typed, TypeOK, RuntimeAssumption, RunRecords, Key, Keys, Edits

LEMMA SomeChange == (CHOOSE c \in Changes : TRUE) \in Changes
  BY RuntimeAssumption DEF RuntimeAssumption

LEMMA NotStartedType == NotStarted \in RunRecords
  BY SomeChange, RuntimeAssumption DEF NotStarted, RunRecords, Positions, RuntimeAssumption

LEMMA InitTyped == Init => Typed
<1> SUFFICES ASSUME Init PROVE Typed
  OBVIOUS
<1>1. changes \in [Changes -> Records]
  BY RuntimeAssumption, AgentStatesAreStates
  DEF Init, RuntimeAssumption, CreateChange, Openings, Records, JenkinsStatuses, NonTerminalBuildStates
<1>2. run \in [Runs -> RunRecords] /\ \A g \in Runs : run[g].at = "none"
  BY NotStartedType DEF Init, NotStarted
<1>3. QED
  BY <1>1, <1>2, RuntimeAssumption
  DEF Init, Typed, TypeOK, RetriesBounded, RunRecords, NoOffer, Offers, RuntimeAssumption

\* A run that moves, and the rest stay where they are.
RunBecomes(g, r) ==
    /\ run' = [run EXCEPT ![g] = r]
    /\ r \in RunRecords
    /\ r.at = "retry" => r.attempt < MaxAttempts

LEMMA RunMovesTyped ==
    ASSUME Typed, NEW g \in Runs, NEW r, RunBecomes(g, r)
    PROVE  /\ run' \in [Runs -> RunRecords] /\ RetriesBounded'
           /\ run'[g] = r /\ \A h \in Runs \ {g} : run'[h] = run[h]
  BY TypesOf DEF RunBecomes, Typed, RetriesBounded

LEMMA RunAtTyped ==
    ASSUME Typed, NEW g \in Runs, NEW at \in Positions, at # "retry" \/ run[g].attempt < MaxAttempts, RunAt(g, at)
    PROVE  RunBecomes(g, [run[g] EXCEPT !.at = at])
<1>1. run[g] \in RunRecords
  BY TypesOf
<1>2. [run[g] EXCEPT !.at = at] \in RunRecords /\ [run[g] EXCEPT !.at = at].attempt = run[g].attempt
      /\ [run[g] EXCEPT !.at = at].at = at
  BY <1>1 DEF RunRecords
<1>3. QED
  BY <1>2 DEF RunBecomes, RunAt

\* A step of a run is recorded or refused; either way nothing else in the store moves.
LEMMA StepTyped ==
    ASSUME Typed, NEW g \in Runs, NEW to \in AgentStates, NEW d \in {"sound", "weak"},
           NEW next \in Positions \ {"retry"}, NEW onError \in Positions \ {"retry"},
           Step(g, to, d, next, onError)
    PROVE  /\ changes' \in [Changes -> Records]
           /\ shadow' \in [Changes -> {"none", "running", "ready", "escalated"}]
           /\ UNCHANGED shown
           /\ \E at \in {next, onError} : RunBecomes(g, [run[g] EXCEPT !.at = at])
<1>1. PICK at \in {next, onError} : RunAt(g, at)
  BY DEF Step
<1>2. RunBecomes(g, [run[g] EXCEPT !.at = at])
  BY <1>1, RunAtTyped
<1>3. CASE Record(g, to, d)
  <2>1. RecordAgentStep(changes[run[g].of], to, d) \in Records
    BY TypesOf, OperationTypes
  <2>2. QED
    BY <1>2, <1>3, <2>1, TypesOf DEF Record
<1>4. CASE UNCHANGED store
  BY <1>2, <1>4, TypesOf DEF store
<1>5. QED
  BY <1>3, <1>4 DEF Step

\* All a step needs to keep the shape of the state.
LEMMA StoreTyped ==
    ASSUME Typed, NEW g \in Runs, NEW r, RunBecomes(g, r), UNCHANGED <<mode, restarts>>,
           active' \in [{ServiceOf[c] : c \in Changes} -> Changes \union {None}], displaced' \subseteq Runs,
           changes' \in [Changes -> Records],
           shadow' \in [Changes -> {"none", "running", "ready", "escalated"}],
           shown' \in [Changes -> Offers], queue' \in Seq(Runs),
           sandboxes' \subseteq Keys, budgets' \in [Keys -> {"none", "open", "spent"}],
           tree' \in [Changes -> SUBSET Edits]
    PROVE  Typed'
<1>1. run' \in [Runs -> RunRecords] /\ RetriesBounded'
  BY RunMovesTyped
<1>2. QED
  BY <1>1 DEF Typed, TypeOK, RunRecords

Keeps(g, r) == r.of = run[g].of /\ (r.alone = run[g].alone \/ r.at = "done")

\* A step of a run moves that run only, which stays the run of its change.
LEMMA WorkTyped ==
    ASSUME Typed, NEW g \in Runs, Work(g)
    PROVE  Typed' /\ mode' = mode /\ \E r : RunBecomes(g, r) /\ Keeps(g, r)
<1>t. /\ run[g] \in RunRecords /\ Key(g) \in Keys /\ Diagnosis(g) \in {"sound", "weak"}
      /\ run[g].of \in Changes /\ run[g].attempt \in 1 .. MaxAttempts
  BY TypesOf DEF Diagnosis, Records, RunRecords
<1>at. ASSUME NEW at \in Positions
       PROVE  Keeps(g, [run[g] EXCEPT !.at = at]) /\ [run[g] EXCEPT !.at = at] \in RunRecords
  BY <1>t, <1>at DEF Keeps, RunRecords
<1>c. \A next \in {"crash", "release"} : AfterFix(g, next) \in {"crash", "release"}
  BY DEF AfterFix
\* A recorded step.
<1>s. ASSUME NEW to \in AgentStates, NEW d \in {"sound", "weak"},
             NEW next \in Positions \ {"retry"}, NEW onError \in Positions \ {"retry"},
             Step(g, to, d, next, onError), UNCHANGED <<mode, queue, runtime, tree, dev, restarts>>
      PROVE  Typed' /\ mode' = mode /\ \E r : RunBecomes(g, r) /\ Keeps(g, r)
  <2>1. /\ changes' \in [Changes -> Records]
        /\ shadow' \in [Changes -> {"none", "running", "ready", "escalated"}]
        /\ UNCHANGED shown
        /\ \E at \in {next, onError} : RunBecomes(g, [run[g] EXCEPT !.at = at])
    BY <1>s, StepTyped
  <2>2. PICK at \in {next, onError} : RunBecomes(g, [run[g] EXCEPT !.at = at])
    BY <2>1
  <2>3. Keeps(g, [run[g] EXCEPT !.at = at])
    BY <1>s, <1>at
  <2>4. Typed'
    BY <1>s, <2>1, <2>2, StoreTyped, TypesOf DEF runtime, dev
  <2>5. QED
    BY <1>s, <2>2, <2>3, <2>4
\* A step that leaves the store alone.
<1>n. ASSUME NEW r \in RunRecords, run' = [run EXCEPT ![g] = r], Keeps(g, r),
             r.at # "retry" \/ r.attempt < MaxAttempts, UNCHANGED <<store, mode, restarts>>,
             queue' \in Seq(Runs), sandboxes' \subseteq Keys,
             budgets' \in [Keys -> {"none", "open", "spent"}], tree' \in [Changes -> SUBSET Edits],
             active' \in [{ServiceOf[c] : c \in Changes} -> Changes \union {None}], displaced' \subseteq Runs
      PROVE  Typed' /\ mode' = mode /\ \E s : RunBecomes(g, s) /\ Keeps(g, s)
  <2>1. RunBecomes(g, r)
    BY <1>n DEF RunBecomes
  <2>2. QED
    BY <1>n, <2>1, StoreTyped, TypesOf DEF store
\* A step that only moves the run.
<1>m. ASSUME NEW at \in Positions, at # "retry" \/ run[g].attempt < MaxAttempts, RunAt(g, at),
             UNCHANGED <<store, mode, queue, runtime, tree, dev, restarts>>
      PROVE  Typed' /\ mode' = mode /\ \E r : RunBecomes(g, r) /\ Keeps(g, r)
  BY <1>m, <1>at, RunAtTyped, StoreTyped, TypesOf DEF store, runtime, dev
<1>e. {"hypothesis_ready", "fixing", "verifying", "reviewing", "escalated"} \subseteq AgentStates
  BY DEF AgentStates
<1>p. {"queued", "investigate", "investigating", "fix", "fixing", "propose", "verify", "verifying", "inspect", "test",
       "soak", "measure", "verdict", "verified", "review", "reviewing", "critique", "judge", "judged", "package", "finish",
       "crash", "failed", "release", "done"} \subseteq Positions \ {"retry"} /\ "retry" \in Positions
  BY DEF Positions
<1> DEFINE Goal == Typed' /\ mode' = mode /\ \E r : RunBecomes(g, r) /\ Keeps(g, r)
<1>1. CASE WorkerTakes(g)
  <2>1. queue' \in Seq(Runs)
    BY <1>1, TypesOf, HeadTailProperties DEF WorkerTakes
  <2>2. run' = [run EXCEPT ![g] = [run[g] EXCEPT !.at = "investigate"]]
    BY <1>1 DEF WorkerTakes, RunAt
  <2>3. [run[g] EXCEPT !.at = "investigate"].at = "investigate"
    BY <1>t DEF RunRecords
  <2>4. QED
    BY <1>1, <1>n, <1>at, <1>p, <2>1, <2>2, <2>3, TypesOf DEF WorkerTakes, runtime, dev
<1>2. CASE Enter(g)
  <2> DEFINE at == EntersAt[run[g].at]
             r == [run[g] EXCEPT !.at = at]
  <2>1. at \in Positions \ {"retry"}
    BY <1>2, <1>p DEF Enter, EntersAt
  <2>2. r \in RunRecords /\ Keeps(g, r) /\ r.at = at
    BY <1>t, <1>at, <2>1 DEF RunRecords
  <2>3. run' = [run EXCEPT ![g] = r]
    BY <1>2 DEF Enter, RunAt
  <2>4. tree' \in [Changes -> SUBSET Edits]
    BY <1>2, TypesOf DEF Enter, TreeOnEntry, OpenWorktree
  <2>5. sandboxes' \subseteq Keys /\ budgets' \in [Keys -> {"none", "open", "spent"}] /\ UNCHANGED <<store, mode, queue, dev, restarts>>
    BY <1>2, <1>t, TypesOf DEF Enter
  <2>6. QED
    BY <1>n, <2>1, <2>2, <2>3, <2>4, <2>5, TypesOf DEF dev
<1>3. CASE EnterOverBudget(g)
  BY <1>3, <1>s, <1>t, <1>c, <1>e, <1>p DEF EnterOverBudget
<1>4. CASE Investigated(g)
  BY <1>4, <1>s, <1>e, <1>p, RuntimeAssumption DEF Investigated, RuntimeAssumption
<1>5. CASE Progress(g)
  <2>1. ProgressAt[run[g].at].to \in AgentStates /\ ProgressAt[run[g].at].next \in Positions \ {"retry"}
    BY <1>5, <1>e, <1>p DEF Progress, ProgressAt
  <2>2. QED
    BY <1>5, <1>s, <1>t, <1>p, <2>1 DEF Progress
<1>6. CASE Propose(g)
  <2> DEFINE at == AfterFix(g, "verify")
             r == [run[g] EXCEPT !.at = at]
  <2>1. at \in Positions \ {"retry"}
    BY <1>p DEF AfterFix
  <2>2. r \in RunRecords /\ Keeps(g, r) /\ r.at = at
    BY <1>t, <1>at, <2>1 DEF RunRecords
  <2>3. run' = [run EXCEPT ![g] = r] /\ UNCHANGED <<store, mode, queue, runtime, dev, restarts>>
    BY <1>6 DEF Propose, RunAt
  <2>4. tree' \in [Changes -> SUBSET Edits]
    BY <1>6, <1>t, TypesOf DEF Propose
  <2>5. QED
    BY <1>n, <2>1, <2>2, <2>3, <2>4, TypesOf DEF runtime, dev
\* The verdict of a check.
<1>v. ASSUME NotPassed(g)
      PROVE  \E r \in RunRecords : /\ run' = [run EXCEPT ![g] = r]
                                   /\ Keeps(g, r) /\ r.at # "retry"
  <2>1. run' = [run EXCEPT ![g] = [run[g] EXCEPT !.at = "verdict", !.passed = FALSE]]
    BY <1>v DEF NotPassed
  <2> DEFINE r == [run[g] EXCEPT !.at = "verdict", !.passed = FALSE]
  <2>2. r \in RunRecords /\ Keeps(g, r) /\ r.at # "retry"
    BY <1>t, <1>p DEF RunRecords, Keeps
  <2>3. QED
    BY <2>1, <2>2
<1>7. CASE VerifyDiff(g)
  <2>1. \E r \in RunRecords : run' = [run EXCEPT ![g] = r] /\ Keeps(g, r) /\ r.at # "retry"
    <3>1. CASE NotPassed(g)
      BY <1>v, <3>1
    <3>2. CASE run' = [run EXCEPT ![g].at = "test", ![g].checked = DiffOf(tree, run[g].of),
                                ![g].passed = FALSE, ![g].measured = None]
      <4> DEFINE r == [run[g] EXCEPT !.at = "test", !.checked = tree[run[g].of],
                                     !.passed = FALSE, !.measured = None]
      <4>1. run' = [run EXCEPT ![g] = r]
        BY <3>2 DEF DiffOf
      <4>2. tree[run[g].of] \subseteq Edits
        BY <1>t, TypesOf
      <4>3. r \in RunRecords /\ Keeps(g, r) /\ r.at # "retry"
        BY <1>t, <1>p, <4>2 DEF RunRecords, Keeps
      <4>4. QED
        BY <4>1, <4>3
    <3>3. QED
      BY <1>7, <3>1, <3>2 DEF VerifyDiff
  <2>2. QED
    BY <1>7, <1>n, <2>1, TypesOf DEF VerifyDiff, runtime, dev
<1>8. CASE Deployed(g)
  <2>1. \E r \in RunRecords : run' = [run EXCEPT ![g] = r] /\ Keeps(g, r) /\ r.at # "retry"
    <3>1. CASE NotPassed(g)
      BY <1>v, <3>1
    <3>2. CASE RunAt(g, "measure")
      <4> DEFINE r == [run[g] EXCEPT !.at = "measure"]
      <4>1. r \in RunRecords /\ Keeps(g, r) /\ r.at # "retry"
        BY <1>t, <1>p DEF RunRecords, Keeps
      <4>2. QED
        BY <3>2, <4>1 DEF RunAt
    <3>3. QED
      BY <1>8, <3>1, <3>2 DEF Deployed
  <2>2. active' \in [{ServiceOf[c] : c \in Changes} -> Changes \union {None}] /\ displaced' \subseteq Runs
    BY <1>8, <1>t, TypesOf DEF Deployed, dev
  <2>3. QED
    BY <1>8, <1>n, <2>1, <2>2, TypesOf DEF Deployed, runtime, dev
<1>9. CASE Measure(g)
  <2>1. \E r \in RunRecords : run' = [run EXCEPT ![g] = r] /\ Keeps(g, r) /\ r.at # "retry"
    <3>1. CASE NotPassed(g)
      BY <1>v, <3>1
    <3>2. CASE run' = [run EXCEPT ![g].at = "verdict", ![g].passed = TRUE,
                                  ![g].measured = active[ServiceOf[run[g].of]]]
      <4>1. active[ServiceOf[run[g].of]] \in Changes \union {None}
        BY <1>t, TypesOf
      <4> DEFINE r == [run[g] EXCEPT !.at = "verdict", !.passed = TRUE,
                                     !.measured = active[ServiceOf[run[g].of]]]
      <4>2. r \in RunRecords /\ Keeps(g, r) /\ r.at # "retry"
        BY <1>t, <1>p, <4>1 DEF RunRecords, Keeps
      <4>3. QED
        BY <3>2, <4>2
    <3>3. QED
      BY <1>9, <3>1, <3>2 DEF Measure
  <2>2. QED
    BY <1>9, <1>n, <2>1, TypesOf DEF Measure, runtime, dev
<1>10. CASE GoOn(g) \/ SendBack(g)
  <2>1. CASE GoOn(g)
    BY <1>m, <1>p, <2>1 DEF GoOn
  <2>2. CASE SendBack(g)
    BY <1>m, <1>p, <2>2 DEF SendBack, MayRetry
  <2>3. QED
    BY <1>10, <2>1, <2>2
<1>11. CASE Retry(g)
  <2> DEFINE r == [run[g] EXCEPT !.at = "fix", !.attempt = @ + 1, !.checked = {},
                                 !.reviewed = {}, !.measured = None, !.passed = FALSE]
  <2>1. run[g].attempt < MaxAttempts /\ MaxAttempts \in Nat
    BY <1>11, RuntimeAssumption DEF Retry, Typed, RetriesBounded, RuntimeAssumption
  <2>2. run[g].attempt + 1 \in 1 .. MaxAttempts /\ {} \subseteq Edits
    BY <1>t, <2>1
  <2>a. r.of = run[g].of /\ r.alone = run[g].alone /\ r.at = "fix"
    BY <1>t DEF RunRecords
  <2>b. r \in RunRecords
    BY <1>t, <1>p, <2>2 DEF RunRecords
  <2>3. run' = [run EXCEPT ![g] = r]
    BY <1>11 DEF Retry
  <2>4. QED
    BY <1>11, <1>t, <1>n, <2>a, <2>b, <2>3, TypesOf DEF Retry, Keeps, dev
<1>12. CASE RetryOverBudget(g)
  <2>1. CASE Record(g, "escalated", Diagnosis(g)) /\ RunAt(g, "fix") /\ Accepts(g, "escalated")
    <3>1. Step(g, "escalated", Diagnosis(g), "fix", "fix")
      BY <2>1 DEF Step
    <3>2. QED
      BY <1>12, <1>s, <1>t, <1>e, <1>p, <3>1 DEF RetryOverBudget
  <2>2. CASE run' = [run EXCEPT ![g].at = "fix", ![g].crashed = TRUE] /\ UNCHANGED store
    <3> DEFINE r == [run[g] EXCEPT !.at = "fix", !.crashed = TRUE]
    <3>1. r \in RunRecords /\ Keeps(g, r) /\ r.at # "retry"
      BY <1>t, <1>p DEF RunRecords, Keeps
    <3>2. run' = [run EXCEPT ![g] = r]
      BY <2>2
    <3>3. QED
      BY <1>12, <1>n, <2>2, <3>1, <3>2, TypesOf DEF RetryOverBudget, runtime, dev
  <2>3. QED
    BY <1>12, <2>1, <2>2 DEF RetryOverBudget
<1>13. CASE Escalate(g)
  BY <1>13, <1>s, <1>t, <1>c, <1>e, <1>p, RuntimeAssumption DEF Escalate, RuntimeAssumption
<1>14. CASE Package(g)
  <2> DEFINE r == [run[g] EXCEPT !.at = "finish", !.diff = tree'[run[g].of]]
  <2>1. tree' \in [Changes -> SUBSET Edits]
    BY <1>14, TypesOf DEF Package, OpenWorktree
  <2>2. r \in RunRecords /\ Keeps(g, r) /\ r.at # "retry"
    BY <1>t, <1>p, <2>1 DEF RunRecords, Keeps
  <2>3. run' = [run EXCEPT ![g] = r]
    BY <1>14 DEF Package, DiffOf
  <2>4. sandboxes' \subseteq Keys /\ budgets' \in [Keys -> {"none", "open", "spent"}]
    BY <1>14, <1>t, TypesOf DEF Package
  <2>5. QED
    BY <1>14, <1>n, <2>1, <2>2, <2>3, <2>4, TypesOf DEF Package, dev
<1>15. CASE Finish(g)
  <2>1. \E at \in {"release", "crash"} : RunAt(g, at)
    BY <1>15 DEF Finish
  <2>2. \E r : RunBecomes(g, r) /\ Keeps(g, r)
    BY <1>at, <1>p, <2>1, RunAtTyped
  <2>3. changes' \in [Changes -> Records] /\ shadow' \in [Changes -> {"none", "running", "ready", "escalated"}]
    <3> DEFINE after == FinishAgentRun(changes[run[g].of])
    <3>1. /\ after \in Records /\ changes \in [Changes -> Records]
          /\ shadow \in [Changes -> {"none", "running", "ready", "escalated"}]
      BY <1>t, TypesOf, OperationTypes
    <3>2. /\ UNCHANGED changes \/ changes' = [changes EXCEPT ![run[g].of] = after]
          /\ UNCHANGED shadow \/ shadow' = [shadow EXCEPT ![run[g].of] = "ready"]
      BY <1>15 DEF Finish, FinishShadowRun, store
    <3>3. QED
      BY <3>1, <3>2
  <2>4. shown' \in [Changes -> Offers]
    <3> DEFINE offer == [diff |-> run[g].diff, checked |-> run[g].checked,
                         reviewed |-> run[g].reviewed, last |-> {Edit(g, "fixer")}, alone |-> run[g].alone]
    <3>1. offer \in Offers
      BY <1>t, TypesOf DEF Offers, RunRecords
    <3>2. UNCHANGED shown \/ shown' = [shown EXCEPT ![run[g].of] = offer]
      BY <1>15 DEF Finish, store
    <3>3. QED
      BY <1>t, <3>1, <3>2, TypesOf
  <2>5. QED
    BY <1>15, <2>2, <2>3, <2>4, StoreTyped, TypesOf DEF Finish, runtime, dev
<1>16. CASE NodeRaises(g)
  BY <1>16, <1>m, <1>p DEF NodeRaises
<1>17. CASE InvokeFails(g)
  BY <1>17, <1>m, <1>p DEF InvokeFails
<1>18. CASE CrashNode(g)
  BY <1>18, <1>s, <1>t, <1>e, <1>p DEF CrashNode
<1>19. CASE RunFailed(g)
  BY <1>19, <1>s, <1>t, <1>e, <1>p DEF RunFailed
<1>20. CASE Release(g)
  <2> DEFINE r == Ended(g)
  <2>1. r \in RunRecords /\ r.at = "done" /\ r.of = run[g].of
    BY <1>t, <1>p, NotStartedType DEF Ended, RunRecords
  <2>2. sandboxes' \subseteq Keys /\ budgets' \in [Keys -> {"none", "open", "spent"}] /\ displaced' \subseteq Runs
    BY <1>20, <1>t, TypesOf DEF Release
  <2>3. QED
    BY <1>20, <1>n, <2>1, <2>2, TypesOf DEF Release, Keeps
<1>21. CASE RunTests(g)
  <2>1. \E r \in RunRecords : run' = [run EXCEPT ![g] = r] /\ Keeps(g, r) /\ r.at # "retry"
    <3>1. CASE NotPassed(g)
      BY <1>v, <3>1
    <3>2. CASE RunAt(g, "soak")
      <4> DEFINE r == [run[g] EXCEPT !.at = "soak"]
      <4>1. r \in RunRecords /\ Keeps(g, r) /\ r.at # "retry"
        BY <1>t, <1>p DEF RunRecords, Keeps
      <4>2. QED
        BY <3>2, <4>1 DEF RunAt
    <3>3. QED
      BY <1>21, <3>1, <3>2 DEF RunTests
  <2>2. tree' \in [Changes -> SUBSET Edits]
    BY <1>21, <1>t, TypesOf DEF RunTests
  <2>3. QED
    BY <1>21, <1>n, <2>1, <2>2, TypesOf DEF RunTests, runtime, dev
<1>22. CASE Critique(g)
  <2> DEFINE r == [run[g] EXCEPT !.at = "judge", !.reviewed = tree[run[g].of]]
  <2>1. run' = [run EXCEPT ![g] = r]
    BY <1>22 DEF Critique, DiffOf
  <2>2. tree[run[g].of] \subseteq Edits
    BY <1>t, TypesOf
  <2>3. r \in RunRecords /\ Keeps(g, r) /\ r.at # "retry"
    BY <1>t, <1>p, <2>2 DEF RunRecords, Keeps
  <2>4. QED
    BY <1>22, <1>n, <2>1, <2>3, TypesOf DEF Critique, runtime, dev
<1>23. QED
  BY <1>1, <1>2, <1>3, <1>4, <1>5, <1>6, <1>7, <1>8, <1>9, <1>10, <1>11, <1>12, <1>13, <1>14, <1>15, <1>16,
     <1>17, <1>18, <1>19, <1>20, <1>21, <1>22 DEF Work

LEMMA StartTyped ==
    ASSUME Typed, NEW g \in Runs, NEW c \in Changes, Start(g, c)
    PROVE  /\ Typed' /\ run[g].at = "none" /\ run'[g].of = c /\ run'[g].at = "queued" /\ run'[g].attempt = 1
           /\ \A h \in Runs \ {g} : /\ run'[h].at = run[h].at /\ run'[h].of = run[h].of
                                    /\ Underway(h) /\ run[h].of = c => ~run'[h].alone
                                    /\ ~(Underway(h) /\ run[h].of = c) => run'[h] = run[h]
                                    /\ run'[h].passed = run[h].passed /\ run'[h].measured = run[h].measured
           /\ run'[g].alone <=> ~ \E h \in Runs : Underway(h) /\ run[h].of = c
           /\ ~run'[g].passed
<1> DEFINE others == {h \in Runs : Underway(h) /\ run[h].of = c}
           new == [NotStarted EXCEPT !.at = "queued", !.of = c, !.alone = (others = {})]
<1>t. run \in [Runs -> RunRecords] /\ \A h \in Runs : run[h] \in RunRecords
  BY TypesOf
<1>1. new \in RunRecords
  BY NotStartedType DEF RunRecords, Positions
<1>2. new.at = "queued" /\ new.of = c /\ new.attempt = 1 /\ (new.alone <=> others = {}) /\ ~new.passed
  BY DEF NotStarted
<1>3. \A h \in Runs : /\ [run[h] EXCEPT !.alone = FALSE] \in RunRecords
                      /\ [run[h] EXCEPT !.alone = FALSE].at = run[h].at
                      /\ [run[h] EXCEPT !.alone = FALSE].attempt = run[h].attempt
                      /\ [run[h] EXCEPT !.alone = FALSE].of = run[h].of
                      /\ [run[h] EXCEPT !.alone = FALSE].passed = run[h].passed
                      /\ [run[h] EXCEPT !.alone = FALSE].measured = run[h].measured
                      /\ ~[run[h] EXCEPT !.alone = FALSE].alone
  BY <1>t DEF RunRecords
<1>4. run' = [h \in Runs |-> IF h = g THEN new
                             ELSE IF h \in others THEN [run[h] EXCEPT !.alone = FALSE] ELSE run[h]]
  BY DEF Start
<1> HIDE DEF new
<1>5. run' \in [Runs -> RunRecords] /\ RetriesBounded'
  BY <1>1, <1>2, <1>3, <1>4, <1>t DEF RetriesBounded, Typed
<1>6. /\ changes' \in [Changes -> Records]
      /\ shadow' \in [Changes -> {"none", "running", "ready", "escalated"}] /\ UNCHANGED shown
  <2>1. changes[c] \in Records /\ BeginAgentRun(changes[c]) \in Records
    BY TypesOf, OperationTypes
  <2>2. CASE mode = "shadow"
    BY <2>2, TypesOf DEF Start
  <2>3. CASE mode # "shadow"
    BY <2>1, <2>3, TypesOf DEF Start
  <2>4. QED
    BY <2>2, <2>3
<1>7. queue' \in Seq(Runs)
  BY TypesOf, AppendProperties DEF Start
<1>8. UNCHANGED <<mode, sandboxes, budgets, tree, dev, restarts>> /\ run[g].at = "none"
  BY DEF Start, runtime, dev
<1>9. Typed'
  BY <1>5, <1>6, <1>7, <1>8 DEF Typed, TypeOK, RunRecords, dev
<1>10. QED
  BY <1>2, <1>3, <1>4, <1>8, <1>9

LEMMA RestartTyped ==
    ASSUME Typed, Restart
    PROVE  Typed' /\ \A g \in Runs : ~Underway(g)' /\ (run'[g] = run[g] \/ ~run'[g].passed)
<1>t. run \in [Runs -> RunRecords] /\ \A h \in Runs : run[h] \in RunRecords
  BY TypesOf
<1>1. \A h \in Runs : Ended(h) \in RunRecords /\ Ended(h).at = "done" /\ ~Ended(h).passed
  BY <1>t, NotStartedType DEF Ended, RunRecords, Positions, NotStarted
<1>2. run' = [h \in Runs |-> IF Underway(h) THEN Ended(h) ELSE run[h]]
  BY DEF Restart
<1>3. /\ run' \in [Runs -> RunRecords]
      /\ \A h \in Runs : run'[h].at \in {"none", "done"} /\ (run'[h] = run[h] \/ ~run'[h].passed)
  BY <1>1, <1>2, <1>t DEF Underway
<1>4. changes' \in [Changes -> Records] /\ shadow' \in [Changes -> {"none", "running", "ready", "escalated"}]
  BY TypesOf, OperationTypes DEF Restart
<1>5. restarts' \in 0 .. MaxRestarts /\ mode' \in Modes /\ queue' \in Seq(Runs)
  BY RuntimeAssumption, TypesOf DEF Restart, Typed, TypeOK, RuntimeAssumption
<1>6. /\ active' \in [{ServiceOf[c] : c \in Changes} -> Changes \union {None}]
      /\ displaced' \subseteq Runs
      /\ sandboxes' \subseteq Keys /\ budgets' \in [Keys -> {"none", "open", "spent"}] /\ UNCHANGED <<shown, tree>>
  BY TypesOf DEF Restart
<1>7. Typed'
  BY <1>3, <1>4, <1>5, <1>6 DEF Typed, TypeOK, RunRecords, RetriesBounded
<1>8. QED
  BY <1>3, <1>7 DEF Underway

LEMMA NextTyped ==
    ASSUME Typed, [Next]_vars
    PROVE  Typed'
<1>1. CASE \E g \in Runs : Work(g)
  BY <1>1, WorkTyped
<1>2. CASE \E g \in Runs, c \in Changes : Start(g, c)
  BY <1>2, StartTyped
<1>3. CASE \E k \in Keys : BudgetRunsOut(k)
  <2>1. budgets' \in [Keys -> {"none", "open", "spent"}] /\ UNCHANGED <<store, mode, queue, run, sandboxes, tree, dev, restarts>>
    BY <1>3, TypesOf DEF BudgetRunsOut
  <2>2. QED
    BY <2>1 DEF Typed, TypeOK, RetriesBounded, store, dev
<1>4. ASSUME NEW c \in Changes, NEW d \in {"approve", "reject"}, NEW by \in Approvers, Decide(c, d, by)
      PROVE  Typed'
  <2>1. changes' \in [Changes -> Records]
    BY <1>4, TypesOf, OperationTypes DEF Decide
  <2>2. UNCHANGED <<shadow, shown, mode, queue, run, runtime, tree, dev, restarts>>
    BY <1>4 DEF Decide
  <2>3. QED
    BY <2>1, <2>2 DEF Typed, TypeOK, RetriesBounded, runtime, dev
<1>5. CASE Restart
  BY <1>5, RestartTyped
<1>6. CASE UNCHANGED vars
  BY <1>6 DEF vars, Typed, TypeOK, RetriesBounded
<1>7. QED
  BY <1>1, <1>2, <1>3, <1>4, <1>5, <1>6 DEF Next

LEMMA TypedInvariant == Spec => []Typed
  BY InitTyped, NextTyped, PTL DEF Spec

\* Whatever runs start, crash, retry or are cut short, every piece of the state keeps its shape;
\* an attempt is never counted past the last one.
THEOREM TypeCorrect == Spec => []TypeOK
<1>1. Typed => TypeOK
  BY DEF Typed
<1>2. QED
  BY <1>1, TypedInvariant, PTL

-----------------------------------------------------------------------------
(* No change is left working. *)
AtWork(c) == changes[c].state \in WorkingStates \/ shadow[c] = "running"

LastWord(g) == Underway(g) /\ run[g].at # "release"

\* What makes an escalation of a change at work impossible to refuse: a record in a working state is
\* "running", and only the kind of record this process writes is at work at all.
WorkIsOwned ==
    /\ \A c \in Changes : changes[c].state \in WorkingStates => changes[c].agentRun = "running"
    /\ mode = "shadow" => \A c \in Changes : changes[c].state \notin WorkingStates
    /\ mode = "real" => \A c \in Changes : shadow[c] # "running"

LEMMA EscalationIsOpen ==
    ASSUME NEW r, r.state \in WorkingStates, r.agentRun = "running"
    PROVE  CanRecordAgentStep(r, "escalated")
  BY DEF CanRecordAgentStep, AgentStates, MayMoveTo, IsAllowed, TRANSITIONS, EDGES, WorkingStates

\* What the operations make of a record at work.
LEMMA OperationsAtWork ==
    ASSUME NEW r \in Records, r.state \in WorkingStates => r.agentRun = "running"
    PROVE  /\ BeginAgentRun(r).agentRun = "running"
           /\ \A to \in AgentStates : \A d :
                 /\ RecordAgentStep(r, to, d).state = to
                 /\ to # "escalated" => RecordAgentStep(r, to, d).agentRun = r.agentRun
           /\ FinishAgentRun(r).state \notin WorkingStates
           /\ RecoverInterruptedRun(r).state \notin WorkingStates
           /\ \A d \in {"approve", "reject"}, by \in Approvers :
                 CanDecide(r, d) => ApplyDecision(r, d, by).state \notin WorkingStates
<1>1. BeginAgentRun(r).agentRun = "running"
  BY DEF BeginAgentRun, Records
<1>2. ASSUME NEW to \in AgentStates, NEW d
      PROVE  /\ RecordAgentStep(r, to, d).state = to
             /\ to # "escalated" => RecordAgentStep(r, to, d).agentRun = r.agentRun
  BY DEF RecordAgentStep, Records
<1>3. FinishAgentRun(r).state \notin WorkingStates
  BY DEF FinishAgentRun, WithDevExecution, DevStateFor, Records, WorkingStates
<1>4. RecoverInterruptedRun(r).state \notin WorkingStates
  <2>1. CASE CanRecordAgentStep(r, "escalated")
    <3>1. RecordAgentStep(r, "escalated", r.diagnosis).state = "escalated"
      BY <1>2 DEF AgentStates
    <3>2. QED
      BY <2>1, <3>1 DEF RecoverInterruptedRun, WorkingStates
  <2>2. CASE ~CanRecordAgentStep(r, "escalated")
    BY <2>2, EscalationIsOpen DEF RecoverInterruptedRun
  <2>3. QED
    BY <2>1, <2>2
<1>5. ASSUME NEW d \in {"approve", "reject"}, NEW by \in Approvers, CanDecide(r, d)
      PROVE  ApplyDecision(r, d, by).state \notin WorkingStates
  BY <1>5 DEF ApplyDecision, Records, WorkingStates
<1>6. QED
  BY <1>1, <1>2, <1>3, <1>4, <1>5

\* A recorded step, or a refused one, touches its own change; after an escalation, recorded or
\* refused, that change is not at work.
LEMMA StepAtWork ==
    ASSUME Typed, WorkIsOwned, NEW g \in Runs, NEW c, c = run[g].of,
           NEW to \in AgentStates, NEW d, NEW next, NEW onError,
           Step(g, to, d, next, onError), mode' = mode
    PROVE  /\ WorkIsOwned'
           /\ \A e \in Changes \ {c} : changes'[e] = changes[e] /\ shadow'[e] = shadow[e]
           /\ to = "escalated" => ~AtWork(c)'
<1> DEFINE r == RecordAgentStep(changes[c], to, d)
<1>t. /\ c \in Changes /\ changes \in [Changes -> Records] /\ changes[c] \in Records /\ mode \in {"real", "shadow"}
      /\ shadow \in [Changes -> {"none", "running", "ready", "escalated"}]
  BY TypesOf
<1>r. /\ changes[c].state \in WorkingStates => changes[c].agentRun = "running"
      /\ r.state = to
      /\ to # "escalated" => r.agentRun = changes[c].agentRun
  BY <1>t, OperationsAtWork DEF WorkIsOwned
<1>w. "escalated" \notin WorkingStates
  BY DEF WorkingStates
<1>1. CASE mode = "shadow" /\ Accepts(g, to)
  <2>1. UNCHANGED changes /\ shadow' = [shadow EXCEPT ![c] = IF to = "escalated" THEN "escalated" ELSE @]
    BY <1>1 DEF Step, Record
  <2>2. QED
    BY <1>1, <1>t, <2>1 DEF WorkIsOwned, AtWork
<1>2. CASE mode = "real" /\ Accepts(g, to)
  <2>1. /\ UNCHANGED shadow /\ changes' = [changes EXCEPT ![c] = r]
        /\ changes[c].agentRun = "running"
    BY <1>2 DEF Step, Record, Accepts, CanRecordAgentStep
  <2>2. changes'[c] = r /\ \A e \in Changes \ {c} : changes'[e] = changes[e]
    BY <1>t, <2>1
  <2>3. changes'[c].state \in WorkingStates => to # "escalated" /\ changes'[c].agentRun = "running"
    BY <1>r, <1>w, <2>1, <2>2
  <2>4. \A e \in Changes : changes'[e].state \in WorkingStates => changes'[e].agentRun = "running"
    BY <2>2, <2>3 DEF WorkIsOwned
  <2>5. \A e \in Changes : shadow'[e] # "running"
    BY <1>2, <2>1 DEF WorkIsOwned
  <2>6. WorkIsOwned'
    BY <1>2, <2>4, <2>5 DEF WorkIsOwned
  <2>7. to = "escalated" => ~AtWork(c)'
    BY <1>t, <2>3, <2>5 DEF AtWork
  <2>8. QED
    BY <2>1, <2>2, <2>6, <2>7
<1>3. CASE ~Accepts(g, to)
  <2>1. UNCHANGED <<changes, shadow>>
    BY <1>3 DEF Step, store
  <2>2. to = "escalated" => ~AtWork(c)
    <3>1. CASE mode = "shadow"
      BY <1>3, <1>t, <3>1 DEF Accepts, AtWork, WorkIsOwned
    <3>2. CASE mode = "real"
      BY <1>3, <1>r, <1>t, <3>2, EscalationIsOpen DEF Accepts, AtWork, WorkIsOwned
    <3>3. QED
      BY <1>t, <3>1, <3>2
  <2>3. QED
    BY <2>1, <2>2 DEF WorkIsOwned, AtWork
<1>4. QED
  BY <1>1, <1>2, <1>3, <1>t

\* Who speaks for a change goes on doing so, unless it was this run and the change is done with.
LEMMA SomeoneSpeaks ==
    ASSUME Typed, NeverStuckWorking, NEW g \in Runs, NEW of, of = run[g].of,
           NEW r, RunBecomes(g, r), Keeps(g, r),
           \A c \in Changes \ {of} : changes'[c] = changes[c] /\ shadow'[c] = shadow[c],
           \/ r.at \notin {"none", "done", "release"}
           \/ ~AtWork(of)'
           \/ run[g].at = "release" /\ UNCHANGED <<changes, shadow>>
    PROVE  NeverStuckWorking'
<1> SUFFICES ASSUME NEW c \in Changes, AtWork(c)'
             PROVE  \E h \in Runs : LastWord(h)' /\ run'[h].of = c
  BY DEF NeverStuckWorking, AtWork, HasRun, LastWord
<1>1. run'[g] = r /\ r.of = run[g].of /\ \A h \in Runs \ {g} : run'[h] = run[h]
  BY RunMovesTyped DEF Keeps
<1>2. CASE c = of /\ r.at \notin {"none", "done", "release"}
  BY <1>1, <1>2 DEF LastWord, Underway
<1>3. CASE c # of \/ (run[g].at = "release" /\ UNCHANGED <<changes, shadow>>)
  <2>1. AtWork(c)
    BY <1>3 DEF AtWork
  <2>2. PICK h \in Runs : LastWord(h) /\ run[h].of = c
    BY <2>1 DEF NeverStuckWorking, AtWork, HasRun, LastWord
  <2>3. h # g
    BY <1>3, <2>2 DEF LastWord
  <2>4. QED
    BY <1>1, <2>2, <2>3 DEF LastWord, Underway
<1>4. QED
  BY <1>2, <1>3

LEMMA WorkStaysOwned ==
    ASSUME Typed, WorkIsOwned, NeverStuckWorking, NEW g \in Runs, Work(g)
    PROVE  WorkIsOwned' /\ NeverStuckWorking'
<1> DEFINE c == run[g].of
<1>m. mode' = mode /\ run[g] \in RunRecords
  BY WorkTyped, TypesOf
<1>r. PICK r : RunBecomes(g, r) /\ Keeps(g, r)
  BY WorkTyped
<1>g. run'[g] = r
  BY <1>r, RunMovesTyped
<1> DEFINE Speaks == r.at \notin {"none", "done", "release"}
\* The run goes on, or it has escalated, or was refused because its change is no longer at work.
<1>s. ASSUME NEW to \in AgentStates, NEW d, NEW next, NEW onError, Step(g, to, d, next, onError),
             to = "escalated" \/ Speaks
      PROVE  WorkIsOwned' /\ NeverStuckWorking'
  BY <1>s, <1>m, <1>r, StepAtWork, SomeoneSpeaks
<1>n. ASSUME UNCHANGED <<changes, shadow>>, Speaks \/ run[g].at = "release"
      PROVE  WorkIsOwned' /\ NeverStuckWorking'
  <2>1. NeverStuckWorking'
    BY <1>n, <1>r, SomeoneSpeaks
  <2>2. QED
    BY <1>m, <1>n, <2>1 DEF WorkIsOwned
<1>at. ASSUME NEW at, RunAt(g, at) PROVE r.at = at
  BY <1>at, <1>g, <1>m, TypesOf DEF RunAt, RunRecords
<1>e. {"hypothesis_ready", "fixing", "verifying", "reviewing", "escalated"} \subseteq AgentStates
  BY DEF AgentStates
<1>1. CASE EnterOverBudget(g) \/ Escalate(g) \/ CrashNode(g) \/ RunFailed(g)
  BY <1>1, <1>s, <1>e DEF EnterOverBudget, Escalate, CrashNode, RunFailed
<1>2. CASE Investigated(g)
  <2>1. PICK d : Step(g, "hypothesis_ready", d, "fix", "crash")
    BY <1>2 DEF Investigated
  <2>2. Speaks
    BY <1>at, <2>1 DEF Step
  <2>3. QED
    BY <1>s, <1>e, <2>1, <2>2
<1>3. CASE Progress(g)
  <2>1. /\ ProgressAt[run[g].at].to \in AgentStates
        /\ ProgressAt[run[g].at].next \in {"propose", "inspect", "verified", "critique", "judged"}
    BY <1>3, <1>e DEF Progress, ProgressAt
  <2>2. Step(g, ProgressAt[run[g].at].to, Diagnosis(g), ProgressAt[run[g].at].next, "crash")
    BY <1>3 DEF Progress
  <2>3. Speaks
    BY <1>at, <2>1, <2>2 DEF Step
  <2>4. QED
    BY <1>s, <2>1, <2>2, <2>3
<1>4. CASE RetryOverBudget(g)
  <2>1. Step(g, "escalated", Diagnosis(g), "fix", "fix") \/ UNCHANGED store
    BY <1>4 DEF RetryOverBudget, Step
  <2>2. UNCHANGED store => Speaks
    <3>1. run' = [run EXCEPT ![g].at = "fix", ![g].crashed = TRUE] \/ RunAt(g, "fix")
      BY <1>4 DEF RetryOverBudget
    <3>2. QED
      BY <1>at, <1>g, <1>m, <3>1, TypesOf DEF RunRecords
  <2>3. QED
    BY <1>n, <1>s, <1>e, <2>1, <2>2 DEF store
<1>5. CASE WorkerTakes(g) \/ GoOn(g) \/ SendBack(g) \/ NodeRaises(g) \/ InvokeFails(g)
  <2>1. UNCHANGED store /\ \E at \in {"investigate", "review", "package", "retry", "crash", "failed"} : RunAt(g, at)
    BY <1>5 DEF WorkerTakes, GoOn, SendBack, NodeRaises, InvokeFails
  <2>2. QED
    BY <1>at, <1>n, <2>1 DEF store
<1>6. CASE Enter(g)
  <2>1. UNCHANGED store /\ RunAt(g, EntersAt[run[g].at])
        /\ EntersAt[run[g].at] \in {"investigating", "fixing", "verifying", "reviewing"}
    BY <1>6 DEF Enter, EntersAt
  <2>2. QED
    BY <1>at, <1>n, <2>1 DEF store
<1>7. CASE Propose(g)
  <2>1. UNCHANGED store /\ \E at \in {"verify", "crash"} : RunAt(g, at)
    BY <1>7 DEF Propose, AfterFix
  <2>2. QED
    BY <1>at, <1>n, <2>1 DEF store
<1>8. CASE VerifyDiff(g) \/ RunTests(g) \/ Deployed(g) \/ Measure(g) \/ Critique(g)
  <2>1. NotPassed(g) => r.at = "verdict"
    BY <1>g, <1>m, TypesOf DEF NotPassed, RunRecords
  <2>2. UNCHANGED store
    BY <1>8 DEF VerifyDiff, RunTests, Deployed, Measure, Critique
  <2>3. r.at \in {"verdict", "test", "soak", "measure", "judge"}
    BY <1>8, <1>g, <1>m, <1>at, <2>1, TypesOf DEF VerifyDiff, RunTests, Deployed, Measure, Critique, RunRecords
  <2>4. QED
    BY <1>n, <2>2, <2>3 DEF store
<1>9. CASE Retry(g) \/ Package(g)
  <2>1. r.at \in {"fix", "finish"} /\ UNCHANGED store
    BY <1>9, <1>g, <1>m, TypesOf DEF Retry, Package, RunRecords
  <2>2. QED
    BY <1>n, <2>1 DEF store
<1>10. CASE Finish(g)
  <2> DEFINE fr == FinishAgentRun(changes[c])
  <2>t. /\ c \in Changes /\ changes \in [Changes -> Records] /\ changes[c] \in Records
        /\ shadow \in [Changes -> {"none", "running", "ready", "escalated"}]
    BY TypesOf
  <2>f. fr.state \notin WorkingStates
    BY <2>t, OperationsAtWork DEF WorkIsOwned
  <2>1. CASE RunAt(g, "crash") /\ UNCHANGED store
    BY <1>at, <1>n, <2>1 DEF store
  <2>2. CASE mode = "shadow" /\ shadow' = [shadow EXCEPT ![c] = "ready"] /\ UNCHANGED changes
    <3>1. WorkIsOwned'
      BY <1>m, <2>2 DEF WorkIsOwned
    <3>2. \A e \in Changes : shadow'[e] = IF e = c THEN "ready" ELSE shadow[e]
      BY <2>t, <2>2
    <3>3. ASSUME NEW of, of = c PROVE ~AtWork(of)'
      BY <2>2, <2>t, <3>2, <3>3 DEF AtWork, WorkIsOwned
    <3>4. NeverStuckWorking'
      BY <1>r, <2>2, <3>2, <3>3, SomeoneSpeaks
    <3>5. QED
      BY <3>1, <3>4
  <2>3. CASE mode = "real" /\ changes' = [changes EXCEPT ![c] = fr] /\ UNCHANGED shadow
    <3>1. \A e \in Changes : changes'[e] = IF e = c THEN fr ELSE changes[e]
      BY <2>t, <2>3
    <3>2. WorkIsOwned'
      BY <1>m, <2>3, <2>f, <3>1 DEF WorkIsOwned
    <3>3. ASSUME NEW of, of = c PROVE ~AtWork(of)'
      BY <2>3, <2>f, <2>t, <3>1, <3>3 DEF AtWork, WorkIsOwned
    <3>4. NeverStuckWorking'
      BY <1>r, <2>3, <3>1, <3>3, SomeoneSpeaks
    <3>5. QED
      BY <3>2, <3>4
  <2>4. QED
    BY <1>10, <2>1, <2>2, <2>3 DEF Finish, FinishShadowRun
<1>11. CASE Release(g)
  BY <1>11, <1>n DEF Release, store
<1>12. QED
  BY <1>1, <1>2, <1>3, <1>4, <1>5, <1>6, <1>7, <1>8, <1>9, <1>10, <1>11 DEF Work

LEMMA StartStaysOwned ==
    ASSUME Typed, WorkIsOwned, NeverStuckWorking, NEW g \in Runs, NEW c \in Changes, Start(g, c)
    PROVE  WorkIsOwned' /\ NeverStuckWorking'
<1>t. /\ mode' = mode /\ changes \in [Changes -> Records] /\ mode \in {"real", "shadow"}
      /\ shadow \in [Changes -> {"none", "running", "ready", "escalated"}]
  BY TypesOf DEF Start
<1>s. /\ run[g].at = "none" /\ run'[g].of = c /\ run'[g].at = "queued"
      /\ \A h \in Runs \ {g} : run'[h].at = run[h].at /\ run'[h].of = run[h].of
  BY StartTyped
<1>1. WorkIsOwned' /\ \A e \in Changes \ {c} : changes'[e] = changes[e] /\ shadow'[e] = shadow[e]
  <2>1. CASE mode = "shadow"
    BY <1>t, <2>1 DEF Start, WorkIsOwned
  <2>2. CASE mode = "real"
    <3>1. changes' = [changes EXCEPT ![c] = BeginAgentRun(changes[c])] /\ UNCHANGED shadow
      BY <2>2 DEF Start
    <3>2. BeginAgentRun(changes[c]).agentRun = "running"
      BY <1>t, OperationsAtWork DEF WorkIsOwned
    <3>3. \A e \in Changes : changes'[e] = IF e = c THEN BeginAgentRun(changes[c]) ELSE changes[e]
      BY <1>t, <3>1
    <3>4. QED
      BY <1>t, <2>2, <3>1, <3>2, <3>3 DEF WorkIsOwned
  <2>3. QED
    BY <1>t, <2>1, <2>2
<1>2. ASSUME NEW e \in Changes, AtWork(e)'
      PROVE  \E h \in Runs : LastWord(h)' /\ run'[h].of = e
  <2>1. CASE e = c
    BY <1>s, <2>1 DEF LastWord, Underway
  <2>2. CASE e # c
    <3>1. PICK h \in Runs : LastWord(h) /\ run[h].of = e
      BY <1>1, <1>2, <2>2 DEF AtWork, NeverStuckWorking, HasRun, LastWord
    <3>2. h # g
      BY <1>s, <3>1 DEF LastWord, Underway
    <3>3. QED
      BY <1>s, <3>1, <3>2 DEF LastWord, Underway
  <2>3. QED
    BY <2>1, <2>2
<1>3. QED
  BY <1>1, <1>2 DEF NeverStuckWorking, AtWork, HasRun, LastWord

LEMMA NextStaysOwned ==
    ASSUME Typed, WorkIsOwned, NeverStuckWorking, [Next]_vars
    PROVE  WorkIsOwned' /\ NeverStuckWorking'
<1>t. /\ changes \in [Changes -> Records]
      /\ shadow \in [Changes -> {"none", "running", "ready", "escalated"}]
      /\ \A c \in Changes : /\ changes[c] \in Records
                            /\ changes[c].state \in WorkingStates => changes[c].agentRun = "running"
  BY TypesOf DEF WorkIsOwned
<1>q. ASSUME UNCHANGED <<mode, run, shadow>>,
             \A c \in Changes : changes'[c] = changes[c] \/ changes'[c].state \notin WorkingStates
      PROVE  WorkIsOwned' /\ NeverStuckWorking'
  BY <1>q DEF WorkIsOwned, NeverStuckWorking, HasRun, Underway
<1>1. CASE \E g \in Runs : Work(g)
  BY <1>1, WorkStaysOwned
<1>2. CASE \E g \in Runs, c \in Changes : Start(g, c)
  BY <1>2, StartStaysOwned
<1>3. CASE (\E k \in Keys : BudgetRunsOut(k)) \/ UNCHANGED vars
  BY <1>3, <1>q DEF BudgetRunsOut, store, vars
<1>4. ASSUME NEW c \in Changes, NEW d \in {"approve", "reject"}, NEW by \in Approvers, Decide(c, d, by)
      PROVE  WorkIsOwned' /\ NeverStuckWorking'
  <2>1. ApplyDecision(changes[c], d, by).state \notin WorkingStates
    BY <1>4, <1>t, OperationsAtWork DEF Decide
  <2>2. \A e \in Changes : changes'[e] = IF e = c THEN ApplyDecision(changes[c], d, by) ELSE changes[e]
    BY <1>4, <1>t DEF Decide
  <2>3. QED
    BY <1>4, <1>q, <2>1, <2>2 DEF Decide
<1>5. CASE Restart
  <2>1. \A c \in Changes : changes'[c].state \notin WorkingStates /\ shadow'[c] # "running"
    BY <1>5, <1>t, OperationsAtWork DEF Restart
  <2>2. QED
    BY <2>1 DEF WorkIsOwned, NeverStuckWorking
<1>6. QED
  BY <1>1, <1>2, <1>3, <1>4, <1>5 DEF Next

\* "Never leave the change stuck in a working state" (graph.py:133): whatever a run meets, a crash, a
\* refusal, a decision over its head, a spent budget, a restart in the other mode, as long as a
\* record says the agents are at work some run of that change still has its last word to the store.
THEOREM NobodyIsStuck == Spec => []NeverStuckWorking
<1>1. Init => WorkIsOwned /\ NeverStuckWorking
  BY DEF Init, WorkIsOwned, NeverStuckWorking, CreateChange, WorkingStates
<1>2. Typed /\ WorkIsOwned /\ NeverStuckWorking /\ [Next]_vars => (WorkIsOwned /\ NeverStuckWorking)'
  BY NextStaysOwned
<1>3. QED
  BY <1>1, <1>2, TypedInvariant, PTL DEF Spec

-----------------------------------------------------------------------------
(* Nothing outlives its run. *)

\* The runs waiting for a worker, each of them once.
QueueIsWaiting ==
    \A i \in 1 .. Len(queue) : /\ run[queue[i]].at = "queued"
                               /\ \A j \in 1 .. Len(queue) : queue[i] = queue[j] => i = j

LEMMA WorkIsUnderway ==
    ASSUME Typed, QueueIsWaiting, NEW g \in Runs, Work(g)
    PROVE  Underway(g) /\ (run[g].at = "queued" => WorkerTakes(g))
<1>1. WorkerTakes(g) => run[g].at = "queued"
  BY TypesOf, HeadTailProperties DEF WorkerTakes, QueueIsWaiting
<1>2. CASE \/ Enter(g) \/ EnterOverBudget(g) \/ Investigated(g) \/ Progress(g)
           \/ Propose(g) \/ VerifyDiff(g) \/ RunTests(g) \/ Deployed(g) \/ Measure(g) \/ Critique(g)
  BY <1>2 DEF Underway, Enter, EnterOverBudget, EntersAt, Investigated, Progress, ProgressAt, Propose,
              VerifyDiff, RunTests, Deployed, Measure, Critique
<1>3. CASE \/ GoOn(g) \/ SendBack(g) \/ Retry(g) \/ RetryOverBudget(g) \/ Escalate(g) \/ Package(g) \/ Finish(g)
           \/ NodeRaises(g) \/ CrashNode(g) \/ InvokeFails(g) \/ RunFailed(g) \/ Release(g)
  BY <1>3 DEF Underway, Executing, GoOn, SendBack, Retry, RetryOverBudget, Escalate, Package, Finish,
              NodeRaises, CrashNode, InvokeFails, RunFailed, Release
<1>4. QED
  BY <1>1, <1>2, <1>3 DEF Work, Underway

\* A step of a run touches the registries under its key only, and the worktree of its change; it
\* ends the run only where nothing is left under the key.
LEMMA RuntimeMoves ==
    ASSUME Typed, NEW g \in Runs, Work(g)
    PROVE  /\ \A k \in Keys \ {Key(g)} : budgets'[k] = budgets[k] /\ (k \in sandboxes' <=> k \in sandboxes)
           /\ \A c \in Changes \ {run[g].of} : tree'[c] = tree[c]
           /\ \/ run'[g].at \notin {"none", "done", "queued"}
              \/ run'[g].at = "done" /\ Key(g) \notin sandboxes' /\ budgets'[Key(g)] = "none"
           /\ queue' = queue \/ WorkerTakes(g)
<1>t. /\ run[g] \in RunRecords /\ run \in [Runs -> RunRecords] /\ Key(g) \in Keys
      /\ budgets \in [Keys -> {"none", "open", "spent"}] /\ tree \in [Changes -> SUBSET Edits]
      /\ \A k \in Keys : budgets[k] \in {"none", "open", "spent"}
  BY TypesOf
<1> DEFINE Busy == run'[g].at \notin {"none", "done", "queued"}
<1>at. ASSUME NEW at, RunAt(g, at) PROVE run'[g].at = at
  BY <1>at, <1>t DEF RunAt, RunRecords
<1>s. ASSUME NEW to, NEW d, NEW next, NEW onError, Step(g, to, d, next, onError),
             next \notin {"none", "done", "queued"}, onError \notin {"none", "done", "queued"}
      PROVE  Busy
  BY <1>s, <1>at DEF Step
<1>u. ASSUME Busy, UNCHANGED <<runtime, tree>>, queue' = queue \/ WorkerTakes(g)
      PROVE  /\ \A k \in Keys \ {Key(g)} : budgets'[k] = budgets[k] /\ (k \in sandboxes' <=> k \in sandboxes)
             /\ \A c \in Changes \ {run[g].of} : tree'[c] = tree[c]
             /\ Busy
             /\ queue' = queue \/ WorkerTakes(g)
  BY <1>u DEF runtime
<1>1. CASE WorkerTakes(g) \/ GoOn(g) \/ SendBack(g) \/ NodeRaises(g) \/ InvokeFails(g)
  <2>1. Busy
    BY <1>1, <1>at DEF WorkerTakes, GoOn, SendBack, NodeRaises, InvokeFails
  <2>2. QED
    BY <1>1, <1>u, <2>1 DEF WorkerTakes, GoOn, SendBack, NodeRaises, InvokeFails
<1>2. CASE EnterOverBudget(g) \/ Escalate(g) \/ CrashNode(g) \/ RunFailed(g) \/ Investigated(g)
  <2>1. Busy
    BY <1>2, <1>s DEF EnterOverBudget, Escalate, CrashNode, RunFailed, Investigated, AfterFix
  <2>2. QED
    BY <1>2, <1>u, <2>1 DEF EnterOverBudget, Escalate, CrashNode, RunFailed, Investigated
<1>3. CASE Progress(g)
  <2>1. ProgressAt[run[g].at].next \notin {"none", "done", "queued"}
    BY <1>3 DEF Progress, ProgressAt
  <2>2. Busy
    BY <1>3, <1>s, <2>1 DEF Progress
  <2>3. QED
    BY <1>3, <1>u, <2>2 DEF Progress
<1>4. CASE VerifyDiff(g) \/ RunTests(g) \/ Deployed(g) \/ Measure(g) \/ Critique(g)
  <2>1. NotPassed(g) => run'[g].at = "verdict"
    BY <1>t DEF NotPassed, RunRecords
  <2>2. Busy
    BY <1>4, <1>t, <1>at, <2>1 DEF VerifyDiff, RunTests, Deployed, Measure, Critique, RunRecords
  <2>3. CASE RunTests(g)
    BY <1>t, <2>2, <2>3 DEF RunTests, runtime
  <2>4. QED
    BY <1>4, <1>u, <2>2, <2>3 DEF VerifyDiff, Deployed, Measure, Critique
<1>5. CASE RetryOverBudget(g)
  <2>1. run' = [run EXCEPT ![g].at = "fix", ![g].crashed = TRUE] \/ RunAt(g, "fix")
    BY <1>5 DEF RetryOverBudget
  <2>2. Busy
    BY <1>t, <1>at, <2>1 DEF RunRecords
  <2>3. QED
    BY <1>5, <1>u, <2>2 DEF RetryOverBudget
<1>6. CASE Finish(g)
  <2>1. Busy
    BY <1>6, <1>at DEF Finish
  <2>2. QED
    BY <1>6, <1>u, <2>1 DEF Finish
<1>7. CASE Enter(g)
  <2>1. Busy
    BY <1>7, <1>at DEF Enter, EntersAt
  <2>2. QED
    BY <1>7, <1>t, <2>1 DEF Enter, TreeOnEntry, OpenWorktree
<1>8. CASE Propose(g)
  <2>1. Busy
    BY <1>8, <1>at DEF Propose, AfterFix
  <2>2. QED
    BY <1>8, <1>t, <2>1 DEF Propose, runtime
<1>9. CASE Retry(g) \/ Package(g)
  <2>1. Busy
    BY <1>9, <1>t DEF Retry, Package, RunRecords
  <2>2. QED
    BY <1>9, <1>t, <2>1 DEF Retry, Package, OpenWorktree
<1>10. CASE Release(g)
  <2>1. run'[g].at = "done"
    BY <1>10, <1>t DEF Release, Ended, NotStarted
  <2>2. QED
    BY <1>10, <1>t, <2>1 DEF Release
<1>11. QED
  BY <1>1, <1>2, <1>3, <1>4, <1>5, <1>6, <1>7, <1>8, <1>9, <1>10 DEF Work

\* A run that no other run of its change has been beside.
AloneIsAlone ==
    \A g, h \in Runs :
        (Underway(g) /\ run[g].alone /\ Underway(h) /\ run[h].of = run[g].of) => h = g

Registered == QueueIsWaiting /\ NothingLeaks /\ AloneIsAlone

LEMMA WorkStaysRegistered ==
    ASSUME Typed, Registered, NEW g \in Runs, Work(g)
    PROVE  Registered'
<1>1. /\ mode' = mode /\ Underway(g) /\ (run[g].at = "queued" => WorkerTakes(g))
      /\ run \in [Runs -> RunRecords] /\ queue \in Seq(Runs)
  BY WorkTyped, WorkIsUnderway, TypesOf DEF Registered
<1>2. PICK r : RunBecomes(g, r) /\ Keeps(g, r)
  BY WorkTyped
<1>3. run'[g] = r /\ r.of = run[g].of /\ \A h \in Runs \ {g} : run'[h] = run[h]
  BY <1>2, RunMovesTyped DEF Keeps
<1>4. /\ \A k \in Keys \ {Key(g)} : budgets'[k] = budgets[k] /\ (k \in sandboxes' <=> k \in sandboxes)
      /\ \/ r.at \notin {"none", "done", "queued"}
         \/ r.at = "done" /\ Key(g) \notin sandboxes' /\ budgets'[Key(g)] = "none"
      /\ queue' = queue \/ WorkerTakes(g)
  BY <1>3, RuntimeMoves
<1>5. QueueIsWaiting'
  <2>1. CASE WorkerTakes(g)
    <3>1. /\ queue # <<>> /\ queue' = Tail(queue) /\ queue[1] = g
      BY <1>1, <2>1, HeadTailProperties DEF WorkerTakes
    <3>2. /\ Len(queue') = Len(queue) - 1 /\ Len(queue) \in Nat
          /\ \A i \in 1 .. Len(queue') : queue'[i] = queue[i + 1] /\ i + 1 \in 1 .. Len(queue)
      BY <1>1, <3>1, HeadTailProperties
    <3>3. \A i \in 1 .. Len(queue') : queue'[i] # g /\ queue'[i] \in Runs
      BY <1>1, <3>1, <3>2 DEF Registered, QueueIsWaiting
    <3>4. ASSUME NEW i \in 1 .. Len(queue')
          PROVE  /\ run'[queue'[i]].at = "queued"
                 /\ \A j \in 1 .. Len(queue') : queue'[i] = queue'[j] => i = j
      <4>1. /\ i \in Nat /\ i + 1 \in 1 .. Len(queue) /\ queue'[i] = queue[i + 1]
            /\ run[queue[i + 1]].at = "queued"
        BY <3>2 DEF Registered, QueueIsWaiting
      <4>2. run'[queue'[i]] = run[queue[i + 1]]
        BY <1>3, <3>3, <4>1
      <4>3. ASSUME NEW j \in 1 .. Len(queue'), queue'[i] = queue'[j] PROVE i = j
        <5>1. j + 1 \in 1 .. Len(queue) /\ queue[i + 1] = queue[j + 1]
          BY <3>2, <4>1, <4>3
        <5>2. i + 1 = j + 1
          BY <4>1, <5>1 DEF Registered, QueueIsWaiting
        <5>3. QED
          BY <3>2, <4>1, <5>2
      <4>4. QED
        BY <4>1, <4>2, <4>3
    <3>5. QED
      BY <3>4 DEF QueueIsWaiting
  <2>2. CASE ~WorkerTakes(g)
    <3>1. \A i \in 1 .. Len(queue) : queue[i] # g /\ queue[i] \in Runs
      BY <1>1, <2>2 DEF Registered, QueueIsWaiting
    <3>2. QED
      BY <1>3, <1>4, <2>2, <3>1 DEF Registered, QueueIsWaiting
  <2>3. QED
    BY <2>1, <2>2
<1>6. NothingLeaks'
  <2> SUFFICES ASSUME NEW k \in Keys, (k \in sandboxes \/ budgets[k] # "none")'
               PROVE  \E h \in Runs : Underway(h)' /\ Key(h)' = k
    BY DEF NothingLeaks
  <2>1. \A h \in Runs : Key(h)' = Key(h)
    BY <1>1, <1>3 DEF Key
  <2>2. CASE k = Key(g)
    BY <1>3, <1>4, <2>1, <2>2 DEF Underway
  <2>3. CASE k # Key(g)
    <3>1. PICK h \in Runs : Underway(h) /\ Key(h) = k
      BY <1>4, <2>3 DEF Registered, NothingLeaks
    <3>2. h # g
      BY <2>3, <3>1
    <3>3. QED
      BY <1>3, <2>1, <3>1, <3>2 DEF Underway
  <2>4. QED
    BY <2>2, <2>3
<1>7. AloneIsAlone'
  BY <1>1, <1>2, <1>3 DEF Registered, AloneIsAlone, Underway, Keeps
<1>8. QED
  BY <1>5, <1>6, <1>7 DEF Registered

LEMMA StartStaysRegistered ==
    ASSUME Typed, Registered, NEW g \in Runs, NEW c \in Changes, Start(g, c)
    PROVE  Registered'
<1>1. /\ run[g].at = "none" /\ run'[g].of = c /\ run'[g].at = "queued"
      /\ \A h \in Runs \ {g} : /\ run'[h].at = run[h].at /\ run'[h].of = run[h].of
                               /\ Underway(h) /\ run[h].of = c => ~run'[h].alone
                               /\ ~(Underway(h) /\ run[h].of = c) => run'[h] = run[h]
      /\ run'[g].alone <=> ~ \E h \in Runs : Underway(h) /\ run[h].of = c
  BY StartTyped
<1>2. UNCHANGED <<mode, sandboxes, budgets>> /\ queue' = Append(queue, g) /\ queue \in Seq(Runs)
  BY TypesOf DEF Start, runtime
<1>3. \A h \in Runs \ {g} : Underway(h)' = Underway(h) /\ Key(h)' = Key(h)
  BY <1>1, <1>2 DEF Underway, Key
<1>4. ~Underway(g)
  BY <1>1 DEF Underway
<1>5. QueueIsWaiting'
  <2>1. /\ Len(queue) \in Nat /\ Len(queue') = Len(queue) + 1 /\ queue'[Len(queue) + 1] = g
        /\ \A i \in 1 .. Len(queue) : queue'[i] = queue[i]
    BY <1>2, AppendProperties
  <2>2. \A i \in 1 .. Len(queue) : /\ queue[i] \in Runs \ {g} /\ run[queue[i]].at = "queued"
                                  /\ \A j \in 1 .. Len(queue) : queue[i] = queue[j] => i = j
    BY <1>1, <1>2 DEF Registered, QueueIsWaiting
  <2>3. ASSUME NEW i \in 1 .. Len(queue')
        PROVE  /\ run'[queue'[i]].at = "queued"
               /\ \A j \in 1 .. Len(queue') : queue'[i] = queue'[j] => i = j
    <3>1. CASE i \in 1 .. Len(queue)
      <4>1. queue'[i] = queue[i] /\ queue[i] \in Runs \ {g} /\ run'[queue[i]].at = "queued"
        BY <1>1, <2>1, <2>2, <3>1
      <4>2. ASSUME NEW j \in 1 .. Len(queue'), queue'[i] = queue'[j] PROVE i = j
        BY <2>1, <2>2, <3>1, <4>1, <4>2
      <4>3. QED
        BY <4>1, <4>2
    <3>2. CASE i = Len(queue) + 1
      BY <1>1, <2>1, <2>2, <3>2
    <3>3. QED
      BY <2>1, <3>1, <3>2
  <2>4. QED
    BY <2>3 DEF QueueIsWaiting
<1>6. NothingLeaks'
  <2> SUFFICES ASSUME NEW k \in Keys, (k \in sandboxes \/ budgets[k] # "none")'
               PROVE  \E h \in Runs : Underway(h)' /\ Key(h)' = k
    BY DEF NothingLeaks
  <2>1. PICK h \in Runs : Underway(h) /\ Key(h) = k
    BY <1>2 DEF Registered, NothingLeaks
  <2>2. QED
    BY <1>3, <1>4, <2>1
<1>7. AloneIsAlone'
  BY <1>1, <1>3, <1>4 DEF Registered, AloneIsAlone
<1>8. QED
  BY <1>5, <1>6, <1>7 DEF Registered

\* The budget that runs out was given to a run that is still there.
LEMMA BudgetStaysRegistered ==
    ASSUME Typed, Registered, NEW k \in Keys, BudgetRunsOut(k)
    PROVE  Registered'
<1>1. /\ UNCHANGED <<mode, queue, run, sandboxes>> /\ budgets[k] = "open"
      /\ \A j \in Keys : budgets'[j] # "none" => budgets[j] # "none"
  BY TypesOf DEF BudgetRunsOut
<1>2. \A h \in Runs : Underway(h)' = Underway(h) /\ Key(h)' = Key(h)
  BY <1>1 DEF Underway, Key
<1>3. QED
  BY <1>1, <1>2 DEF Registered, QueueIsWaiting, NothingLeaks, AloneIsAlone

LEMMA RestartStaysRegistered ==
    ASSUME Typed, Restart
    PROVE  Registered'
<1>1. \A g \in Runs : ~Underway(g)'
  BY RestartTyped
<1>2. queue' = <<>> /\ sandboxes' = {} /\ \A k \in Keys : budgets'[k] = "none"
  BY DEF Restart
<1>3. QED
  BY <1>1, <1>2 DEF Registered, QueueIsWaiting, NothingLeaks, AloneIsAlone

LEMMA NextStaysRegistered ==
    ASSUME Typed, Registered, [Next]_vars
    PROVE  Registered'
<1>q. ASSUME UNCHANGED <<mode, queue, run, sandboxes, budgets>>
      PROVE  Registered'
  BY <1>q DEF Registered, QueueIsWaiting, NothingLeaks, AloneIsAlone, Underway, Key
<1>1. CASE \E c \in Changes, d \in {"approve", "reject"}, by \in Approvers : Decide(c, d, by)
  BY <1>1, <1>q DEF Decide, runtime
<1>2. CASE UNCHANGED vars
  BY <1>2, <1>q DEF vars
<1>3. QED
  BY <1>1, <1>2, WorkStaysRegistered, StartStaysRegistered, BudgetStaysRegistered, RestartStaysRegistered
  DEF Next

LEMMA RegisteredInvariant == Spec => []Registered
<1>1. Init => Registered
  BY DEF Init, Registered, QueueIsWaiting, NothingLeaks, AloneIsAlone, Underway, NotStarted
<1>2. Typed /\ Registered /\ [Next]_vars => Registered'
  BY NextStaysRegistered
<1>3. QED
  BY <1>1, <1>2, TypedInvariant, PTL DEF Spec

\* runner.py's `finally`, runtime.release: a sandbox or a budget is there only while a run of its key
\* is underway, so that a later run of the change starts afresh.
THEOREM RegistriesAreClean == Spec => []NothingLeaks
  BY RegisteredInvariant, PTL DEF Registered

-----------------------------------------------------------------------------
(* What is shown is what was verified. *)

Early == {"queued", "investigate", "investigating"}
Editing == {"fixing", "propose"}
Checking == {"verify", "verifying", "inspect", "test"}
Trying == {"soak", "measure"}
Judging == {"review", "reviewing", "critique", "judge", "judged", "package"}
Reviewed == {"judge", "judged", "package"}
Verified == {"verdict", "verified"}
OwnEdit(g, r) == {[by |-> g, attempt |-> r.attempt, from |-> "fixer"]}

\* The last attempt's edit, alone or with what the tests left beside it.
Tested(g, r, edits) ==
    edits = OwnEdit(g, r) \/ edits = OwnEdit(g, r) \union {[by |-> g, attempt |-> r.attempt, from |-> "tests"]}

\* How far the work of a run is its own, by where it is: it starts without a sandbox, its fix node
\* starts from a clean worktree, and from there its last attempt's edit is all that is checked and,
\* but for what its tests leave, all there is in the worktree, all that is reviewed and all that is
\* packaged.  (open: a sandbox is there for the run's key; spent: its budget is used up; edits: what
\* is in the worktree.)
HoldsOwnWork(g, r, open, spent, edits) ==
    /\ r.at \in Early => ~open /\ r.attempt = 1
    /\ r.at = "fix" /\ r.attempt = 1 => ~open \/ spent
    /\ r.at \in Editing => open /\ edits = {}
    /\ r.at \in Checking => open /\ edits = OwnEdit(g, r)
    /\ r.at \in Trying \union Verified \union Judging => open /\ Tested(g, r, edits)
    /\ r.at \in {"test"} \union Trying \union Judging => r.checked = OwnEdit(g, r)
    /\ r.at \in Verified /\ r.passed => r.checked = OwnEdit(g, r)
    /\ r.at \in Reviewed => r.reviewed = edits
    /\ r.at = "finish" => /\ r.diff = r.reviewed /\ Tested(g, r, r.diff)
                          /\ r.checked = OwnEdit(g, r)

OwnWork(g) == HoldsOwnWork(g, run[g], Key(g) \in sandboxes, OverBudget(g), tree[run[g].of])

AloneOwnsItsWork == \A g \in Runs : Underway(g) /\ run[g].alone => OwnWork(g)

\* Its own steps keep a run's work its own.
LEMMA OwnStepsKeepOwnWork ==
    ASSUME Typed, QueueIsWaiting, NEW g \in Runs, Work(g), OwnWork(g)
    PROVE  OwnWork(g)'
<1> DEFINE r == run'[g]
           c == run[g].of
           k == Key(g)
           open == k \in sandboxes
           spent == budgets[k] = "spent"
<1>t. /\ run[g] \in RunRecords /\ run \in [Runs -> RunRecords] /\ k \in Keys /\ c \in Changes
      /\ tree \in [Changes -> SUBSET Edits] /\ budgets \in [Keys -> {"none", "open", "spent"}]
      /\ run[g].attempt \in Nat \ {0}
  BY TypesOf
<1>w. /\ mode' = mode /\ r.of = c /\ (run[g].at = "queued" => WorkerTakes(g))
  BY WorkTyped, WorkIsUnderway, RunMovesTyped DEF Keeps
<1>h. HoldsOwnWork(g, run[g], open, spent, tree[c])
  BY DEF OwnWork, OverBudget
<1>q. ASSUME HoldsOwnWork(g, r, k \in sandboxes', budgets'[k] = "spent", tree'[c])
      PROVE  OwnWork(g)'
  <2>1. Key(g)' = k
    BY <1>w DEF Key
  <2>2. QED
    BY <1>q, <1>w, <2>1 DEF OwnWork, OverBudget
<1>f. ASSUME r.at \in {"crash", "failed", "release", "retry", "done"} PROVE OwnWork(g)'
  BY <1>f, <1>q DEF HoldsOwnWork, Early, Editing, Checking, Trying, Judging, Reviewed, Verified
<1>at. ASSUME NEW at, RunAt(g, at)
       PROVE  /\ r.at = at /\ r.attempt = run[g].attempt /\ r.passed = run[g].passed
              /\ r.checked = run[g].checked /\ r.reviewed = run[g].reviewed /\ r.diff = run[g].diff
  BY <1>at, <1>t DEF RunAt, RunRecords
<1>u. UNCHANGED <<runtime, tree>> =>
          (k \in sandboxes' <=> open) /\ (budgets'[k] = "spent" <=> spent) /\ tree'[c] = tree[c]
  BY DEF runtime
<1>1. CASE WorkerTakes(g)
  <2>1. run[g].at = "queued" /\ UNCHANGED <<runtime, tree>> /\ RunAt(g, "investigate")
    BY <1>1, <1>t, TypesOf, HeadTailProperties DEF WorkerTakes, QueueIsWaiting
  <2>2. QED
    BY <1>h, <1>q, <1>at, <1>u, <2>1
    DEF HoldsOwnWork, Early, Editing, Checking, Trying, Judging, Reviewed, Verified
<1>2. CASE InvokeFails(g) \/ SendBack(g) \/ NodeRaises(g)
  BY <1>2, <1>at, <1>f DEF InvokeFails, SendBack, NodeRaises
<1>3. CASE EnterOverBudget(g) \/ Escalate(g) \/ CrashNode(g) \/ RunFailed(g)
  <2>1. \E at \in {"release", "crash"} : RunAt(g, at)
    BY <1>3 DEF EnterOverBudget, Escalate, CrashNode, RunFailed, AfterFix, Step
  <2>2. QED
    BY <1>at, <1>f, <2>1
<1>4. CASE Investigated(g)
  <2>1. UNCHANGED <<runtime, tree>> /\ run[g].at = "investigating" /\ \E at \in {"fix", "crash"} : RunAt(g, at)
    BY <1>4 DEF Investigated, Step
  <2>2. CASE RunAt(g, "fix")
    BY <1>h, <1>q, <1>at, <1>u, <2>1, <2>2
    DEF HoldsOwnWork, Early, Editing, Checking, Trying, Judging, Reviewed, Verified
  <2>3. QED
    BY <1>at, <1>f, <2>1, <2>2
<1>5. CASE Progress(g)
  <2>1. UNCHANGED <<runtime, tree>> /\ run[g].at \in DOMAIN ProgressAt
        /\ \E at \in {ProgressAt[run[g].at].next, "crash"} : RunAt(g, at)
    BY <1>5 DEF Progress, Step
  <2>2. CASE RunAt(g, ProgressAt[run[g].at].next)
    BY <1>h, <1>q, <1>at, <1>u, <2>1, <2>2
    DEF HoldsOwnWork, OwnEdit, Tested, ProgressAt, Early, Editing, Checking, Trying, Judging, Reviewed, Verified
  <2>3. QED
    BY <1>at, <1>f, <2>1, <2>2
<1>6. CASE Enter(g)
  <2>1. /\ run[g].at \in DOMAIN EntersAt /\ ~spent /\ r.at = EntersAt[run[g].at]
        /\ r.attempt = run[g].attempt /\ r.passed = run[g].passed
        /\ r.checked = run[g].checked /\ r.reviewed = run[g].reviewed /\ r.diff = run[g].diff
        /\ budgets'[k] = "open"
        /\ tree' = TreeOnEntry(g)
        /\ k \in sandboxes' <=> (open \/ run[g].at # "investigate")
    BY <1>6, <1>at, <1>t DEF Enter, OverBudget
  <2>2. CASE run[g].at = "investigate"
    <3>1. tree' = tree /\ r.at = "investigating"
      BY <2>1, <2>2 DEF TreeOnEntry, EntersAt
    <3>2. QED
      BY <1>h, <1>q, <2>1, <2>2, <3>1
      DEF HoldsOwnWork, Early, Editing, Checking, Trying, Judging, Reviewed, Verified
  <2>3. CASE run[g].at = "fix"
    <3>1. r.at = "fixing" /\ (run[g].attempt = 1 => ~open)
      BY <1>h, <2>1, <2>3 DEF HoldsOwnWork, EntersAt
    <3>2. tree'[c] = {}
      BY <1>t, <2>1, <2>3, <3>1 DEF TreeOnEntry, OpenWorktree
    <3>3. QED
      BY <1>q, <2>1, <2>3, <3>1, <3>2
      DEF HoldsOwnWork, Early, Editing, Checking, Trying, Judging, Reviewed, Verified
  <2>4. CASE run[g].at \in {"verify", "review"}
    <3>1. /\ open /\ (run[g].at = "verify" => tree[c] = OwnEdit(g, run[g]))
          /\ run[g].at = "review" => run[g].checked = OwnEdit(g, run[g]) /\ Tested(g, run[g], tree[c])
      BY <1>h, <2>4 DEF HoldsOwnWork, Checking, Judging
    <3>2. tree' = tree
      BY <2>1, <2>4, <3>1 DEF TreeOnEntry
    <3>3. r.at = IF run[g].at = "verify" THEN "verifying" ELSE "reviewing"
      BY <2>1, <2>4 DEF EntersAt
    <3>4. OwnEdit(g, r) = OwnEdit(g, run[g]) /\ (Tested(g, run[g], tree[c]) => Tested(g, r, tree[c]))
      BY <2>1 DEF OwnEdit, Tested
    <3>5. QED
      BY <1>q, <2>1, <2>4, <3>1, <3>2, <3>3, <3>4
      DEF HoldsOwnWork, Early, Editing, Checking, Trying, Judging, Reviewed, Verified
  <2>5. QED
    BY <2>1, <2>2, <2>3, <2>4 DEF EntersAt
<1>7. CASE Propose(g)
  <2>1. run[g].at = "propose" /\ UNCHANGED runtime /\ \E at \in {"verify", "crash"} : RunAt(g, at)
    BY <1>7 DEF Propose, AfterFix
  <2>2. CASE RunAt(g, "verify")
    <3>1. open /\ tree[c] = {}
      BY <1>h, <2>1 DEF HoldsOwnWork, Editing
    <3>2. tree'[c] = OwnEdit(g, run[g])
      BY <1>7, <1>t, <3>1 DEF Propose, OwnEdit, Edit
    <3>3. r.at = "verify" /\ OwnEdit(g, r) = OwnEdit(g, run[g])
      BY <1>at, <2>2 DEF OwnEdit
    <3>4. QED
      BY <1>q, <2>1, <3>1, <3>2, <3>3
      DEF HoldsOwnWork, runtime, Early, Editing, Checking, Trying, Judging, Reviewed, Verified
  <2>3. QED
    BY <1>at, <1>f, <2>1, <2>2
\* A check that did not pass.
<1>n. ASSUME NotPassed(g), UNCHANGED runtime, open, Tested(g, run[g], tree'[c])
      PROVE  OwnWork(g)'
  <2>1. r.at = "verdict" /\ ~r.passed /\ r.attempt = run[g].attempt
    BY <1>n, <1>t DEF NotPassed, RunRecords
  <2>2. Tested(g, r, tree'[c])
    BY <1>n, <2>1 DEF Tested, OwnEdit
  <2>3. QED
    BY <1>q, <1>n, <2>1, <2>2
    DEF HoldsOwnWork, runtime, Early, Editing, Checking, Trying, Judging, Reviewed, Verified
<1>8. CASE VerifyDiff(g)
  <2>1. /\ run[g].at = "inspect" /\ UNCHANGED <<runtime, tree>>
        /\ open /\ tree[c] = OwnEdit(g, run[g]) /\ Tested(g, run[g], tree'[c])
    BY <1>8, <1>h DEF VerifyDiff, HoldsOwnWork, Checking, Tested
  <2>2. CASE run' = [run EXCEPT ![g].at = "test", ![g].checked = DiffOf(tree, run[g].of),
                                ![g].passed = FALSE, ![g].measured = None]
    <3>1. r.at = "test" /\ r.checked = tree[c] /\ OwnEdit(g, r) = OwnEdit(g, run[g])
      BY <1>t, <2>2 DEF RunRecords, DiffOf, OwnEdit
    <3>2. QED
      BY <1>q, <1>u, <2>1, <3>1
      DEF HoldsOwnWork, Early, Editing, Checking, Trying, Judging, Reviewed, Verified
  <2>3. QED
    BY <1>8, <1>n, <2>1, <2>2 DEF VerifyDiff
<1>9. CASE RunTests(g)
  <2>1. /\ run[g].at = "test" /\ UNCHANGED runtime
        /\ open /\ tree[c] = OwnEdit(g, run[g]) /\ run[g].checked = OwnEdit(g, run[g])
    BY <1>9, <1>h DEF RunTests, HoldsOwnWork, Checking
  <2>2. Tested(g, run[g], tree'[c])
    <3>1. PICK writes \in TestsWrite :
              tree' = [tree EXCEPT ![c] = @ \union IF writes THEN {Edit(g, "tests")} ELSE {}]
      BY <1>9 DEF RunTests
    <3>2. tree'[c] = OwnEdit(g, run[g]) \union IF writes THEN {Edit(g, "tests")} ELSE {}
      BY <1>t, <2>1, <3>1
    <3>3. QED
      BY <3>2 DEF Tested, Edit
  <2>3. CASE RunAt(g, "soak")
    <3>1. OwnEdit(g, r) = OwnEdit(g, run[g]) /\ Tested(g, r, tree'[c])
      BY <1>at, <2>2, <2>3 DEF OwnEdit, Tested
    <3>2. QED
      BY <1>q, <1>at, <2>1, <2>3, <3>1
      DEF HoldsOwnWork, runtime, Early, Editing, Checking, Trying, Judging, Reviewed, Verified
  <2>4. QED
    BY <1>9, <1>n, <2>1, <2>2, <2>3 DEF RunTests
<1>18. CASE Deployed(g)
  <2>1. /\ run[g].at = "soak" /\ UNCHANGED <<runtime, tree>> /\ open /\ Tested(g, run[g], tree'[c])
    BY <1>18, <1>h DEF Deployed, HoldsOwnWork, Trying
  <2>2. CASE RunAt(g, "measure")
    <3>1. OwnEdit(g, r) = OwnEdit(g, run[g]) /\ Tested(g, r, tree'[c])
      BY <1>at, <2>1, <2>2 DEF OwnEdit, Tested
    <3>2. QED
      BY <1>h, <1>q, <1>at, <1>u, <2>1, <2>2, <3>1
      DEF HoldsOwnWork, Early, Editing, Checking, Trying, Judging, Reviewed, Verified
  <2>3. QED
    BY <1>18, <1>n, <2>1, <2>2 DEF Deployed
<1>10. CASE Measure(g)
  <2>1. /\ run[g].at = "measure" /\ UNCHANGED <<runtime, tree>> /\ open /\ Tested(g, run[g], tree'[c])
    BY <1>10, <1>h DEF Measure, HoldsOwnWork, Trying
  <2>2. CASE run' = [run EXCEPT ![g].at = "verdict", ![g].passed = TRUE,
                                ![g].measured = active[ServiceOf[run[g].of]]]
    <3>1. r.at = "verdict" /\ r.checked = run[g].checked /\ r.attempt = run[g].attempt
      BY <1>t, <2>2 DEF RunRecords
    <3>2. OwnEdit(g, r) = OwnEdit(g, run[g]) /\ Tested(g, r, tree'[c])
      BY <2>1, <3>1 DEF OwnEdit, Tested
    <3>3. QED
      BY <1>h, <1>q, <1>u, <2>1, <3>1, <3>2
      DEF HoldsOwnWork, Early, Editing, Checking, Trying, Judging, Reviewed, Verified
  <2>3. QED
    BY <1>10, <1>n, <2>1, <2>2 DEF Measure
<1>19. CASE Critique(g)
  <2>1. /\ run[g].at = "critique" /\ UNCHANGED <<runtime, tree>> /\ open /\ Tested(g, run[g], tree'[c])
        /\ run[g].checked = OwnEdit(g, run[g])
    BY <1>19, <1>h DEF Critique, HoldsOwnWork, Judging
  <2>2. /\ r.at = "judge" /\ r.reviewed = tree[c] /\ r.checked = run[g].checked
        /\ r.attempt = run[g].attempt
    BY <1>19, <1>t DEF Critique, RunRecords, DiffOf
  <2>3. OwnEdit(g, r) = OwnEdit(g, run[g]) /\ Tested(g, r, tree'[c])
    BY <2>1, <2>2 DEF OwnEdit, Tested
  <2>4. QED
    BY <1>q, <1>u, <2>1, <2>2, <2>3
    DEF HoldsOwnWork, Early, Editing, Checking, Trying, Judging, Reviewed, Verified
<1>11. CASE GoOn(g)
  <2>1. UNCHANGED <<runtime, tree>>
    BY <1>11 DEF GoOn
  <2>2. \/ run[g].at = "verified" /\ run[g].passed /\ RunAt(g, "review")
        \/ run[g].at = "judged" /\ RunAt(g, "package")
    BY <1>11 DEF GoOn
  <2>3. OwnEdit(g, r) = OwnEdit(g, run[g]) /\ (Tested(g, run[g], tree[c]) => Tested(g, r, tree[c]))
    BY <1>at, <2>2 DEF OwnEdit, Tested
  <2>4. QED
    BY <1>h, <1>q, <1>at, <1>u, <2>1, <2>2, <2>3
    DEF HoldsOwnWork, Early, Editing, Checking, Trying, Judging, Reviewed, Verified
<1>12. CASE Retry(g)
  <2>1. r.at = "fix" /\ r.attempt # 1
    BY <1>12, <1>t DEF Retry, RunRecords
  <2>2. QED
    BY <1>q, <2>1 DEF HoldsOwnWork, Early, Editing, Checking, Trying, Judging, Reviewed, Verified
<1>13. CASE RetryOverBudget(g)
  <2>1. run' = [run EXCEPT ![g].at = "fix", ![g].crashed = TRUE] \/ RunAt(g, "fix")
    BY <1>13 DEF RetryOverBudget
  <2>2. r.at = "fix" /\ spent /\ UNCHANGED <<runtime, tree>>
    BY <1>13, <1>at, <1>t, <2>1 DEF RetryOverBudget, OverBudget, RunRecords
  <2>3. QED
    BY <1>q, <1>u, <2>2 DEF HoldsOwnWork, Early, Editing, Checking, Trying, Judging, Reviewed, Verified
<1>14. CASE Package(g)
  <2>1. /\ run[g].at = "package" /\ open /\ Tested(g, run[g], tree[c])
        /\ run[g].checked = OwnEdit(g, run[g]) /\ run[g].reviewed = tree[c]
    BY <1>14, <1>h DEF Package, HoldsOwnWork, Judging, Reviewed
  <2>2. tree' = tree
    BY <1>14, <2>1 DEF Package
  <2>3. /\ r.at = "finish" /\ r.diff = tree[c] /\ r.checked = run[g].checked
        /\ r.reviewed = run[g].reviewed /\ r.attempt = run[g].attempt
    BY <1>14, <1>t, <2>2 DEF Package, RunRecords, DiffOf
  <2>4. OwnEdit(g, r) = OwnEdit(g, run[g]) /\ Tested(g, r, tree[c])
    BY <2>1, <2>3 DEF OwnEdit, Tested
  <2>5. QED
    BY <1>q, <2>1, <2>3, <2>4
    DEF HoldsOwnWork, Early, Editing, Checking, Trying, Judging, Reviewed, Verified
<1>15. CASE Finish(g)
  BY <1>15, <1>at, <1>f DEF Finish
<1>16. CASE Release(g)
  <2>1. r.at = "done"
    BY <1>16, <1>t DEF Release, Ended, NotStarted
  <2>2. QED
    BY <1>f, <2>1
<1>20. QED
  BY <1>1, <1>2, <1>3, <1>4, <1>5, <1>6, <1>7, <1>8, <1>9, <1>10, <1>11, <1>12, <1>13, <1>14, <1>15, <1>16,
     <1>18, <1>19 DEF Work

\* A step of one run leaves the work of another alone, if that one is the only run of its change.
LEMMA WorkKeepsOwnWork ==
    ASSUME Typed, Registered, AloneOwnsItsWork, NEW g \in Runs, Work(g)
    PROVE  AloneOwnsItsWork'
<1>1. mode' = mode /\ Underway(g)
  BY WorkTyped, WorkIsUnderway DEF Registered
<1>2. PICK r : RunBecomes(g, r) /\ Keeps(g, r)
  BY WorkTyped
<1>3. run'[g] = r /\ r.of = run[g].of /\ \A h \in Runs \ {g} : run'[h] = run[h]
  BY <1>2, RunMovesTyped DEF Keeps
<1>4. SUFFICES ASSUME NEW h \in Runs, (Underway(h) /\ run[h].alone)'
               PROVE  OwnWork(h)'
  BY DEF AloneOwnsItsWork
<1>5. CASE h = g
  <2>1. run[g].alone
    BY <1>2, <1>3, <1>4, <1>5 DEF Keeps, Underway
  <2>2. OwnWork(g)
    BY <1>1, <2>1 DEF AloneOwnsItsWork
  <2>3. QED
    BY <1>5, <2>2, OwnStepsKeepOwnWork DEF Registered
<1>6. CASE h # g
  <2>1. run'[h] = run[h] /\ Underway(h) /\ run[h].alone
    BY <1>3, <1>4, <1>6 DEF Underway
  <2>2. run[h].of # run[g].of
    BY <1>1, <1>6, <2>1 DEF Registered, AloneIsAlone
  <2>3. /\ Key(h) \in Keys \ {Key(g)} /\ run[h].of \in Changes \ {run[g].of} /\ Key(h)' = Key(h)
    BY <1>1, <1>6, <2>1, <2>2, TypesOf DEF Key
  <2>4. /\ budgets'[Key(h)] = budgets[Key(h)] /\ (Key(h) \in sandboxes' <=> Key(h) \in sandboxes)
        /\ tree'[run[h].of] = tree[run[h].of]
    BY <2>3, RuntimeMoves
  <2>5. OwnWork(h)
    BY <2>1 DEF AloneOwnsItsWork
  <2>6. QED
    BY <2>1, <2>3, <2>4, <2>5 DEF OwnWork, OverBudget, HoldsOwnWork
<1>7. QED
  BY <1>5, <1>6

\* A run that starts alone finds no sandbox under its key: none outlives the runs of the key.
LEMMA StartKeepsOwnWork ==
    ASSUME Typed, Registered, AloneOwnsItsWork, NEW g \in Runs, NEW c \in Changes, Start(g, c)
    PROVE  AloneOwnsItsWork'
<1>1. /\ run[g].at = "none" /\ run'[g].of = c /\ run'[g].at = "queued" /\ run'[g].attempt = 1
      /\ \A h \in Runs \ {g} : /\ run'[h].at = run[h].at /\ run'[h].of = run[h].of
                               /\ Underway(h) /\ run[h].of = c => ~run'[h].alone
                               /\ ~(Underway(h) /\ run[h].of = c) => run'[h] = run[h]
      /\ run'[g].alone <=> ~ \E h \in Runs : Underway(h) /\ run[h].of = c
  BY StartTyped
<1>2. UNCHANGED <<mode, sandboxes, budgets, tree>> /\ mode \in {"real", "shadow"}
  BY TypesOf DEF Start, runtime
<1>3. SUFFICES ASSUME NEW h \in Runs, (Underway(h) /\ run[h].alone)'
               PROVE  OwnWork(h)'
  BY DEF AloneOwnsItsWork
<1>4. CASE h = g
  <2>1. ~ \E i \in Runs : Underway(i) /\ (run[i].of = c \/ i = g)
    BY <1>1, <1>3, <1>4 DEF Underway
  <2>2. Key(g)' \in Keys /\ (Key(g)' = g \/ (mode = "real" /\ Key(g)' = c))
    BY <1>1, <1>2 DEF Key, Keys
  <2>3. \A i \in Runs : Key(i) = IF mode = "shadow" THEN i ELSE run[i].of
    BY DEF Key
  <2>4. Key(g)' \notin sandboxes
    <3>1. SUFFICES ASSUME NEW i \in Runs, Underway(i), Key(i) = Key(g)' PROVE FALSE
      BY <2>2 DEF Registered, NothingLeaks
    <3>2. CASE mode = "shadow"
      BY <1>2, <2>1, <2>3, <3>1, <3>2 DEF Key
    <3>3. CASE mode = "real"
      BY <1>1, <1>2, <2>1, <2>3, <3>1, <3>3 DEF Key
    <3>4. QED
      BY <1>2, <3>2, <3>3
  <2>5. QED
    BY <1>1, <1>2, <1>4, <2>4
    DEF OwnWork, HoldsOwnWork, Early, Editing, Checking, Trying, Judging, Reviewed, Verified
<1>5. CASE h # g
  <2>1. run'[h] = run[h] /\ Underway(h) /\ run[h].alone /\ Key(h)' = Key(h)
    BY <1>1, <1>2, <1>3, <1>5 DEF Underway, Key
  <2>2. OwnWork(h)
    BY <2>1 DEF AloneOwnsItsWork
  <2>3. QED
    BY <1>2, <2>1, <2>2 DEF OwnWork, OverBudget
<1>6. QED
  BY <1>4, <1>5

\* A budget that runs out takes nothing from anyone's work.
LEMMA BudgetKeepsOwnWork ==
    ASSUME Typed, AloneOwnsItsWork, NEW k \in Keys, BudgetRunsOut(k)
    PROVE  AloneOwnsItsWork'
<1>1. UNCHANGED <<mode, run, sandboxes, tree>>
      /\ \A j \in Keys : budgets[j] = "spent" => budgets'[j] = "spent"
  BY TypesOf DEF BudgetRunsOut
<1>2. \A g \in Runs : Key(g)' = Key(g) /\ Key(g) \in Keys /\ (OverBudget(g) => OverBudget(g)')
  BY <1>1, TypesOf DEF Key, OverBudget
<1>3. QED
  BY <1>1, <1>2 DEF AloneOwnsItsWork, Underway, OwnWork, HoldsOwnWork

LEMMA NextKeepsOwnWork ==
    ASSUME Typed, Registered, AloneOwnsItsWork, [Next]_vars
    PROVE  AloneOwnsItsWork'
<1>q. ASSUME UNCHANGED <<mode, run, sandboxes, budgets, tree>>
      PROVE  AloneOwnsItsWork'
  BY <1>q DEF AloneOwnsItsWork, Underway, OwnWork, OverBudget, Key
<1>1. CASE \E c \in Changes, d \in {"approve", "reject"}, by \in Approvers : Decide(c, d, by)
  BY <1>1, <1>q DEF Decide, runtime
<1>2. CASE UNCHANGED vars
  BY <1>2, <1>q DEF vars
<1>3. CASE Restart
  BY <1>3, RestartTyped DEF AloneOwnsItsWork
<1>4. QED
  BY <1>1, <1>2, <1>3, WorkKeepsOwnWork, StartKeepsOwnWork, BudgetKeepsOwnWork DEF Next

\* Nothing is put before a person but by a run that finishes.
LEMMA ShownByFinish ==
    ASSUME [Next]_vars
    PROVE  UNCHANGED shown \/ \E g \in Runs : Finish(g)
<1>1. ASSUME NEW g \in Runs, NEW to, NEW d, NEW next, NEW onError, Step(g, to, d, next, onError)
      PROVE  UNCHANGED shown
  BY <1>1 DEF Step, Record, store
<1>2. ASSUME NEW g \in Runs, Work(g), ~Finish(g)
      PROVE  UNCHANGED shown
  <2>1. CASE EnterOverBudget(g) \/ Investigated(g) \/ Progress(g) \/ Escalate(g) \/ CrashNode(g) \/ RunFailed(g)
    BY <1>1, <2>1 DEF EnterOverBudget, Investigated, Progress, Escalate, CrashNode, RunFailed
  <2>2. CASE WorkerTakes(g) \/ Enter(g) \/ Propose(g) \/ VerifyDiff(g) \/ RunTests(g)
    BY <2>2 DEF WorkerTakes, Enter, Propose, VerifyDiff, RunTests, store
  <2>3. CASE GoOn(g) \/ SendBack(g) \/ Retry(g) \/ Package(g) \/ NodeRaises(g) \/ InvokeFails(g) \/ Release(g)
    BY <2>3 DEF GoOn, SendBack, Retry, Package, NodeRaises, InvokeFails, Release, store
  <2>4. CASE RetryOverBudget(g)
    BY <2>4 DEF RetryOverBudget, Record, store
  <2>5. CASE Deployed(g) \/ Measure(g) \/ Critique(g)
    BY <2>5 DEF Deployed, Measure, Critique, store
  <2>6. QED
    BY <1>2, <2>1, <2>2, <2>3, <2>4, <2>5 DEF Work
<1>3. ASSUME NEW g \in Runs, NEW c \in Changes, Start(g, c) PROVE UNCHANGED shown
  BY <1>3 DEF Start
<1>4. QED
  BY <1>2, <1>3 DEF Next, BudgetRunsOut, Decide, Restart, store, vars

\* graph.py:281 "The approver must be able to see exactly what was verified": if the run was never
\* beside another run of its change, the diff put before a person is the one the Critic read; the
\* Verifier checked all of it but what the project's tests left behind after that, and it holds the
\* last attempt's edit and nothing of the attempts before it, whatever failed, ran out or restarted
\* in between.
THEOREM OnlyReviewedIsShown == Spec => []ShownIsReviewed
<1>1. Init => AloneOwnsItsWork /\ ShownIsReviewed
  <2>1. Init => \A g \in Runs : ~Underway(g)
    BY DEF Init, Underway, NotStarted
  <2>2. Init => \A c \in Changes : shown[c] = NoOffer
    BY DEF Init
  <2>3. /\ NoOffer.diff = {} /\ NoOffer.checked = {} /\ NoOffer.last = {} /\ NoOffer.reviewed = {}
        /\ {} \ LeftByTests({}) = {}
    BY DEF NoOffer
  <2>4. QED
    BY <2>1, <2>2, <2>3 DEF AloneOwnsItsWork, ShownIsReviewed
<1>2. Typed /\ Registered /\ AloneOwnsItsWork /\ ShownIsReviewed /\ [Next]_vars
          => (AloneOwnsItsWork /\ ShownIsReviewed)'
  <2> SUFFICES ASSUME Typed, Registered, AloneOwnsItsWork, ShownIsReviewed, [Next]_vars
               PROVE  AloneOwnsItsWork' /\ ShownIsReviewed'
    OBVIOUS
  <2>1. CASE UNCHANGED shown
    BY <2>1, NextKeepsOwnWork DEF ShownIsReviewed
  <2>2. ASSUME NEW g \in Runs, Finish(g), ~UNCHANGED shown
        PROVE  ShownIsReviewed'
    <3> DEFINE c == run[g].of
               offer == [diff |-> run[g].diff, checked |-> run[g].checked, reviewed |-> run[g].reviewed,
                         last |-> OwnEdit(g, run[g]), alone |-> run[g].alone]
    <3>1. run[g].at = "finish" /\ shown' = [shown EXCEPT ![c] = offer]
      BY <2>2 DEF Finish, OwnEdit, Edit, store
    <3>2. run[g].alone => /\ offer.diff = offer.reviewed /\ Tested(g, run[g], offer.diff)
                          /\ offer.checked = offer.last
      BY <3>1 DEF AloneOwnsItsWork, Underway, OwnWork, HoldsOwnWork
    <3>a. LeftByTests(offer.last) = {[by |-> g, attempt |-> run[g].attempt, from |-> "tests"]}
      BY DEF LeftByTests, OwnEdit
    <3>b. Tested(g, run[g], offer.diff) => offer.diff \ LeftByTests(offer.last) = offer.last
      BY <3>a DEF Tested, OwnEdit
    <3>3. \A e \in Changes : shown'[e] = IF e = c THEN offer ELSE shown[e]
      BY <3>1, TypesOf
    <3>4. QED
      BY <3>2, <3>b, <3>3 DEF ShownIsReviewed
  <2>3. QED
    BY <2>1, <2>2, NextKeepsOwnWork, ShownByFinish
<1>3. QED
  BY <1>1, <1>2, TypedInvariant, RegisteredInvariant, PTL DEF Spec

-----------------------------------------------------------------------------
(* Whose branch a run measures. *)

\* The branch that is active where a run is about to measure, or was when it did, is its own, if no
\* other change of the service took its place.
BranchIsOwn ==
    \A g \in Runs :
        /\ run[g].at \in {"none", "done", "test", "soak", "measure"} => ~run[g].passed
        /\ run[g].at = "measure" /\ g \notin displaced => active[ServiceOf[run[g].of]] = run[g].of
        /\ run[g].passed /\ g \notin displaced => run[g].measured = run[g].of

LEMMA WorkMeasuresOwn ==
    ASSUME Typed, BranchIsOwn, NEW g \in Runs, Work(g)
    PROVE  BranchIsOwn'
<1> DEFINE r == run'[g]
           c == run[g].of
           s == ServiceOf[c]
           Kept == /\ r.at \in {"none", "done", "test", "soak", "measure"} => ~r.passed
                   /\ r.at = "measure" /\ g \notin displaced' => active'[s] = c
                   /\ r.passed /\ g \notin displaced' => r.measured = c
<1>t. /\ run[g] \in RunRecords /\ run \in [Runs -> RunRecords] /\ c \in Changes
      /\ active \in [{ServiceOf[d] : d \in Changes} -> Changes \union {None}]
      /\ displaced \subseteq Runs /\ \A h \in Runs : run[h].of \in Changes
  BY TypesOf
<1>g. PICK q : RunBecomes(g, q) /\ Keeps(g, q)
  BY WorkTyped
<1>w. r.of = c /\ \A h \in Runs \ {g} : run'[h] = run[h]
  BY <1>g, RunMovesTyped DEF Keeps
<1>at. ASSUME NEW at, RunAt(g, at)
       PROVE  r.at = at /\ r.passed = run[g].passed /\ r.measured = run[g].measured
  BY <1>at, <1>t DEF RunAt, RunRecords
\* What a step that leaves the environment alone has to show.
<1>q. ASSUME Kept, UNCHANGED dev PROVE BranchIsOwn'
  BY <1>q, <1>w DEF BranchIsOwn, dev
<1>m. ASSUME NEW at, RunAt(g, at), at \notin {"none", "done", "test", "soak", "measure"}, UNCHANGED dev PROVE BranchIsOwn'
  BY <1>at, <1>m, <1>q DEF BranchIsOwn, dev
<1>s. ASSUME NEW to, NEW d, NEW next, NEW onError, Step(g, to, d, next, onError),
             next \notin {"none", "done", "test", "soak", "measure"}, onError \notin {"none", "done", "test", "soak", "measure"}, UNCHANGED dev
      PROVE  BranchIsOwn'
  BY <1>m, <1>s DEF Step
<1>n. ASSUME NotPassed(g), UNCHANGED dev PROVE BranchIsOwn'
  <2>1. r.at = "verdict" /\ ~r.passed
    BY <1>n, <1>t DEF NotPassed, RunRecords
  <2>2. QED
    BY <1>n, <1>q, <2>1
<1>1. CASE WorkerTakes(g) \/ GoOn(g) \/ SendBack(g) \/ NodeRaises(g) \/ InvokeFails(g)
  BY <1>1, <1>m DEF WorkerTakes, GoOn, SendBack, NodeRaises, InvokeFails
<1>2. CASE EnterOverBudget(g) \/ Escalate(g) \/ CrashNode(g) \/ RunFailed(g) \/ Investigated(g)
  BY <1>2, <1>s DEF EnterOverBudget, Escalate, CrashNode, RunFailed, Investigated, AfterFix
<1>3. CASE Progress(g)
  <2>1. ProgressAt[run[g].at].next \notin {"none", "done", "test", "soak", "measure"}
    BY <1>3 DEF Progress, ProgressAt
  <2>2. QED
    BY <1>3, <1>s, <2>1 DEF Progress
<1>4. CASE Enter(g) \/ Propose(g)
  BY <1>4, <1>m DEF Enter, EntersAt, Propose, AfterFix
<1>5. CASE VerifyDiff(g)
  <2>1. CASE run' = [run EXCEPT ![g].at = "test", ![g].checked = DiffOf(tree, run[g].of),
                                ![g].passed = FALSE, ![g].measured = None]
    <3>1. r.at = "test" /\ ~r.passed
      BY <1>t, <2>1 DEF RunRecords
    <3>2. QED
      BY <1>5, <1>q, <3>1 DEF VerifyDiff, BranchIsOwn, dev
  <2>2. QED
    BY <1>5, <1>n, <2>1 DEF VerifyDiff
<1>6. CASE RunTests(g)
  <2>1. CASE RunAt(g, "soak")
    <3>1. r.at = "soak" /\ ~r.passed
      BY <1>6, <1>at, <2>1 DEF RunTests, BranchIsOwn
    <3>2. QED
      BY <1>6, <1>q, <3>1 DEF RunTests
  <2>2. QED
    BY <1>6, <1>n, <2>1 DEF RunTests
\* Its branch takes the place of the others', which are from then on displaced.
<1>7. CASE Deployed(g)
  <2> DEFINE over == {h \in Runs : /\ run[h].at = "measure" /\ run[h].of # run[g].of
                                   /\ ServiceOf[run[h].of] = ServiceOf[run[g].of]}
  <2>1. CASE active' = [active EXCEPT ![s] = c] /\ displaced' = (displaced \ {g}) \union over /\ RunAt(g, "measure")
    <3>1. \A d \in {ServiceOf[e] : e \in Changes} : active'[d] = IF d = s THEN c ELSE active[d]
      BY <1>t, <2>1
    <3>2. run[g].at # "measure" /\ run[g].at = "soak"
      BY <1>7 DEF Deployed
    <3>3. SUFFICES ASSUME NEW h \in Runs, h \notin displaced'
                   PROVE  /\ run'[h].at = "measure" => active'[ServiceOf[run'[h].of]] = run'[h].of
                          /\ run'[h].passed => run'[h].measured = run'[h].of
      <4>1. r.at = "measure" /\ ~r.passed
        BY <1>at, <2>1, <3>2 DEF BranchIsOwn
      <4>2. QED
        BY <1>w, <3>3, <4>1 DEF BranchIsOwn
    <3>4. CASE h # g
      <4>1. h \notin displaced /\ h \notin over /\ run'[h] = run[h]
        BY <1>w, <2>1, <3>3, <3>4
      <4>2. run[h].at = "measure" => active[ServiceOf[run[h].of]] = run[h].of
        BY <4>1 DEF BranchIsOwn
      <4>3. run[h].passed => run[h].measured = run[h].of
        BY <4>1 DEF BranchIsOwn
      <4>4. run[h].at = "measure" => active'[ServiceOf[run[h].of]] = run[h].of
        BY <1>t, <3>1, <4>1, <4>2
      <4>5. QED
        BY <4>1, <4>3, <4>4
    <3>5. CASE h = g
      <4>1. active'[s] = c /\ r.at = "measure" /\ r.passed = run[g].passed /\ r.measured = run[g].measured
        BY <1>at, <1>t, <2>1, <3>1
      <4>2. ~run[g].passed
        BY <3>2 DEF BranchIsOwn
      <4>3. QED
        BY <1>w, <3>5, <4>1, <4>2
    <3>6. QED
      BY <3>4, <3>5
  <2>2. QED
    BY <1>7, <1>n, <2>1 DEF Deployed, dev
<1>8. CASE Measure(g)
  <2>1. CASE run' = [run EXCEPT ![g].at = "verdict", ![g].passed = TRUE,
                                ![g].measured = active[ServiceOf[run[g].of]]]
    <3>1. r.at = "verdict" /\ r.measured = active[s]
      BY <1>t, <2>1 DEF RunRecords
    <3>2. g \notin displaced => active[s] = c
      BY <1>8 DEF Measure, BranchIsOwn
    <3>3. QED
      BY <1>8, <1>q, <3>1, <3>2 DEF Measure, dev
  <2>2. QED
    BY <1>8, <1>n, <2>1 DEF Measure
<1>9. CASE Critique(g) \/ Retry(g) \/ Package(g)
  <2>c. Critique(g) => r.at = "judge" /\ r.passed = run[g].passed /\ r.measured = run[g].measured
    BY <1>t DEF Critique, RunRecords
  <2>r. Retry(g) => r.at = "fix" /\ ~r.passed
    BY <1>t DEF Retry, RunRecords
  <2>p. Package(g) => r.at = "finish" /\ r.passed = run[g].passed /\ r.measured = run[g].measured
    BY <1>t DEF Package, RunRecords
  <2>1. r.at \notin {"none", "done", "test", "soak", "measure"} /\ (r.passed => r.passed = run[g].passed /\ r.measured = run[g].measured)
    BY <1>9, <2>c, <2>r, <2>p
  <2>2. QED
    BY <1>9, <1>q, <2>1 DEF BranchIsOwn, Critique, Retry, Package, dev
<1>10. CASE Release(g)
  <2>1. r.at = "done" /\ ~r.passed
    BY <1>10, <1>t DEF Release, Ended, NotStarted
  <2>2. UNCHANGED active /\ displaced' = displaced \ {g}
    BY <1>10 DEF Release
  <2>3. QED
    BY <1>w, <2>1, <2>2 DEF BranchIsOwn
<1>11. CASE RetryOverBudget(g)
  <2>1. run' = [run EXCEPT ![g].at = "fix", ![g].crashed = TRUE] \/ RunAt(g, "fix")
    BY <1>11 DEF RetryOverBudget
  <2>2. r.at = "fix" /\ r.passed = run[g].passed /\ r.measured = run[g].measured
    BY <1>at, <1>t, <2>1 DEF RunRecords
  <2>3. QED
    BY <1>11, <1>q, <2>2 DEF RetryOverBudget, BranchIsOwn, dev
<1>12. CASE Finish(g)
  BY <1>12, <1>m DEF Finish
<1>13. QED
  BY <1>1, <1>2, <1>3, <1>4, <1>5, <1>6, <1>7, <1>8, <1>9, <1>10, <1>11, <1>12 DEF Work

LEMMA BranchIsOwnInvariant == Spec => []BranchIsOwn
<1>1. Init => BranchIsOwn
  BY DEF Init, NotStarted, BranchIsOwn
<1>2. Typed /\ BranchIsOwn /\ [Next]_vars => BranchIsOwn'
  <2> SUFFICES ASSUME Typed, BranchIsOwn, [Next]_vars PROVE BranchIsOwn'
    OBVIOUS
  <2>q. ASSUME UNCHANGED <<run, active, displaced>> PROVE BranchIsOwn'
    BY <2>q DEF BranchIsOwn
  <2>1. ASSUME NEW g \in Runs, NEW c \in Changes, Start(g, c) PROVE BranchIsOwn'
    <3>1. /\ run'[g].at = "queued" /\ ~run'[g].passed
          /\ \A h \in Runs \ {g} : /\ run'[h].at = run[h].at /\ run'[h].of = run[h].of
                                   /\ run'[h].passed = run[h].passed /\ run'[h].measured = run[h].measured
      BY <2>1, StartTyped
    <3>2. UNCHANGED <<active, displaced>>
      BY <2>1 DEF Start, dev
    <3>3. QED
      BY <3>1, <3>2 DEF BranchIsOwn
  <2>2. CASE Restart
    <3>1. \A g \in Runs : run'[g].at \in {"none", "done"}
      BY <2>2, RestartTyped DEF Underway
    <3>2. \A g \in Runs : ~run'[g].passed
      BY <2>2, RestartTyped, TypesOf DEF Restart, Ended, NotStarted, Underway, BranchIsOwn
    <3>3. QED
      BY <3>1, <3>2 DEF BranchIsOwn
  <2>3. QED
    BY <2>q, <2>1, <2>2, WorkMeasuresOwn DEF Next, BudgetRunsOut, Decide, dev, vars
<1>3. QED
  BY <1>1, <1>2, TypedInvariant, PTL DEF Spec

\* verifier.py:5 "deploys the branch to dev and measures": a run that passed measured its own branch,
\* never what dev ran before its deploy had arrived, unless another change of the service was deployed
\* between its deploy and its measurement.
THEOREM OwnBranchIsMeasured == Spec => []MeasuredOwnUnlessDisplaced
<1>1. BranchIsOwn => MeasuredOwnUnlessDisplaced
  BY DEF BranchIsOwn, MeasuredOwnUnlessDisplaced
<1>2. QED
  BY <1>1, BranchIsOwnInvariant, PTL

-----------------------------------------------------------------------------
(* A run goes forward. *)

\* The node a run is in, its way to the first one counted with it, and what comes after the graph.
NodeAt ==
    [at \in Positions |->
        CASE at \in {"none", "queued", "investigate", "investigating"}                        -> "investigate"
          [] at \in {"fix", "fixing", "propose"}                                              -> "fix"
          [] at \in {"verify", "verifying", "inspect", "test", "soak", "measure", "verdict",
                     "verified"} -> "verify"
          [] at \in {"review", "reviewing", "critique", "judge", "judged"}                                -> "review"
          [] at = "retry"                                                                     -> "retry"
          [] at \in {"package", "finish"}                                                     -> "package"
          [] at = "crash"                                                                     -> "crash"
          [] at \in {"failed", "release", "done"}                                             -> "after"]

\* The most nodes a run can still be in, this one included, with the crash node as the last: fix, verify,
\* review and retry for each of the later attempts.  A fix node entered over budget has only that one
\* after it.
NodesFrom(at, later, budget) ==
    CASE NodeAt[at] = "investigate" -> 4 * later + 6
      [] NodeAt[at] = "fix"         -> IF at = "fix" /\ budget = "spent" THEN 2 ELSE 4 * later + 5
      [] NodeAt[at] = "verify"      -> 4 * later + 4
      [] NodeAt[at] = "review"      -> 4 * later + 3
      [] NodeAt[at] = "retry"       -> 4 * later + 2
      [] NodeAt[at] = "package"     -> 2
      [] NodeAt[at] = "crash"       -> 1
      [] NodeAt[at] = "after"       -> 0

NodesLeft(g) == NodesFrom(run[g].at, MaxAttempts - run[g].attempt, budgets[Key(g)])

Forward(g) ==
    /\ NodesLeft(g)' \in 0 .. NodesLeft(g)
    /\ NodeAt[run'[g].at] # NodeAt[run[g].at] => NodesLeft(g)' < NodesLeft(g)

\* A run that is alone on its change never has more nodes before it than it had, whatever anyone does,
\* and fewer with each one it enters.
AloneGoesForward == [][\A g \in Runs : run[g].alone => Forward(g)]_vars

\* The graph has at most four nodes for each attempt and two more to go through.
NodesAreBounded == \A g \in Runs : NodesLeft(g) \in 0 .. 4 * MaxAttempts + 2

\* A run no one has taken up is as it was at first.
Unstarted == \A g \in Runs : run[g].at = "none" => run[g].attempt = 1

LEMMA NodesOf ==
    ASSUME NEW at \in Positions, NEW later \in Nat, NEW budget
    PROVE  /\ at \in {"none", "queued", "investigate", "investigating"} =>
                 NodeAt[at] = "investigate" /\ NodesFrom(at, later, budget) = 4 * later + 6
           /\ at = "fix" =>
                 NodeAt[at] = "fix" /\ NodesFrom(at, later, budget) = IF budget = "spent" THEN 2 ELSE 4 * later + 5
           /\ at \in {"fixing", "propose"} =>
                 NodeAt[at] = "fix" /\ NodesFrom(at, later, budget) = 4 * later + 5
           /\ at \in {"verify", "verifying", "inspect", "test", "soak", "measure", "verdict",
                     "verified"} =>
                 NodeAt[at] = "verify" /\ NodesFrom(at, later, budget) = 4 * later + 4
           /\ at \in {"review", "reviewing", "critique", "judge", "judged"} =>
                 NodeAt[at] = "review" /\ NodesFrom(at, later, budget) = 4 * later + 3
           /\ at = "retry" => NodeAt[at] = "retry" /\ NodesFrom(at, later, budget) = 4 * later + 2
           /\ at \in {"package", "finish"} => NodeAt[at] = "package" /\ NodesFrom(at, later, budget) = 2
           /\ at = "crash" => NodeAt[at] = "crash" /\ NodesFrom(at, later, budget) = 1
           /\ at \in {"failed", "release", "done"} => NodeAt[at] = "after" /\ NodesFrom(at, later, budget) = 0
<1>1. /\ at \in {"none", "queued", "investigate", "investigating"} => NodeAt[at] = "investigate"
      /\ at \in {"fix", "fixing", "propose"} => NodeAt[at] = "fix"
      /\ at \in {"verify", "verifying", "inspect", "test", "soak", "measure", "verdict",
                     "verified"} => NodeAt[at] = "verify"
      /\ at \in {"review", "reviewing", "critique", "judge", "judged"} => NodeAt[at] = "review"
      /\ at = "retry" => NodeAt[at] = "retry"
      /\ at \in {"package", "finish"} => NodeAt[at] = "package"
      /\ at = "crash" => NodeAt[at] = "crash"
      /\ at \in {"failed", "release", "done"} => NodeAt[at] = "after"
  BY DEF NodeAt
<1>2. QED
  BY <1>1 DEF NodesFrom

\* The measure is a natural number, which every node but what comes after the graph adds to.
LEMMA NodesBounded ==
    ASSUME NEW at \in Positions, NEW later \in Nat, NEW budget
    PROVE  /\ NodesFrom(at, later, budget) \in 0 .. 4 * later + 6
           /\ at \notin {"failed", "release", "done"} => NodesFrom(at, later, budget) > 0
  BY NodesOf DEF Positions

\* A step that a run takes itself.
LEMMA WorkGoesForward ==
    ASSUME Typed, QueueIsWaiting, NEW g \in Runs, Work(g)
    PROVE  Forward(g)
<1> DEFINE at     == run[g].at
           next   == run'[g].at
           later  == MaxAttempts - run[g].attempt
           coming == MaxAttempts - run'[g].attempt
           before == budgets[Key(g)]
           now    == budgets'[Key(g)]
<1>t. /\ run[g] \in RunRecords /\ run \in [Runs -> RunRecords] /\ MaxAttempts \in Nat
      /\ at \in Positions /\ run[g].attempt \in 1 .. MaxAttempts /\ later \in Nat
  BY TypesOf, RuntimeAssumption DEF RunRecords, RuntimeAssumption
<1>p. Typed' /\ mode' = mode /\ run'[g].of = run[g].of /\ run'[g] \in RunRecords
  BY WorkTyped, RunMovesTyped DEF RunBecomes, Keeps
<1>r. next \in Positions /\ run'[g].attempt \in 1 .. MaxAttempts /\ coming \in Nat
  BY <1>t, <1>p DEF RunRecords
<1>k. NodesLeft(g) = NodesFrom(at, later, before) /\ NodesLeft(g)' = NodesFrom(next, coming, now)
  BY <1>p DEF NodesLeft, Key
\* What an edge of the graph, or a step inside a node, does to the measure.
<1>f. ASSUME \/ NodeAt[next] = NodeAt[at] /\ NodesFrom(next, coming, now) <= NodesFrom(at, later, before)
             \/ NodesFrom(next, coming, now) < NodesFrom(at, later, before)
      PROVE  Forward(g)
  BY <1>f, <1>k, <1>t, <1>r, NodesBounded DEF Forward
<1>at. ASSUME NEW x, RunAt(g, x) PROVE next = x /\ coming = later
  BY <1>at, <1>t DEF RunAt, RunRecords
<1>s. ASSUME NEW to, NEW d, NEW x, NEW y, Step(g, to, d, x, y) PROVE next \in {x, y} /\ coming = later
  BY <1>s, <1>at DEF Step
<1>np. NotPassed(g) => next = "verdict" /\ coming = later
  BY <1>t DEF NotPassed, RunRecords
<1>n. NodesFrom(next, coming, now) \in Nat /\ NodesFrom(at, later, before) \in Nat
  BY <1>t, <1>r, NodesBounded
\* The run leaves the nodes, for good or for the crash node.
<1>x. ASSUME coming = later, next \in {"crash", "release", "failed"}, at \notin {"crash", "failed", "release", "done"}
      PROVE  Forward(g)
  <2>1. NodesFrom(next, coming, now) <= 1
    BY <1>x, <1>r, NodesOf
  <2>2. NodesFrom(at, later, before) >= 2
    BY <1>x, <1>t, NodesOf DEF Positions
  <2>3. QED
    BY <1>n, <1>f, <2>1, <2>2
<1> HIDE DEF at, next, later, coming, before, now
<1>1. CASE WorkerTakes(g) \/ InvokeFails(g)
  <2>1. CASE WorkerTakes(g)
    <3>1. at = "queued" /\ next = "investigate" /\ coming = later
      BY <1>at, <2>1, TypesOf, HeadTailProperties DEF WorkerTakes, QueueIsWaiting, at
    <3>2. QED
      BY <1>t, <1>r, <1>f, <3>1, NodesOf
  <2>2. CASE InvokeFails(g)
    <3>1. at \in {"investigate", "crash"} /\ next = "failed" /\ coming = later
      BY <1>at, <2>2 DEF InvokeFails, at
    <3>2. QED
      BY <1>t, <1>r, <1>f, <3>1, NodesOf
  <2>3. QED
    BY <1>1, <2>1, <2>2
<1>2. CASE Enter(g)
  <2>1. /\ coming = later /\ before # "spent"
        /\ \/ at = "investigate" /\ next = "investigating"
           \/ at = "fix" /\ next = "fixing"
           \/ at = "verify" /\ next = "verifying"
           \/ at = "review" /\ next = "reviewing"
    BY <1>2, <1>at DEF Enter, EntersAt, OverBudget, at, before
  <2>2. QED
    BY <1>t, <1>r, <1>f, <2>1, NodesOf
<1>3. CASE EnterOverBudget(g)
  <2>1. coming = later /\ next \in {"crash", "release"} /\ at \in {"investigate", "fix", "verify", "review"}
    BY <1>3, <1>s DEF EnterOverBudget, EntersAt, AfterFix, at
  <2>2. QED
    BY <1>x, <2>1
<1>4. CASE Investigated(g) \/ Escalate(g)
  <2>1. CASE Investigated(g)
    <3>1. coming = later /\ at = "investigating" /\ next \in {"fix", "crash"}
      BY <1>s, <2>1 DEF Investigated, at
    <3>2. QED
      BY <1>t, <1>r, <1>f, <3>1, NodesOf
  <2>2. CASE Escalate(g)
    <3>1. coming = later /\ at \in {"investigating", "propose", "verified", "judged"} /\ next \in {"release", "crash"}
      BY <1>s, <2>2 DEF Escalate, AfterFix, at
    <3>2. QED
      BY <1>x, <3>1
  <2>3. QED
    BY <1>4, <2>1, <2>2
<1>5. CASE Progress(g)
  <2>1. /\ coming = later
        /\ next \in {ProgressAt[at].next, "crash"}
        /\ at \in DOMAIN ProgressAt
    BY <1>5, <1>s DEF Progress, at
  <2>2. \/ next = "crash" /\ at \notin {"crash", "failed", "release", "done"}
        \/ at = "fixing" /\ next = "propose"
        \/ at = "verifying" /\ next = "inspect"
        \/ at = "verdict" /\ next = "verified"
        \/ at = "reviewing" /\ next = "critique"
        \/ at = "judge" /\ next = "judged"
    BY <2>1 DEF ProgressAt
  <2>3. QED
    BY <1>t, <1>r, <1>f, <1>x, <2>1, <2>2, NodesOf
<1>6. CASE Propose(g)
  <2>1. coming = later /\ at = "propose" /\ next \in {"crash", "verify"}
    BY <1>6, <1>at DEF Propose, AfterFix, at
  <2>2. QED
    BY <1>t, <1>r, <1>f, <2>1, NodesOf
<1>7. CASE VerifyDiff(g) \/ RunTests(g) \/ Deployed(g) \/ Measure(g)
  <2>1. /\ coming = later /\ at \in {"inspect", "test", "soak", "measure"}
        /\ next \in {"test", "soak", "measure", "verdict"}
    BY <1>7, <1>t, <1>at, <1>np
    DEF VerifyDiff, RunTests, Deployed, Measure, RunRecords, at, next, coming, later
  <2>2. QED
    BY <1>t, <1>r, <1>f, <2>1, NodesOf
<1>8. CASE GoOn(g) \/ SendBack(g)
  <2>1. /\ coming = later /\ at \in {"verified", "judged"} /\ next \in {"review", "package", "retry"}
        /\ next = "review" => at = "verified"
    BY <1>8, <1>at DEF GoOn, SendBack, at
  <2>2. CASE next \in {"review", "retry"}
    BY <1>t, <1>r, <1>f, <2>1, <2>2, NodesOf
  <2>3. CASE next = "package"
    BY <1>t, <1>r, <1>f, <2>1, <2>3, NodesOf
  <2>4. QED
    BY <2>1, <2>2, <2>3
\* A retry is paid for with the attempt.
<1>9. CASE Retry(g)
  <2>1. at = "retry" /\ next = "fix" /\ run'[g].attempt = run[g].attempt + 1
    BY <1>9, <1>t DEF Retry, RunRecords, at, next
  <2>2. later = coming + 1
    BY <1>t, <1>r, <2>1 DEF later, coming
  <2>3. NodesFrom(next, coming, now) <= 4 * coming + 5 /\ NodesFrom(at, later, before) = 4 * later + 2
    BY <1>t, <1>r, <2>1, NodesOf
  <2>4. QED
    BY <1>t, <1>r, <1>n, <1>f, <2>2, <2>3
\* Over budget it is not, but the fix node it leads to is then the last but the crash node.
<1>10. CASE RetryOverBudget(g)
  <2>1. at = "retry" /\ next = "fix" /\ coming = later /\ now = "spent" /\ run[g].attempt < MaxAttempts
    <3>1. run' = [run EXCEPT ![g].at = "fix", ![g].crashed = TRUE] \/ RunAt(g, "fix")
      BY <1>10 DEF RetryOverBudget
    <3>2. next = "fix" /\ coming = later
      BY <1>t, <1>at, <3>1 DEF RunRecords, next, coming, later
    <3>3. QED
      BY <1>10, <3>2 DEF RetryOverBudget, OverBudget, runtime, at, now, Typed, RetriesBounded
  <2>2. later >= 1
    BY <1>t, <2>1 DEF later
  <2>3. NodesFrom(next, coming, now) = 2 /\ NodesFrom(at, later, before) = 4 * later + 2
    BY <1>t, <1>r, <2>1, NodesOf
  <2>4. QED
    BY <1>t, <1>n, <1>f, <2>2, <2>3
<1>11. CASE Package(g)
  <2>1. at = "package" /\ next = "finish" /\ coming = later
    BY <1>11, <1>t DEF Package, RunRecords, at, next, coming, later
  <2>2. QED
    BY <1>t, <1>r, <1>f, <2>1, NodesOf
<1>12. CASE Finish(g) \/ NodeRaises(g)
  <2>1. CASE Finish(g)
    <3>1. coming = later /\ at = "finish" /\ next \in {"release", "crash"}
      BY <1>at, <2>1 DEF Finish, at
    <3>2. QED
      BY <1>x, <3>1
  <2>2. CASE NodeRaises(g)
    <3>1. coming = later /\ next = "crash" /\ at \notin {"none", "done", "crash", "failed", "release"}
      BY <1>at, <2>2 DEF NodeRaises, Executing, Underway, at
    <3>2. QED
      BY <1>x, <3>1
  <2>3. QED
    BY <1>12, <2>1, <2>2
<1>13. CASE CrashNode(g) \/ RunFailed(g)
  <2>1. coming = later /\ at \in {"crash", "failed"} /\ next = "release"
    BY <1>13, <1>s DEF CrashNode, RunFailed, at
  <2>2. QED
    BY <1>t, <1>r, <1>f, <2>1, NodesOf
<1>14. CASE Release(g)
  <2>1. at = "release" /\ next = "done"
    BY <1>14, <1>t DEF Release, Ended, NotStarted, at, next
  <2>2. QED
    BY <1>t, <1>r, <1>f, <2>1, NodesOf
<1>15. CASE Critique(g)
  <2>1. at = "critique" /\ next = "judge" /\ coming = later
    BY <1>15, <1>t DEF Critique, RunRecords, at, next, coming, later
  <2>2. QED
    BY <1>t, <1>r, <1>f, <2>1, NodesOf
<1>16. QED
  BY <1>1, <1>2, <1>3, <1>4, <1>5, <1>6, <1>7, <1>8, <1>9, <1>10, <1>11, <1>12, <1>13, <1>14, <1>15 DEF Work

LEMMA AttemptsInBounds ==
    ASSUME Typed, NEW g \in Runs
    PROVE  /\ run[g].at \in Positions /\ run[g].attempt \in 1 .. MaxAttempts
           /\ MaxAttempts \in Nat \ {0} /\ MaxAttempts - run[g].attempt \in Nat
<1>1. run[g] \in RunRecords /\ MaxAttempts \in Nat \ {0}
  BY TypesOf, RuntimeAssumption DEF RuntimeAssumption
<1>2. run[g].at \in Positions /\ run[g].attempt \in 1 .. MaxAttempts
  BY <1>1 DEF RunRecords
<1>3. QED
  BY <1>1, <1>2

\* Other runs leave the budget of a run alone, if it is alone on its change.
LEMMA OthersLeaveItForward ==
    ASSUME Typed, Registered, NEW g \in Runs, run[g].alone, NEW h \in Runs \ {g}, Work(h)
    PROVE  Forward(g)
<1>1. /\ run'[g] = run[g] /\ run[g].at \in Positions /\ MaxAttempts - run[g].attempt \in Nat
      /\ mode' = mode /\ Underway(h) /\ Key(g) \in Keys
  <2>1. PICK r : RunBecomes(h, r)
    BY WorkTyped
  <2>2. run'[g] = run[g] /\ Key(g) \in Keys
    BY <2>1, RunMovesTyped, TypesOf
  <2>3. mode' = mode /\ Underway(h)
    BY WorkTyped, WorkIsUnderway DEF Registered
  <2>4. QED
    BY <2>2, <2>3, AttemptsInBounds
<1>2. Key(g)' = Key(g)
  BY <1>1 DEF Key
<1>3. CASE Underway(g)
  <2>1. Key(h) # Key(g)
    BY <1>1, <1>3, TypesOf DEF Key, Registered, AloneIsAlone
  <2>2. budgets'[Key(g)] = budgets[Key(g)]
    BY <1>1, <2>1, RuntimeMoves
  <2>3. NodesLeft(g)' = NodesLeft(g)
    BY <1>1, <1>2, <2>2 DEF NodesLeft
  <2>4. NodesLeft(g) \in Nat
    BY <1>1, NodesBounded DEF NodesLeft
  <2>5. QED
    BY <1>1, <2>3, <2>4 DEF Forward
<1>4. CASE ~Underway(g)
  <2>1. run[g].at \in {"none", "done"}
    BY <1>4 DEF Underway
  <2>2. NodesLeft(g)' = NodesLeft(g) /\ NodesLeft(g) \in Nat
    BY <1>1, <1>2, <2>1, NodesOf DEF NodesLeft
  <2>3. QED
    BY <1>1, <2>2 DEF Forward
<1>5. QED
  BY <1>3, <1>4

LEMMA StartGoesForward ==
    ASSUME Typed, Unstarted, NEW h \in Runs, NEW c \in Changes, Start(h, c), NEW g \in Runs
    PROVE  Forward(g)
<1>1. /\ run[g] \in RunRecords /\ run \in [Runs -> RunRecords] /\ MaxAttempts \in Nat
      /\ run[g].at \in Positions /\ MaxAttempts - run[g].attempt \in Nat
      /\ UNCHANGED <<mode, budgets>>
  BY TypesOf, AttemptsInBounds DEF Start, runtime
<1>2. CASE g = h
  <2>1. run[g].at = "none" /\ run'[g].at = "queued" /\ run'[g].attempt = 1 /\ run[g].attempt = 1
    BY <1>1, <1>2 DEF Start, NotStarted, Unstarted
  <2>2. "queued" \in Positions
    BY DEF Positions
  <2>3. NodesLeft(g) = 4 * (MaxAttempts - 1) + 6 /\ NodesLeft(g)' = 4 * (MaxAttempts - 1) + 6
    BY <1>1, <2>1, <2>2, NodesOf DEF NodesLeft
  <2>4. NodeAt[run'[g].at] = NodeAt[run[g].at]
    BY <1>1, <2>1, <2>2, NodesOf
  <2>5. MaxAttempts - 1 \in Nat
    BY <1>1, <2>1
  <2>6. QED
    BY <2>3, <2>4, <2>5 DEF Forward
<1>3. CASE g # h
  <2>1. run'[g].at = run[g].at /\ run'[g].of = run[g].of /\ run'[g].attempt = run[g].attempt
    BY <1>1, <1>3 DEF Start, RunRecords
  <2>2. NodesLeft(g)' = NodesLeft(g)
    BY <1>1, <2>1 DEF NodesLeft, Key
  <2>3. NodesLeft(g) \in Nat
    BY <1>1, NodesBounded DEF NodesLeft
  <2>4. QED
    BY <2>1, <2>2, <2>3 DEF Forward
<1>4. QED
  BY <1>2, <1>3

LEMMA RestartGoesForward ==
    ASSUME Typed, Restart, NEW g \in Runs
    PROVE  Forward(g)
<1>1. run[g].at \in Positions /\ MaxAttempts - run[g].attempt \in Nat /\ MaxAttempts \in Nat \ {0}
  BY AttemptsInBounds
<1>2. CASE Underway(g)
  <2>1. run'[g].at = "done" /\ run'[g].attempt = 1
    BY <1>2 DEF Restart, Ended, NotStarted
  <2>2. "done" \in Positions /\ MaxAttempts - 1 \in Nat
    BY <1>1 DEF Positions
  <2>3. NodesLeft(g)' = 0 /\ NodeAt[run'[g].at] = "after"
    BY <2>1, <2>2, NodesOf DEF NodesLeft
  <2>4. NodesLeft(g) \in Nat /\ (NodeAt[run[g].at] # "after" => NodesLeft(g) > 0)
    BY <1>1, NodesBounded, NodesOf DEF NodesLeft
  <2>5. QED
    BY <2>3, <2>4 DEF Forward
<1>3. CASE ~Underway(g)
  <2>1. run'[g] = run[g] /\ run[g].at \in {"none", "done"}
    BY <1>3 DEF Restart, Underway
  <2>2. NodesLeft(g)' = NodesLeft(g) /\ NodesLeft(g) \in Nat
    BY <1>1, <2>1, NodesOf DEF NodesLeft
  <2>3. QED
    BY <2>1, <2>2 DEF Forward
<1>4. QED
  BY <1>2, <1>3

LEMMA BudgetGoesForward ==
    ASSUME Typed, NEW k \in Keys, BudgetRunsOut(k), NEW g \in Runs
    PROVE  Forward(g)
<1>1. /\ run[g].at \in Positions /\ MaxAttempts - run[g].attempt \in Nat /\ Key(g) \in Keys
      /\ budgets \in [Keys -> {"none", "open", "spent"}]
  BY TypesOf, AttemptsInBounds
<1>2. run' = run /\ Key(g)' = Key(g) /\ budgets'[Key(g)] \in {budgets[Key(g)], "spent"}
  BY <1>1 DEF BudgetRunsOut, Key
<1> DEFINE later == MaxAttempts - run[g].attempt
<1>3. later \in Nat /\ NodesLeft(g) = NodesFrom(run[g].at, later, budgets[Key(g)])
      /\ NodesLeft(g)' = NodesFrom(run[g].at, later, budgets'[Key(g)])
  BY <1>1, <1>2 DEF NodesLeft
<1> HIDE DEF later
<1>4. CASE run[g].at = "fix"
  BY <1>1, <1>2, <1>3, <1>4, NodesOf DEF Forward
<1>5. CASE run[g].at # "fix"
  <2>1. NodesLeft(g)' = NodesLeft(g) /\ NodesLeft(g) \in Nat
    BY <1>1, <1>3, <1>5, NodesOf DEF Positions
  <2>2. QED
    BY <1>2, <2>1 DEF Forward
<1>6. QED
  BY <1>4, <1>5

LEMMA UnstartedInvariant == Spec => []Unstarted
<1>1. Init => Unstarted
  BY DEF Init, Unstarted, NotStarted
<1>2. Typed /\ Registered /\ Unstarted /\ [Next]_vars => Unstarted'
  <2> SUFFICES ASSUME Typed, Registered, Unstarted, [Next]_vars PROVE Unstarted'
    OBVIOUS
  <2>q. ASSUME UNCHANGED run PROVE Unstarted'
    BY <2>q DEF Unstarted
  <2>1. ASSUME NEW g \in Runs, Work(g) PROVE Unstarted'
    <3>1. run'[g].at # "none" /\ \A h \in Runs \ {g} : run'[h] = run[h]
      <4>1. PICK r : RunBecomes(g, r)
        BY <2>1, WorkTyped
      <4>2. QED
        BY <2>1, <4>1, RunMovesTyped, RuntimeMoves
    <3>2. QED
      BY <3>1 DEF Unstarted
  <2>2. ASSUME NEW g \in Runs, NEW c \in Changes, Start(g, c) PROVE Unstarted'
    <3>1. /\ run'[g].at = "queued"
          /\ \A h \in Runs \ {g} : run'[h].at = run[h].at /\ run'[h].attempt = run[h].attempt
      <4>1. run \in [Runs -> RunRecords]
        BY TypesOf
      <4>2. QED
        BY <2>2, <4>1 DEF Start, NotStarted, RunRecords
    <3>2. QED
      BY <3>1 DEF Unstarted
  <2>3. CASE Restart
    BY <2>3 DEF Restart, Ended, NotStarted, Unstarted
  <2>4. QED
    BY <2>q, <2>1, <2>2, <2>3 DEF Next, BudgetRunsOut, Decide, vars
<1>3. QED
  BY <1>1, <1>2, TypedInvariant, RegisteredInvariant, PTL DEF Spec

\* graph.py's edges and config.py's bound on attempts: a run that is alone on its change has at most
\* four nodes for each attempt and two more before it, and fewer with each node it enters, whatever raises,
\* runs out or is sent back; so five attempts stay below LangGraph's own limit of 25.
THEOREM RunsGoForward == Spec => []NodesAreBounded /\ AloneGoesForward
<1>1. Typed => NodesAreBounded
  <2> SUFFICES ASSUME Typed, NEW g \in Runs PROVE NodesLeft(g) \in 0 .. 4 * MaxAttempts + 2
    BY DEF NodesAreBounded
  <2>1. run[g].at \in Positions /\ run[g].attempt \in 1 .. MaxAttempts /\ MaxAttempts \in Nat
    BY AttemptsInBounds
  <2>2. NodesLeft(g) \in 0 .. 4 * (MaxAttempts - run[g].attempt) + 6
    BY <2>1, NodesBounded DEF NodesLeft
  <2>3. QED
    BY <2>1, <2>2
<1>2. Typed /\ Registered /\ Unstarted /\ [Next]_vars => [\A g \in Runs : run[g].alone => Forward(g)]_vars
  <2> SUFFICES ASSUME Typed, Registered, Unstarted, Next, NEW g \in Runs, run[g].alone PROVE Forward(g)
    OBVIOUS
  <2>1. CASE \E h \in Runs : Work(h)
    BY <2>1, WorkGoesForward, OthersLeaveItForward DEF Registered
  <2>2. CASE \E c \in Changes, d \in {"approve", "reject"}, by \in Approvers : Decide(c, d, by)
    <3>1. UNCHANGED <<run, mode, budgets>>
      BY <2>2 DEF Decide, runtime
    <3>2. NodesLeft(g)' = NodesLeft(g)
      BY <3>1 DEF NodesLeft, Key
    <3>3. NodesLeft(g) \in Nat
      <4>1. NodesLeft(g) \in 0 .. 4 * MaxAttempts + 2 /\ MaxAttempts \in Nat
        BY <1>1, RuntimeAssumption DEF NodesAreBounded, RuntimeAssumption
      <4>2. QED
        BY <4>1
    <3>4. QED
      BY <3>1, <3>2, <3>3 DEF Forward
  <2>3. QED
    BY <2>1, <2>2, StartGoesForward, BudgetGoesForward, RestartGoesForward DEF Next
<1>3. QED
  BY <1>1, <1>2, TypedInvariant, RegisteredInvariant, UnstartedInvariant, PTL DEF Spec, AloneGoesForward

=============================================================================
