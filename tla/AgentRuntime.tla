---------------------------- MODULE AgentRuntime ----------------------------
(***************************************************************************)
(* Agent runs as the process executes them: the pool of the AgentRunner    *)
(* (src/app/agents/runner.py), the incident graph node by node             *)
(* (agents/graph.py), and what its runs share underneath: the sandboxes    *)
(* and budgets the runtime keeps by change, the git worktree of a branch,  *)
(* and the dev environment that one deploy per service is active in.       *)
(* ChangeControl has the same runs as the store sees them; here a node is  *)
(* cut wherever it touches something another run can touch.                *)
(*                                                                         *)
(* In shadow mode (agents/shadow.py) the same graph writes to the shadow   *)
(* record of the change, on a branch and with registries of its own.       *)
(***************************************************************************)
EXTENDS ChangeRecord, Integers, FiniteSets, Sequences

CONSTANTS
    Changes,        \* the changes under control
    Runs,           \* agent runs started over a behaviour (bound); a run is started once
    Workers,        \* AGENT_RUN_WORKERS: the size of the pool
    MaxAttempts,    \* AGENT_MAX_FIX_ATTEMPTS
    MaxRestarts,    \* bound: restarts of the process
    Modes,          \* AGENT_RUN_MODE of a process: "real" or "shadow"
    ServiceOf,      \* the service of each change's alert
    Opening,        \* what the pipeline knew of the changes
    Diagnoses,      \* what an investigation may report, of "sound" and "weak"
    TestsWrite,     \* whether a run of the project's tests may leave something in the worktree
    None

ASSUME RuntimeAssumption ==
    /\ Changes # {} /\ Workers \in Nat \ {0} /\ MaxAttempts \in Nat \ {0} /\ MaxRestarts \in Nat
    /\ Modes \subseteq {"real", "shadow"} /\ Opening \in Openings /\ Diagnoses \subseteq {"sound", "weak"}
    /\ TestsWrite \subseteq BOOLEAN /\ TestsWrite # {}
    /\ None \notin Changes \union Runs
    /\ DOMAIN ServiceOf = Changes

VARIABLES
    changes,    \* the store: the record of every change
    shadow,     \* the store: status of each change's shadow record
    shown,      \* the store: the fix offered to a person, and what is known of its run
    mode,       \* AGENT_RUN_MODE of this process
    queue,      \* submitted runs no worker has taken yet
    run,        \* every run: where it is and what it holds
    sandboxes,  \* keys the runtime has a sandbox for
    budgets,    \* the budget the runtime has for each key
    tree,       \* the edits in the worktree of each change's branch
    active,     \* dev environment: the change whose branch is live, per service
    displaced,  \* history: runs whose branch another change's took the place of before they measured
    restarts    \* restarts so far (bound)

store == <<changes, shadow, shown>>
runtime == <<sandboxes, budgets>>
dev == <<active, displaced>>
vars == <<changes, shadow, shown, mode, queue, run, sandboxes, budgets, tree, active, displaced, restarts>>

\* An edit is known by the run and the attempt that made it: the Fixer's own, or what the project's
\* tests left behind when the Verifier ran them.
Edits == [by : Runs, attempt : 1 .. MaxAttempts, from : {"fixer", "tests"}]
Edit(g, from) == [by |-> g, attempt |-> run[g].attempt, from |-> from]

\* A real run shares the runtime's registries by change id; a shadow run has its own runtime.
Keys == Changes \union Runs
Key(g) == IF mode = "shadow" THEN g ELSE run[g].of

Positions ==
    {"none", "queued", "investigate", "investigating", "fix", "fixing", "propose", "verify",
     "verifying", "inspect", "test", "soak", "measure", "verdict", "verified", "review", "reviewing",
     "critique", "judge", "judged", "retry", "package", "finish", "crash", "failed", "release", "done"}

Underway(g) == run[g].at \notin {"none", "done"}
Executing(g) == Underway(g) /\ run[g].at # "queued"

NotStarted == [at |-> "none", of |-> CHOOSE c \in Changes : TRUE, attempt |-> 1, crashed |-> FALSE,
               checked |-> {}, reviewed |-> {}, diff |-> {}, measured |-> None, passed |-> FALSE, alone |-> TRUE]

\* The diff stored with an offered fix; of its run, the diffs the Verifier and the Critic read, the
\* edit it made last, and whether it was alone.
Offers == [diff : SUBSET Edits, checked : SUBSET Edits, reviewed : SUBSET Edits, last : SUBSET Edits,
           alone : BOOLEAN]
NoOffer == [diff |-> {}, checked |-> {}, reviewed |-> {}, last |-> {}, alone |-> TRUE]

Ended(g) == [NotStarted EXCEPT !.at = "done", !.of = run[g].of]

\* The shape of the state.
TypeOK ==
    /\ changes \in [Changes -> Records]
    /\ shadow \in [Changes -> {"none", "running", "ready", "escalated"}]
    /\ shown \in [Changes -> Offers]
    /\ mode \in Modes
    /\ queue \in Seq(Runs)
    /\ run \in [Runs -> [at : Positions, of : Changes, attempt : 1 .. MaxAttempts, crashed : BOOLEAN,
                         checked : SUBSET Edits, reviewed : SUBSET Edits, diff : SUBSET Edits,
                         measured : Changes \union {None}, passed : BOOLEAN, alone : BOOLEAN]]
    /\ sandboxes \subseteq Keys
    /\ budgets \in [Keys -> {"none", "open", "spent"}]
    /\ tree \in [Changes -> SUBSET Edits]
    /\ active \in [{ServiceOf[c] : c \in Changes} -> Changes \union {None}]
    /\ displaced \subseteq Runs
    /\ restarts \in 0 .. MaxRestarts

Init ==
    /\ changes = [c \in Changes |-> CreateChange(Opening)]
    /\ shadow = [c \in Changes |-> "none"]
    /\ shown = [c \in Changes |-> NoOffer]
    /\ mode \in Modes
    /\ queue = <<>>
    /\ run = [g \in Runs |-> NotStarted]
    /\ sandboxes = {}
    /\ budgets = [k \in Keys |-> "none"]
    /\ tree = [c \in Changes |-> {}]
    /\ active = [s \in {ServiceOf[c] : c \in Changes} |-> None]
    /\ displaced = {}
    /\ restarts = 0

-----------------------------------------------------------------------------
(* The store as the graph sees it: the change store, or the ShadowRecorder over it. *)
CanBeginShadowRun(c) ==
    /\ shadow[c] # "running"
    /\ changes[c].agentRun # "running"
    /\ changes[c].status = "pending_approval"
    /\ changes[c].alert

Accepts(g, to) ==
    IF mode = "shadow" THEN shadow[run[g].of] = "running"
    ELSE CanRecordAgentStep(changes[run[g].of], to)

\* A shadow step drops the diagnosis and leaves the change alone.
Record(g, to, diagnosis) ==
    LET c == run[g].of IN
    IF mode = "shadow"
    THEN /\ shadow' = [shadow EXCEPT ![c] = IF to = "escalated" THEN "escalated" ELSE @]
         /\ UNCHANGED <<changes, shown>>
    ELSE /\ changes' = [changes EXCEPT ![c] = RecordAgentStep(@, to, diagnosis)]
         /\ UNCHANGED <<shadow, shown>>

RunAt(g, at) == run' = [run EXCEPT ![g].at = at]

\* One record_agent_step call of run g; a refused one raises.
Step(g, to, diagnosis, next, onError) ==
    IF Accepts(g, to) THEN Record(g, to, diagnosis) /\ RunAt(g, next)
    ELSE RunAt(g, onError) /\ UNCHANGED store

Diagnosis(g) == changes[run[g].of].diagnosis

\* How a node that raised goes on, and how the fix node goes on when `crashed` is already set.
AfterFix(g, next) == IF run[g].crashed THEN "crash" ELSE next

-----------------------------------------------------------------------------
(* The runner. *)
Start(g, c) ==
    /\ run[g].at = "none"
    /\ IF mode = "shadow"
       THEN /\ CanBeginShadowRun(c)
            /\ shadow' = [shadow EXCEPT ![c] = "running"]
            /\ UNCHANGED <<changes, shown>>
       ELSE /\ CanBeginAgentRun(changes[c])
            /\ changes' = [changes EXCEPT ![c] = BeginAgentRun(@)]
            /\ UNCHANGED <<shadow, shown>>
    /\ LET others == {h \in Runs : Underway(h) /\ run[h].of = c} IN
       run' = [h \in Runs |-> IF h = g THEN [NotStarted EXCEPT !.at = "queued", !.of = c, !.alone = (others = {})]
                              ELSE IF h \in others THEN [run[h] EXCEPT !.alone = FALSE]
                              ELSE run[h]]
    /\ queue' = Append(queue, g)
    /\ UNCHANGED <<mode, runtime, tree, dev, restarts>>

WorkerTakes(g) ==
    /\ queue # <<>> /\ Head(queue) = g
    /\ Cardinality({h \in Runs : Executing(h)}) < Workers
    /\ queue' = Tail(queue)
    /\ RunAt(g, "investigate")
    /\ UNCHANGED <<store, mode, runtime, tree, dev, restarts>>

\* What escapes the graph: an alert the context cannot be built from, a crash node that raises.
InvokeFails(g) ==
    /\ run[g].at \in {"investigate", "crash"}
    /\ RunAt(g, "failed")
    /\ UNCHANGED <<store, mode, queue, runtime, tree, dev, restarts>>

\* Variant for mutation testing: the release is not in a `finally`, and an escaping exception skips it.
RunFailedUnreleased(g) ==
    /\ run[g].at = "failed"
    /\ Step(g, "escalated", Diagnosis(g), "done", "done")
    /\ UNCHANGED <<mode, queue, runtime, tree, dev, restarts>>

\* The runner's own last resort: escalate, and let a refusal pass.
RunFailed(g) ==
    /\ run[g].at = "failed"
    /\ Step(g, "escalated", Diagnosis(g), "release", "release")
    /\ UNCHANGED <<mode, queue, runtime, tree, dev, restarts>>

\* `finally`: whatever the runtime keeps under the key goes, whichever run put it there.
Release(g) ==
    /\ run[g].at = "release"
    /\ sandboxes' = sandboxes \ {Key(g)}
    /\ budgets' = [budgets EXCEPT ![Key(g)] = "none"]
    /\ run' = [run EXCEPT ![g] = Ended(g)]
    /\ displaced' = displaced \ {g}
    /\ UNCHANGED <<store, mode, queue, tree, active, restarts>>

-----------------------------------------------------------------------------
(* Entering a node: the budget is checked, and the node's sandbox is looked up. *)
EntersAt == [investigate |-> "investigating", fix |-> "fixing", verify |-> "verifying", review |-> "reviewing"]

OverBudget(g) == budgets[Key(g)] = "spent"

\* Opening a sandbox removes what is left of the worktree and makes the branch anew.
OpenWorktree(c) == [tree EXCEPT ![c] = {}]

\* What a sandbox shows as changed, whoever changed it.
DiffOf(trees, c) == trees[c]

\* Variant for mutation testing: an attempt works on what the one before it left.
TreeWithoutReset(g) ==
    IF run[g].at # "investigate" /\ Key(g) \notin sandboxes
    THEN OpenWorktree(run[g].of) ELSE tree

\* What the sandbox lookup leaves in the worktree: it opens one that is not there, and the fix
\* node resets it for every attempt but the first.
TreeOnEntry(g) ==
    IF run[g].at = "investigate" THEN tree
    ELSE IF Key(g) \notin sandboxes THEN OpenWorktree(run[g].of)
    ELSE IF run[g].at = "fix" /\ run[g].attempt > 1 THEN [tree EXCEPT ![run[g].of] = {}]
    ELSE tree

Enter(g) ==
    /\ run[g].at \in DOMAIN EntersAt
    /\ ~OverBudget(g)
    /\ budgets' = [budgets EXCEPT ![Key(g)] = "open"]
    /\ sandboxes' = IF run[g].at = "investigate" THEN sandboxes ELSE sandboxes \union {Key(g)}
    /\ tree' = TreeOnEntry(g)
    /\ RunAt(g, EntersAt[run[g].at])
    /\ UNCHANGED <<store, mode, queue, dev, restarts>>

EnterOverBudget(g) ==
    /\ run[g].at \in DOMAIN EntersAt
    /\ OverBudget(g)
    /\ Step(g, "escalated", Diagnosis(g), AfterFix(g, "release"), "crash")
    /\ UNCHANGED <<mode, queue, runtime, tree, dev, restarts>>

\* Time, tool calls or model calls of a run are used up; nothing gives them back.
BudgetRunsOut(k) ==
    /\ budgets[k] = "open"
    /\ budgets' = [budgets EXCEPT ![k] = "spent"]
    /\ UNCHANGED <<store, mode, queue, run, sandboxes, tree, dev, restarts>>

-----------------------------------------------------------------------------
(* The nodes. *)
Investigated(g) ==
    /\ run[g].at = "investigating"
    /\ \E d \in Diagnoses : Step(g, "hypothesis_ready", d, "fix", "crash")
    /\ UNCHANGED <<mode, queue, runtime, tree, dev, restarts>>

ProgressAt ==
    [fixing    |-> [to |-> "fixing",    next |-> "propose"],
     verifying |-> [to |-> "verifying", next |-> "inspect"],
     verdict   |-> [to |-> "verifying", next |-> "verified"],
     reviewing |-> [to |-> "reviewing", next |-> "critique"],
     judge     |-> [to |-> "reviewing", next |-> "judged"]]

Progress(g) ==
    /\ run[g].at \in DOMAIN ProgressAt
    /\ Step(g, ProgressAt[run[g].at].to, Diagnosis(g), ProgressAt[run[g].at].next, "crash")
    /\ UNCHANGED <<mode, queue, runtime, tree, dev, restarts>>

\* The Fixer edits the files of the worktree and proposes them as its fix.
Propose(g) ==
    /\ run[g].at = "propose"
    /\ tree' = [tree EXCEPT ![run[g].of] = @ \union {Edit(g, "fixer")}]
    /\ RunAt(g, AfterFix(g, "verify"))
    /\ UNCHANGED <<store, mode, queue, runtime, dev, restarts>>

NotPassed(g) == run' = [run EXCEPT ![g].at = "verdict", ![g].passed = FALSE]

\* The Verifier begins a report of its own: it reads the diff and checks it before anything is run
\* or deployed.
VerifyDiff(g) ==
    /\ run[g].at = "inspect"
    /\ \/ /\ DiffOf(tree, run[g].of) # {}
          /\ run' = [run EXCEPT ![g].at = "test", ![g].checked = DiffOf(tree, run[g].of),
                                ![g].passed = FALSE, ![g].measured = None]
       \/ NotPassed(g)
    /\ UNCHANGED <<store, mode, queue, runtime, tree, dev, restarts>>

\* The project's tests run in the worktree; what they write there and git does not ignore, stays.
RunTests(g) ==
    /\ run[g].at = "test"
    /\ \E writes \in TestsWrite :
        tree' = [tree EXCEPT ![run[g].of] = @ \union IF writes THEN {Edit(g, "tests")} ELSE {}]
    /\ RunAt(g, "soak") \/ NotPassed(g)
    /\ UNCHANGED <<store, mode, queue, runtime, dev, restarts>>

\* Variant for mutation testing: a deploy that is still on its way counts as done.
DeployUnconfirmed(g) ==
    /\ run[g].at = "soak"
    /\ RunAt(g, "measure")
    /\ UNCHANGED <<store, mode, queue, runtime, tree, dev, restarts>>

\* The status poll that reports SUCCESS makes the branch the active one of the service.
Deployed(g) ==
    /\ run[g].at = "soak"
    /\ \/ /\ active' = [active EXCEPT ![ServiceOf[run[g].of]] = run[g].of]
          /\ displaced' = (displaced \ {g}) \union
                {h \in Runs : /\ run[h].at = "measure" /\ run[h].of # run[g].of
                              /\ ServiceOf[run[h].of] = ServiceOf[run[g].of]}
          /\ RunAt(g, "measure")
       \/ NotPassed(g) /\ UNCHANGED dev
    /\ UNCHANGED <<store, mode, queue, runtime, tree, restarts>>

\* The metrics of dev answer for whatever is active there now.
Measure(g) ==
    /\ run[g].at = "measure"
    /\ \/ run' = [run EXCEPT ![g].at = "verdict", ![g].passed = TRUE,
                             ![g].measured = active[ServiceOf[run[g].of]]]
       \/ NotPassed(g)
    /\ UNCHANGED <<store, mode, queue, runtime, tree, dev, restarts>>

GoOn(g) ==
    /\ \/ run[g].at = "verified" /\ run[g].passed /\ RunAt(g, "review")
       \/ run[g].at = "judged" /\ RunAt(g, "package")
    /\ UNCHANGED <<store, mode, queue, runtime, tree, dev, restarts>>

\* The Critic reads the diff anew.
Critique(g) ==
    /\ run[g].at = "critique"
    /\ run' = [run EXCEPT ![g].at = "judge", ![g].reviewed = DiffOf(tree, run[g].of)]
    /\ UNCHANGED <<store, mode, queue, runtime, tree, dev, restarts>>

\* Variant for mutation testing: off by one.
MayRetryOnceMore(g) == run[g].attempt <= MaxAttempts

MayRetry(g) == run[g].attempt < MaxAttempts

SendBack(g) ==
    /\ \/ run[g].at = "verified" /\ ~run[g].passed
       \/ run[g].at = "judged"
    /\ MayRetry(g)
    /\ RunAt(g, "retry")
    /\ UNCHANGED <<store, mode, queue, runtime, tree, dev, restarts>>

Retry(g) ==
    /\ run[g].at = "retry"
    /\ ~OverBudget(g)
    /\ budgets' = [budgets EXCEPT ![Key(g)] = "open"]
    /\ run' = [run EXCEPT ![g].at = "fix", ![g].attempt = @ + 1, ![g].checked = {},
                          ![g].reviewed = {}, ![g].measured = None, ![g].passed = FALSE]
    /\ UNCHANGED <<store, mode, queue, sandboxes, tree, dev, restarts>>

\* Its edge leads to fix whatever the node returned: an escalated run goes on.
RetryOverBudget(g) ==
    /\ run[g].at = "retry"
    /\ OverBudget(g)
    /\ IF Accepts(g, "escalated")
       THEN Record(g, "escalated", Diagnosis(g)) /\ RunAt(g, "fix")
       ELSE run' = [run EXCEPT ![g].at = "fix", ![g].crashed = TRUE] /\ UNCHANGED store
    /\ UNCHANGED <<mode, queue, runtime, tree, dev, restarts>>

\* A node gives up: no diagnosis, no proposal, inconclusive, out of attempts, or blocked.
Escalate(g) ==
    /\ run[g].at \in {"investigating", "propose", "verified", "judged"}
    /\ run[g].at = "verified" => ~run[g].passed
    /\ \E d \in Diagnoses \union {Diagnosis(g)} :
        /\ run[g].at # "investigating" => d = Diagnosis(g)
        /\ Step(g, "escalated", d, AfterFix(g, "release"), "crash")
    /\ UNCHANGED <<mode, queue, runtime, tree, dev, restarts>>

\* The diff a person will read is read again now; a worktree that is gone is opened anew.
Package(g) ==
    /\ run[g].at = "package"
    /\ tree' = IF Key(g) \in sandboxes THEN tree ELSE OpenWorktree(run[g].of)
    /\ sandboxes' = sandboxes \union {Key(g)}
    /\ budgets' = [budgets EXCEPT ![Key(g)] = IF @ = "none" THEN "open" ELSE @]
    /\ run' = [run EXCEPT ![g].at = "finish", ![g].diff = DiffOf(tree', run[g].of)]
    /\ UNCHANGED <<store, mode, queue, dev, restarts>>

FinishShadowRun(c) ==
    /\ shadow[c] = "running"
    /\ shadow' = [shadow EXCEPT ![c] = "ready"]

Finish(g) ==
    /\ run[g].at = "finish"
    /\ LET c == run[g].of IN
       \/ /\ mode = "shadow" /\ FinishShadowRun(c)
          /\ RunAt(g, "release")
          /\ UNCHANGED <<changes, shown>>
       \/ /\ mode = "real" /\ CanFinishAgentRun(changes[c])
          /\ changes' = [changes EXCEPT ![c] = FinishAgentRun(@)]
          /\ shown' = [shown EXCEPT ![c] = [diff |-> run[g].diff, checked |-> run[g].checked,
                                               reviewed |-> run[g].reviewed,
                                               last |-> {Edit(g, "fixer")}, alone |-> run[g].alone]]
          /\ RunAt(g, "release")
          /\ UNCHANGED shadow
       \/ /\ ~(mode = "shadow" /\ shadow[c] = "running")
          /\ ~(mode = "real" /\ CanFinishAgentRun(changes[c]))
          /\ RunAt(g, "crash")
          /\ UNCHANGED store
    /\ UNCHANGED <<mode, queue, runtime, tree, dev, restarts>>

\* Any exception in a node (a tool, a model, git, the disk) is turned into the crash node.
NodeRaises(g) ==
    /\ Executing(g)
    /\ run[g].at \notin {"investigate", "crash", "failed", "release", "retry"}
    /\ RunAt(g, "crash")
    /\ UNCHANGED <<store, mode, queue, runtime, tree, dev, restarts>>

\* Variant for mutation testing: the crash node only logs.
CrashUnrecorded(g) ==
    /\ run[g].at = "crash"
    /\ RunAt(g, "release")
    /\ UNCHANGED <<store, mode, queue, runtime, tree, dev, restarts>>

CrashNode(g) ==
    /\ run[g].at = "crash"
    /\ Step(g, "escalated", Diagnosis(g), "release", "release")
    /\ UNCHANGED <<mode, queue, runtime, tree, dev, restarts>>

Work(g) ==
    \/ WorkerTakes(g) \/ Enter(g) \/ EnterOverBudget(g) \/ Investigated(g) \/ Progress(g)
    \/ Propose(g) \/ VerifyDiff(g) \/ RunTests(g) \/ Deployed(g) \/ Measure(g) \/ Critique(g) \/ GoOn(g)
    \/ SendBack(g) \/ Retry(g) \/ RetryOverBudget(g) \/ Escalate(g) \/ Package(g) \/ Finish(g)
    \/ NodeRaises(g) \/ CrashNode(g) \/ InvokeFails(g) \/ RunFailed(g) \/ Release(g)

-----------------------------------------------------------------------------
(* A person decides on a change, whatever its agents are doing. *)
Decide(c, decision, by) ==
    /\ CanDecide(changes[c], decision)
    /\ changes' = [changes EXCEPT ![c] = ApplyDecision(@, decision, by)]
    /\ UNCHANGED <<shadow, shown, mode, queue, run, runtime, tree, dev, restarts>>

\* The process dies and a new one starts, perhaps in the other mode: pool, registries and the
\* simulated environment are gone, worktrees are not, and recover_interrupted_runs has run.
Restart ==
    /\ restarts < MaxRestarts
    /\ restarts' = restarts + 1
    /\ mode' \in Modes
    /\ changes' = [c \in Changes |-> RecoverInterruptedRun(changes[c])]
    /\ shadow' = [c \in Changes |-> IF shadow[c] = "running" THEN "escalated" ELSE shadow[c]]
    /\ queue' = <<>>
    /\ run' = [g \in Runs |-> IF Underway(g) THEN Ended(g) ELSE run[g]]
    /\ sandboxes' = {}
    /\ budgets' = [k \in Keys |-> "none"]
    /\ active' = [s \in DOMAIN active |-> None]
    /\ displaced' = {}
    /\ UNCHANGED <<shown, tree>>

Next ==
    \/ \E g \in Runs : Work(g)
    \/ \E g \in Runs, c \in Changes : Start(g, c)
    \/ \E k \in Keys : BudgetRunsOut(k)
    \/ \E c \in Changes, d \in {"approve", "reject"}, by \in Approvers : Decide(c, d, by)
    \/ Restart

Spec == Init /\ [][Next]_vars

-----------------------------------------------------------------------------
(* What the runtime promises. *)

\* graph.py:133 "never leave the change stuck in a working state": whenever the record says the
\* agents are at work (and no one has closed the change over their heads), some run of that
\* change still has its last word to the store before it; the same of the shadow record.
WorkingStates == {"investigating", "hypothesis_ready", "fixing", "verifying", "reviewing"}

HasRun(c) == \E g \in Runs : Underway(g) /\ run[g].of = c /\ run[g].at # "release"

NeverStuckWorking ==
    \A c \in Changes :
        changes[c].state \in WorkingStates \/ shadow[c] = "running" => HasRun(c)

\* No sandbox and no budget outlives the runs of its key, so that a later run starts afresh.
NothingLeaks ==
    \A k \in Keys : (k \in sandboxes \/ budgets[k] # "none") =>
        \E g \in Runs : Underway(g) /\ Key(g) = k

\* graph.py:281 "The approver must be able to see exactly what was verified": for a run that no other
\* run of the change was beside, the diff offered is the one the Critic read, and the Verifier checked
\* it but for what the project's tests left behind afterwards; what was checked is the last
\* attempt's own edit, and nothing of an attempt before it is offered.
LeftByTests(edits) == {[e EXCEPT !.from = "tests"] : e \in edits}

ShownIsReviewed ==
    \A c \in Changes : shown[c].alone =>
        /\ shown[c].diff = shown[c].reviewed /\ shown[c].checked = shown[c].last
        /\ shown[c].diff \ LeftByTests(shown[c].last) = shown[c].checked

\* verifier.py:5 "deploys the branch to dev and measures": a run that passed measured its own
\* branch, once its deploy had arrived, unless the branch of another change of the service arrived
\* between its deploy and its measurement.
MeasuredOwnUnlessDisplaced ==
    \A g \in Runs : run[g].passed /\ g \notin displaced => run[g].measured = run[g].of

-----------------------------------------------------------------------------
(* Sentences of the code's own comments that a run of their own finds broken. *)

\* graph.py:281 "The approver must be able to see exactly what was verified".
ExactlyWhatWasVerified ==
    \A c \in Changes : shown[c].alone => shown[c].diff = shown[c].checked

\* verifier.py:5 "deploys the branch to dev and measures": a run that passed measured its own branch.
MeasuredOwnBranch == \A g \in Runs : run[g].passed => run[g].measured = run[g].of

=============================================================================
