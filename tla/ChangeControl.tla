---------------------------- MODULE ChangeControl ----------------------------
(***************************************************************************)
(* The change store and everyone who writes to it, in one process: the     *)
(* HTTP requests of operators (execute-dev, refresh-status, decision,      *)
(* promote: src/app/main.py), each running in its own thread, the agent    *)
(* run of a change (src/app/agents/graph.py) in a pool thread, and the     *)
(* restart of the process.  Jenkins is external: builds run and end on     *)
(* their own, and any call to it may fail, with or without effect.         *)
(*                                                                         *)
(* A store operation is atomic (ChangeControlStore._mutate holds the lock  *)
(* from read to write), so a step here is one store operation or one call  *)
(* to Jenkins, and everything between two of them may interleave.          *)
(***************************************************************************)
EXTENDS ChangeRecord, Integers, FiniteSets

CONSTANTS
    Changes,        \* the changes under control
    Clients,        \* request threads of the API
    Runs,           \* agent runs alive at once, queued in the pool or executing (bound)
    MaxAttempts,    \* AGENT_MAX_FIX_ATTEMPTS
    MaxRestarts,    \* bound: restarts of the process
    Opened          \* what the pipeline knew of the changes it opened

ASSUME ControlAssumption ==
    /\ MaxAttempts \in Nat \ {0}
    /\ MaxRestarts \in Nat
    /\ Opened \subseteq Openings
    /\ Changes # {}

VARIABLES
    changes,    \* the store: the record of every change
    builds,     \* Jenkins: what each build is and how it stands
    reqs,       \* where each request thread is
    run,        \* which change each agent run works on and where it is in the graph
    restarts    \* restarts so far (bound)

vars == <<changes, builds, reqs, run, restarts>>

NoRequest == [pc |-> "idle", of |-> CHOOSE c \in Changes : TRUE, build |-> NoBuild, saw |-> "QUEUED"]

NotRunning == [at |-> "none", of |-> CHOOSE c \in Changes : TRUE, attempt |-> 1]

BuildKinds == {"none", "dev", "prod"}
BuildOutcomes == {"SUCCESS", "FAILURE"}

RequestSteps ==
    {"idle", "dev_trigger", "dev_poll", "dev_record",
     "prod_trigger", "prod_poll", "prod_refresh", "prod_record", "prod_abort"}

RunSteps ==
    {"none", "investigate", "fix", "propose", "verify", "verdict", "verified",
     "review", "judge", "judged", "retry", "fix_crashed", "package", "crash"}

\* The shape of the state: the store, Jenkins, the request threads and the agent runs, whose
\* fix attempts never pass AGENT_MAX_FIX_ATTEMPTS.
TypeOK ==
    /\ changes \in [Changes -> Records]
    /\ builds \in [Builds -> [kind : BuildKinds, of : Changes, status : {"RUNNING"} \union BuildOutcomes]]
    /\ reqs \in [Clients -> [pc : RequestSteps, of : Changes,
                             build : Builds \union {NoBuild, AgentDeploy}, saw : JenkinsStatuses]]
    /\ run \in [Runs -> [at : RunSteps, of : Changes, attempt : 1 .. MaxAttempts]]
    /\ \A g \in Runs : run[g].at = "retry" => run[g].attempt < MaxAttempts
    /\ restarts \in 0 .. MaxRestarts

Init ==
    /\ \E opening \in [Changes -> Opened] : changes = [c \in Changes |-> CreateChange(opening[c])]
    /\ builds = [b \in Builds |-> [kind |-> "none", of |-> CHOOSE c \in Changes : TRUE, status |-> "RUNNING"]]
    /\ reqs = [k \in Clients |-> NoRequest]
    /\ run = [g \in Runs |-> NotRunning]
    /\ restarts = 0

-----------------------------------------------------------------------------
(* Helpers: one store write, one move of a request thread, one new build. *)
Write(c, r) == changes' = [changes EXCEPT ![c] = r]

Request(k, pc, c, b, saw) ==
    reqs' = [reqs EXCEPT ![k] = [pc |-> pc, of |-> c, build |-> b, saw |-> saw]]

GoTo(k, pc) == reqs' = [reqs EXCEPT ![k].pc = pc]

Done(k) == reqs' = [reqs EXCEPT ![k] = NoRequest]

StartBuild(b, kind, c) ==
    /\ builds[b].kind = "none"
    /\ builds' = [builds EXCEPT ![b] = [kind |-> kind, of |-> c, status |-> "RUNNING"]]

-----------------------------------------------------------------------------
(* POST /execute-dev: check, trigger a Jenkins build, wait a bounded time, record. *)
DevCheck(k, c) ==
    /\ reqs[k].pc = "idle"
    /\ DevExecutable(changes[c])
    /\ Request(k, "dev_trigger", c, NoBuild, "QUEUED")
    /\ UNCHANGED <<changes, builds, run, restarts>>

\* A 2xx answer other than 200/201/202 is reported as UNKNOWN, which is not polled.
DevTrigger(k) ==
    /\ reqs[k].pc = "dev_trigger"
    /\ \E b \in Builds :
        /\ StartBuild(b, "dev", reqs[k].of)
        /\ \/ Request(k, "dev_poll", reqs[k].of, b, "QUEUED")
           \/ Request(k, "dev_record", reqs[k].of, b, "UNKNOWN")
    /\ UNCHANGED <<changes, run, restarts>>

\* The call raises (502): nothing is recorded, though the build may have started.
DevTriggerFails(k) ==
    /\ reqs[k].pc = "dev_trigger"
    /\ \/ UNCHANGED builds
       \/ \E b \in Builds : StartBuild(b, "dev", reqs[k].of)
    /\ Done(k)
    /\ UNCHANGED <<changes, run, restarts>>

\* The last poll of wait_for_build: what Jenkins said of the build at that moment.
\* Only a build of Jenkins can answer; polling any other url raises.
Poll(k) ==
    /\ reqs[k].pc \in {"dev_poll", "prod_poll", "prod_refresh"}
    /\ reqs[k].build \in Builds
    /\ reqs' = [reqs EXCEPT ![k].pc = IF @ = "dev_poll" THEN "dev_record" ELSE "prod_record",
                            ![k].saw = builds[reqs[k].build].status]
    /\ UNCHANGED <<changes, builds, run, restarts>>

\* Polling (or collecting the APM evidence) raises.  The promote request goes on with the
\* status the trigger returned; the others answer 502 and record nothing.
PollFails(k) ==
    /\ \/ /\ reqs[k].pc = "prod_poll"
          /\ GoTo(k, "prod_record")
       \/ /\ reqs[k].pc \in {"dev_poll", "prod_refresh"}
          /\ Done(k)
    /\ UNCHANGED <<changes, builds, run, restarts>>

\* Variant for mutation testing: the verdict rests on the APM evidence alone.
VerdictsForEvidenceOnly(jenkins) ==
    IF jenkins \in NonTerminalBuildStates THEN {"running"} ELSE {"passed", "failed"}

\* DevFixExecutor._conclude: a finished SUCCESS still needs good smoke tests and enough improvement.
VerdictsFor(jenkins) ==
    CASE jenkins \in NonTerminalBuildStates -> {"running"}
      [] jenkins = "SUCCESS" -> {"passed", "failed"}
      [] OTHER -> {"failed"}

DevRecord(k) ==
    /\ reqs[k].pc = "dev_record"
    /\ \E verdict \in VerdictsFor(reqs[k].saw) :
        LET c == reqs[k].of IN
        IF CanRecordDev(changes[c], verdict)
        THEN Write(c, WithDevExecution(changes[c], reqs[k].build, reqs[k].saw, verdict))
        ELSE UNCHANGED changes
    /\ Done(k)
    /\ UNCHANGED <<builds, run, restarts>>

-----------------------------------------------------------------------------
(* POST /refresh-status: read the record, then poll the build it names. *)
RefreshRead(k, c) ==
    /\ reqs[k].pc = "idle"
    /\ \/ /\ changes[c].state = "promoting"
          /\ changes[c].prodUrl # NoBuild
          /\ Request(k, "prod_refresh", c, changes[c].prodUrl, "QUEUED")
       \/ /\ changes[c].state = "dev_fix_in_progress"
          /\ changes[c].devUrl # NoBuild
          /\ Request(k, "dev_poll", c, changes[c].devUrl, "QUEUED")
    /\ UNCHANGED <<changes, builds, run, restarts>>

-----------------------------------------------------------------------------
(* POST /decision: one store operation. *)
Decide(c, decision, by) ==
    /\ CanDecide(changes[c], decision)
    /\ Write(c, ApplyDecision(changes[c], decision, by))
    /\ UNCHANGED <<builds, reqs, run, restarts>>

(* POST /promote: reserve, trigger the prod deploy, wait a bounded time, finalize. *)
PromoteReserve(k, c, by) ==
    /\ reqs[k].pc = "idle"
    /\ CanPromote(changes[c], by)
    /\ Write(c, BeginPromotion(changes[c], by))
    /\ Request(k, "prod_trigger", c, NoBuild, "QUEUED")
    /\ UNCHANGED <<builds, run, restarts>>

ProdTrigger(k) ==
    /\ reqs[k].pc = "prod_trigger"
    /\ \E b \in Builds :
        /\ StartBuild(b, "prod", reqs[k].of)
        /\ \/ Request(k, "prod_poll", reqs[k].of, b, "QUEUED")
           \/ Request(k, "prod_record", reqs[k].of, b, "UNKNOWN")
    /\ UNCHANGED <<changes, run, restarts>>

\* Variant for mutation testing: the failed trigger answers 502 and records nothing.
ProdTriggerFailsSilently(k) ==
    /\ reqs[k].pc = "prod_trigger"
    /\ \/ UNCHANGED builds
       \/ \E b \in Builds : StartBuild(b, "prod", reqs[k].of)
    /\ Done(k)
    /\ UNCHANGED <<changes, run, restarts>>

\* The trigger raises: Jenkins refused the deploy, or accepted it and the answer was lost.
ProdTriggerFails(k) ==
    /\ reqs[k].pc = "prod_trigger"
    /\ \/ UNCHANGED builds
       \/ \E b \in Builds : StartBuild(b, "prod", reqs[k].of)
    /\ GoTo(k, "prod_abort")
    /\ UNCHANGED <<changes, run, restarts>>

Finalize(k, result, url) ==
    /\ IF CanFinalizePromotion(changes[reqs[k].of])
       THEN Write(reqs[k].of, FinalizePromotion(changes[reqs[k].of], result, url))
       ELSE UNCHANGED changes
    /\ Done(k)
    /\ UNCHANGED <<builds, run, restarts>>

ProdAbort(k) ==
    /\ reqs[k].pc = "prod_abort"
    /\ Finalize(k, "failed", NoBuild)

ProdRecord(k) ==
    /\ reqs[k].pc = "prod_record"
    /\ Finalize(k, PromotionResultFor(reqs[k].saw), reqs[k].build)

-----------------------------------------------------------------------------
(* The agent run: nodes of the incident graph, cut at every store call. *)
StartAgents(c, g) ==
    /\ run[g].at = "none"
    /\ CanBeginAgentRun(changes[c])
    /\ Write(c, BeginAgentRun(changes[c]))
    /\ run' = [run EXCEPT ![g] = [at |-> "investigate", of |-> c, attempt |-> 1]]
    /\ UNCHANGED <<builds, reqs, restarts>>

RunAt(g, at) == run' = [run EXCEPT ![g].at = at]

\* A record_agent_step call inside a node; a refused one raises.
AgentCall(g, to, diagnosis, next, onError) ==
    LET c == run[g].of IN
    /\ IF CanRecordAgentStep(changes[c], to)
       THEN /\ Write(c, RecordAgentStep(changes[c], to, diagnosis))
            /\ RunAt(g, next)
       ELSE /\ RunAt(g, onError)
            /\ UNCHANGED changes
    /\ UNCHANGED <<builds, reqs, restarts>>

Diagnosis(g) == changes[run[g].of].diagnosis

\* The Investigator proceeds with a diagnosis; it replaces the one the pipeline guessed.
Investigated(g) ==
    /\ run[g].at = "investigate"
    /\ \E d \in {"sound", "weak"} : AgentCall(g, "hypothesis_ready", d, "fix", "crash")

\* Where a node records progress: the state it records and where the node goes on.
ProgressAt ==
    [fix     |-> [to |-> "fixing",    next |-> "propose"],
     verify  |-> [to |-> "verifying", next |-> "verdict"],
     verdict |-> [to |-> "verifying", next |-> "verified"],
     review  |-> [to |-> "reviewing", next |-> "judge"],
     judge   |-> [to |-> "reviewing", next |-> "judged"]]

RecordProgress(g) ==
    /\ run[g].at \in DOMAIN ProgressAt
    /\ AgentCall(g, ProgressAt[run[g].at].to, Diagnosis(g), ProgressAt[run[g].at].next, "crash")

\* The Fixer proposed, the verification passed, the Critic approved for a human.
PassedTo == [propose |-> "verify", verified |-> "review", judged |-> "package"]

GoOn(g) ==
    /\ run[g].at \in DOMAIN PassedTo
    /\ RunAt(g, PassedTo[run[g].at])
    /\ UNCHANGED <<changes, builds, reqs, restarts>>

\* Variant for mutation testing: nobody looks at the attempts left.
SendBackWithoutLimit(g) ==
    /\ run[g].at \in {"verified", "judged"}
    /\ RunAt(g, "retry")
    /\ UNCHANGED <<changes, builds, reqs, restarts>>

\* Verification failed, or the Critic sent the fix back, with attempts left.
SendBack(g) ==
    /\ run[g].at \in {"verified", "judged"}
    /\ run[g].attempt < MaxAttempts
    /\ RunAt(g, "retry")
    /\ UNCHANGED <<changes, builds, reqs, restarts>>

\* Variant for mutation testing: the attempt is not counted.
RetrySameAttempt(g) ==
    /\ run[g].at = "retry"
    /\ RunAt(g, "fix")
    /\ UNCHANGED <<changes, builds, reqs, restarts>>

Retry(g) ==
    /\ run[g].at = "retry"
    /\ run' = [run EXCEPT ![g].at = "fix", ![g].attempt = @ + 1]
    /\ UNCHANGED <<changes, builds, reqs, restarts>>

\* Over budget in the retry node: it escalates, but its edge leads to `fix` whatever it
\* returned, and a refused escalation is routed to `crash` only after `fix` has run.
RetryOverBudget(g) ==
    /\ run[g].at = "retry"
    /\ AgentCall(g, "escalated", Diagnosis(g), "fix", "fix_crashed")

FixCrashed(g) ==
    /\ run[g].at = "fix_crashed"
    /\ \E to \in {"fixing", "escalated"} : AgentCall(g, to, Diagnosis(g), "crash", "crash")

\* No diagnosis, no proposal, inconclusive, out of attempts, blocked, or over budget.
\* Only the Investigator's escalation may carry a diagnosis.
Escalate(g) ==
    /\ run[g].at \in {"investigate", "fix", "propose", "verify", "verified", "review", "judged"}
    /\ \E d \in {"sound", "weak"} :
        /\ run[g].at # "investigate" => d = Diagnosis(g)
        /\ AgentCall(g, "escalated", d, "none", "crash")

Package(g) ==
    /\ run[g].at = "package"
    /\ LET c == run[g].of IN
       IF CanFinishAgentRun(changes[c])
       THEN /\ Write(c, FinishAgentRun(changes[c]))
            /\ RunAt(g, "none")
       ELSE /\ RunAt(g, "crash")
            /\ UNCHANGED changes
    /\ UNCHANGED <<builds, reqs, restarts>>

\* Any exception in a node (a tool, a model, git) routes to the crash node.
NodeRaises(g) ==
    /\ run[g].at \notin {"none", "crash"}
    /\ RunAt(g, "crash")
    /\ UNCHANGED <<changes, builds, reqs, restarts>>

\* The crash node escalates; a refused escalation is swallowed and the run just ends.
CrashNode(g) ==
    /\ run[g].at = "crash"
    /\ AgentCall(g, "escalated", Diagnosis(g), "none", "none")

AgentStep(g) ==
    \/ Investigated(g) \/ RecordProgress(g) \/ GoOn(g) \/ SendBack(g) \/ Retry(g)
    \/ RetryOverBudget(g) \/ FixCrashed(g) \/ Escalate(g)
    \/ Package(g) \/ NodeRaises(g) \/ CrashNode(g)

-----------------------------------------------------------------------------
(* Jenkins, external. *)
BuildEnds(b) ==
    /\ builds[b].kind # "none"
    /\ builds[b].status = "RUNNING"
    /\ \E outcome \in BuildOutcomes : builds' = [builds EXCEPT ![b].status = outcome]
    /\ UNCHANGED <<changes, reqs, run, restarts>>

(* The process dies and starts again: threads are gone, recover_interrupted_runs has run. *)
Restart ==
    /\ restarts < MaxRestarts
    /\ restarts' = restarts + 1
    /\ changes' = [c \in Changes |-> RecoverInterruptedRun(changes[c])]
    /\ reqs' = [k \in Clients |-> NoRequest]
    /\ run' = [g \in Runs |-> NotRunning]
    /\ UNCHANGED builds

RequestStep(k) ==
    \/ DevTrigger(k) \/ DevTriggerFails(k) \/ Poll(k) \/ PollFails(k) \/ DevRecord(k)
    \/ ProdTrigger(k) \/ ProdTriggerFails(k) \/ ProdAbort(k) \/ ProdRecord(k)

RequestArrives(k, c) ==
    \/ DevCheck(k, c)
    \/ RefreshRead(k, c)
    \/ \E by \in ReleaseOperators : PromoteReserve(k, c, by)

Next ==
    \/ \E k \in Clients : RequestStep(k)
    \/ \E k \in Clients, c \in Changes : RequestArrives(k, c)
    \/ \E c \in Changes, d \in {"approve", "reject"}, by \in Actors : Decide(c, d, by)
    \/ \E c \in Changes, g \in Runs : StartAgents(c, g)
    \/ \E g \in Runs : AgentStep(g)
    \/ \E b \in Builds : BuildEnds(b)
    \/ Restart

Spec == Init /\ [][Next]_vars

(* Threads that started keep running; nobody has to send a request. *)
FairSpec ==
    /\ Spec
    /\ \A k \in Clients : WF_vars(RequestStep(k))
    /\ \A g \in Runs : WF_vars(AgentStep(g))

-----------------------------------------------------------------------------
(* What the release gate promises. *)

Released(r) == r.state \in {"promoting"} \union PromotionOver

BuildsOf(c, kind) == {b \in Builds : builds[b].kind = kind /\ builds[b].of = c}

\* A change is being deployed, or was, only if a person approved it, its record passes the
\* policy gate to this day, and (where duties are separated) someone else released it.
ReleasedIsGuarded ==
    \A c \in Changes : Released(changes[c]) =>
        /\ changes[c].status = "approved"
        /\ PolicyOK(changes[c])
        /\ changes[c].decidedBy \in Actors
        /\ SeparateDuties => changes[c].promotedBy # changes[c].decidedBy

\* However many requests race, retry or are lost in a restart, a change is deployed to
\* production at most once, and never without its reservation.
DeployedOnce ==
    \A c \in Changes :
        /\ \A b1, b2 \in BuildsOf(c, "prod") : b1 = b2
        /\ BuildsOf(c, "prod") # {} => Released(changes[c])

\* promoted_to_prod is never a guess: a production build of this very change has succeeded.
PromotedWasDeployed ==
    \A c \in Changes : changes[c].state = "promoted_to_prod" =>
        \E b \in BuildsOf(c, "prod") : builds[b].status = "SUCCESS"

\* A change is offered for approval only on evidence someone produced for it: a dev build of
\* this change that succeeded, or the deploy its agent run verified.
ReadyWasValidated ==
    \A c \in Changes : changes[c].state = "ready_for_prod" =>
        /\ changes[c].dev = "passed"
        /\ \/ changes[c].devUrl = AgentDeploy
           \/ /\ changes[c].devUrl \in BuildsOf(c, "dev")
              /\ builds[changes[c].devUrl].status = "SUCCESS"

\* What the approver decided on is what is released: after the decision no late dev result,
\* poll or agent step changes the evidence, the diagnosis or the decision.
Evidence(r) == <<r.dev, r.devUrl, r.jenkins, r.diagnosis, r.decidedBy>>

DecidedIsFrozen ==
    [][\A c \in Changes : changes[c].status # "pending_approval" =>
            /\ Evidence(changes'[c]) = Evidence(changes[c])
            /\ changes'[c].status = changes[c].status]_changes

\* A reserved promotion with no url to refresh is in the hands of a live request, unless the
\* process restarted under it.
ReservationHasOwner ==
    \A c \in Changes :
        (changes[c].state = "promoting" /\ changes[c].prodUrl = NoBuild /\ restarts = 0) =>
            \E k \in Clients : /\ reqs[k].of = c
                               /\ reqs[k].pc \in {"prod_trigger", "prod_poll", "prod_record", "prod_abort"}

\* Every agent run comes to an end: retries are bounded and no refusal makes it loop.
AgentRunEnds == \A g \in Runs : run[g].at # "none" ~> run[g].at = "none"

\* Short of a restart, a reserved promotion ends: it is confirmed, failed, or left with the
\* url of the build that refresh-status will confirm it by.
ReservationEnds ==
    \A c \in Changes :
        (changes[c].state = "promoting" /\ changes[c].prodUrl = NoBuild /\ restarts = 0)
            ~> (changes[c].state # "promoting" \/ changes[c].prodUrl # NoBuild \/ restarts # 0)

-----------------------------------------------------------------------------
(* The store implements the release gate: what the gate sees of a record. *)
GateOf(r) ==
    IF r.status = "pending_approval" THEN "open"
    ELSE CASE r.state = "ready_for_prod"        -> "approved"
           [] r.state = "promoting"             -> "deploying"
           [] r.state = "promoted_to_prod"      -> "live"
           [] r.state = "prod_promotion_failed" -> "failed"
           [] OTHER                             -> "closed"

Gate == INSTANCE ReleaseGate WITH
    Deploys   <- Builds,
    Releasers <- ReleaseOperators,
    gate      <- [c \in Changes |-> GateOf(changes[c])],
    good      <- [c \in Changes |-> PolicyOK(changes[c])],
    approver  <- [c \in Changes |-> changes[c].decidedBy],
    deploys   <- [c \in Changes |-> BuildsOf(c, "prod")],
    landed    <- [c \in Changes |-> {b \in BuildsOf(c, "prod") : builds[b].status = "SUCCESS"}]

\* Every behaviour of the store, its requests, the agents and Jenkins is one the release
\* gate allows.
ImplementsReleaseGate == Gate!Spec

=============================================================================
