------------------------------ MODULE AgentRules ------------------------------
(***************************************************************************)
(* What the four agents decide in one attempt at an incident, and on what: *)
(* the Investigator collects evidence and scores the issue types           *)
(* (src/app/agents/collector.py, evidence.py, scoring.py, investigator.py),*)
(* the Fixer edits a worktree (fixer.py), the Verifier checks the change   *)
(* in stages (verifier.py) and the Critic reviews it (critic.py).          *)
(*                                                                         *)
(* AgentRuntime models how runs share the process; here one run is alone   *)
(* and the rules it applies are in the open.  The tools and the language   *)
(* model are external: a tool may fail or find anything at any call, the   *)
(* model may reply anything, and may not be configured at all.  Evidence   *)
(* about another service carries only the tag "foreign", which no signal   *)
(* reads, and is left out; so is the wording of every text.                *)
(***************************************************************************)
EXTENDS Integers, FiniteSets, Sequences, FiniteSetsExt

CONSTANTS
    AlertedMetric,  \* the metric of the alert
    OtherMetrics,   \* the other metrics of the service the plan asks for, in order
    Family,         \* metric_family of each metric
    Onsets,         \* minutes at which a metric may start to rise, all above 0
    LogPatterns,    \* LOG_PATTERNS a log line may match
    DeployedAt,     \* the minute of each deploy the deploy history may show
    DeployKind,     \* "code" or "config", of each of them
    SimilarTypes,   \* issue types of past incidents close enough to count
    LeadMinutes,    \* DEPLOY_LEAD_MINUTES
    MinConfidence, MinMargin,   \* INVESTIGATION_MIN_CONFIDENCE, _MIN_MARGIN, in thousandths
    MaxLlmSteps,    \* INVESTIGATION_MAX_LLM_STEPS
    MaxSteps,       \* FIXER_MAX_STEPS
    Files,          \* paths of the repository
    Editable,       \* those under the editable paths, none of them protected
    Residue,        \* those the project's tests may write, and git does not ignore
    MaxPolls        \* times the Verifier asks for the status of a dev deploy

Metrics == {AlertedMetric} \union Range(OtherMetrics)

ASSUME RulesAssumption ==
    /\ OtherMetrics \in Seq(Metrics)
    /\ DOMAIN Family = Metrics /\ DOMAIN DeployKind = DOMAIN DeployedAt
    /\ Onsets \subseteq Nat \ {0}
    /\ Editable \subseteq Files /\ Residue \subseteq Files
    /\ MinConfidence \in 1 .. 1000 /\ MinMargin \in 0 .. 999
    /\ MaxLlmSteps \in Nat /\ MaxSteps \in Nat \ {0} /\ MaxPolls \in Nat \ {0}

VARIABLES
    pc,         \* which agent is at work
    plan,       \* calls of the fixed evidence plan still to make
    ledger,     \* the EvidenceLedger: a set of items, at most one for a key
    hypotheses, \* ranked issue types with the confidence each was given
    steps,      \* replies of the model this agent has used
    reply,      \* the reply of the model in hand
    named,      \* files the evidence points at (implicated_artifacts)
    tree,       \* files changed in the worktree
    claimed,    \* files the Fixer's proposal says it changed
    stage,      \* the Verifier's next stage
    checks,     \* the result of every check of the verification
    status,     \* what Jenkins last said of the dev deploy
    polls,      \* times it was asked
    readings,   \* what the verdict on the metrics rests on
    outcome     \* how the attempt ended

vars == <<pc, plan, ledger, hypotheses, steps, reply, named, tree, claimed,
          stage, checks, status, polls, readings, outcome>>
diagnosing == <<plan, ledger, hypotheses>>
fixing     == <<named, tree, claimed>>
verifying  == <<stage, checks, status, polls, readings>>

-----------------------------------------------------------------------------
(* The ledger.  An item is known by its key, dated where the code compares dates (`at`,   *)
(* 0 if undated), and carries the tags the scoring reads.                                 *)
Anomaly(family) == <<"metric_anomaly", family>>
Normal(family)  == <<"metric_normal", family>>
Log(pattern)    == <<"log", pattern>>
Before(kind)    == <<"deploy_before_onset", kind>>
AfterOnset      == <<"deploy_after_onset", "">>
Unrelated       == <<"deploy_unrelated", "">>
NoDeploy        == <<"no_deploy", "">>
Similar(type)   == <<"similar", type>>

Item(kind, name, at, tags) == [key |-> <<kind, name>>, at |-> at, tags |-> tags]

IsAnomaly(item) == item.key[1] = "metric" /\ item.at # 0
IsDeploy(item)  == item.key[1] = "deploy" /\ item.key[2] # "none"

\* Variant for mutation testing: nobody looks whether the key is taken.
AddAlways(L, items) == L \union items

\* The first item of a key stays.
Add(L, items) == L \union {new \in items : \A item \in L : item.key # new.key}

\* The earliest onset of an own metric, 0 if there is none.
Onset(L) ==
    LET onsets == {item.at : item \in {i \in L : IsAnomaly(i)}}
    IN  IF onsets = {} THEN 0 ELSE Min(onsets)

Classify(deploy, onset) ==
    IF onset = 0 THEN {Unrelated}
    ELSE IF deploy.at > onset THEN {AfterOnset}
    ELSE IF onset - deploy.at <= LeadMinutes THEN {Before(DeployKind[deploy.key[2]])}
    ELSE {Unrelated}

ReclassifyDeploys(L) ==
    {IF IsDeploy(item) THEN [item EXCEPT !.tags = Classify(item, Onset(L))] ELSE item : item \in L}

\* Variant for mutation testing: deploys are classified when they are added, and never again.
AddMetricOnly(L, item) == Add(L, {item})

\* A metric without data, a normal one, or one that rose from an onset on.
AddMetric(L, item) ==
    IF IsAnomaly(item) THEN ReclassifyDeploys(Add(L, {item})) ELSE Add(L, {item})

MetricItems(m) ==
    {Item("metric", m, 0, {}), Item("metric", m, 0, {Normal(Family[m])})}
        \union {Item("metric", m, onset, {Anomaly(Family[m])}) : onset \in Onsets}

AddDeploys(L, found) ==
    IF found = {} THEN Add(L, {Item("deploy", "none", 0, {NoDeploy})})
    ELSE ReclassifyDeploys(Add(L, {Item("deploy", d, DeployedAt[d], {}) : d \in found}))

AddLogs(L, matched) == Add(L, {Item("log", p, 0, {Log(p)}) : p \in matched})

AddSimilar(L, types) == Add(L, {Item("similar", t, 0, {Similar(t)}) : t \in types})

\* What the ledger may be after one call; a tool error leaves it alone.
Calls == Metrics \union {"logs", "deploys", "memory"}

After(L, call) ==
    {L} \union
    CASE call = "logs"    -> {AddLogs(L, matched) : matched \in SUBSET LogPatterns}
      [] call = "deploys" -> {AddDeploys(L, found) : found \in SUBSET DOMAIN DeployedAt}
      [] call = "memory"  -> {AddSimilar(L, types) : types \in SUBSET SimilarTypes}
      [] OTHER            -> {AddMetric(L, item) : item \in MetricItems(call)}

-----------------------------------------------------------------------------
(* The scoring tables and the confidence of an issue type, in thousandths. *)
IssueTypes == <<"application_error", "dependency_failure", "performance_degradation",
                "resource_saturation", "unknown">>     \* in the order that breaks ties

Signal(tags, weight) == [any |-> tags, weight |-> weight, specific |-> TRUE, unless |-> {}]
Nonspecific(tags, weight) == [Signal(tags, weight) EXCEPT !.specific = FALSE]
NormalUnlessAnomalous(family, weight) ==
    [Signal({Normal(family)}, weight) EXCEPT !.unless = {Anomaly(family)}]

RecentDeploy == {Before("code"), Before("config")}

SUPPORT ==
    [application_error |->
        <<Signal({Anomaly("error")}, 300), Signal({Before("code")}, 250),
         Signal({Log("exception"), Log("http5xx")}, 300), Signal({Similar("application_error")}, 150)>>,
     performance_degradation |->
        <<Signal({Anomaly("latency")}, 300), Signal(RecentDeploy, 250),
         Signal({Log("slow"), Log("config_reload")}, 300), Signal({Similar("performance_degradation")}, 150)>>,
     dependency_failure |->
        <<Signal({Anomaly("dependency")}, 300), Signal({Log("timeout"), Log("pool"), Log("circuit_breaker")}, 350),
         Nonspecific({NoDeploy}, 150), Signal({Similar("dependency_failure")}, 200)>>,
     resource_saturation |->
        <<Signal({Anomaly("resource")}, 400), Signal({Log("oom"), Log("cpu")}, 300),
         Nonspecific({NoDeploy}, 100), Signal({Similar("resource_saturation")}, 200)>>]

CONTRADICT ==
    [application_error |->
        <<Nonspecific({NoDeploy}, 50), Signal({Log("timeout"), Log("pool")}, 100),
         NormalUnlessAnomalous("error", 200)>>,
     performance_degradation |->
        <<Signal({Log("timeout"), Log("pool")}, 100), NormalUnlessAnomalous("latency", 300)>>,
     dependency_failure |->
        <<Signal(RecentDeploy, 100), NormalUnlessAnomalous("dependency", 200)>>,
     resource_saturation |->
        <<NormalUnlessAnomalous("resource", 350)>>]

Matches(signal, tags) == signal.any \intersect tags # {} /\ signal.unless \intersect tags = {}

\* The weight of the signals of a list that were observed; no list has more than four.
Weight(signals, tags) ==
    LET Observed(i) == IF i <= Len(signals) /\ Matches(signals[i], tags) THEN signals[i].weight ELSE 0
    IN  Observed(1) + Observed(2) + Observed(3) + Observed(4)

\* Without a specific signal the confidence is 0; a penalty never takes it below 0, and the
\* weights of a type sum to 1000 at most.
ScoreIssueType(type, tags) ==
    IF \E i \in DOMAIN SUPPORT[type] : SUPPORT[type][i].specific /\ Matches(SUPPORT[type][i], tags)
    THEN Max({0, Weight(SUPPORT[type], tags) - Weight(CONTRADICT[type], tags)})
    ELSE 0

\* `unknown` rises as the others fall, up to one half.
WithUnknown(scored) ==
    [t \in Range(IssueTypes) |-> IF t = "unknown" THEN (1000 - Max(Range(scored))) \div 2 ELSE scored[t]]

\* The confidence of every issue type on a ledger; the only element of a set, because TLC then
\* works it out once.
ScoreAll(L) ==
    {WithUnknown(scored) : scored \in
        {[t \in DOMAIN SUPPORT |-> ScoreIssueType(t, tags)] : tags \in {UNION {item.tags : item \in L}}}}

-----------------------------------------------------------------------------
(* Hypotheses: issue types ranked by confidence, at most three. *)
MAX_HYPOTHESES == 3

Place == [t \in Range(IssueTypes) |-> CHOOSE i \in DOMAIN IssueTypes : IssueTypes[i] = t]

\* The higher confidence first, and of equal ones the first by name.
Above(t, u, score) == score[t] > score[u] \/ (score[t] = score[u] /\ Place[t] < Place[u])

Hypotheses(ranked, score) ==
    [i \in DOMAIN ranked |-> [type |-> ranked[i], confidence |-> score[ranked[i]]]]

\* The ranking of these types; the only element of a set.
Rank(types, score) ==
    {Hypotheses(ranked, score) : ranked \in
        {r \in [1 .. Min({Cardinality(types), MAX_HYPOTHESES}) -> types] :
            /\ \A i, j \in DOMAIN r : i < j => Above(r[i], r[j], score)
            /\ \A i \in DOMAIN r, t \in types \ Range(r) : Above(r[i], t, score)}}

\* The answer from the evidence alone: some type always has the tenth that is listed.
HeuristicAnswer(score) == Rank({t \in DOMAIN score : score[t] >= 100}, score)

\* _merge_llm_answer: the types the model proposed and those the evidence adds to them, all
\* ranked by their own confidence.
Merge(score, proposed) ==
    Rank(proposed \union {t \in DOMAIN score : score[t] >= 300}, score)

\* _decide.
Proceeds(ranked) ==
    LET runnerUp == IF Len(ranked) > 1 THEN ranked[2].confidence ELSE 0
    IN  /\ ranked[1].type # "unknown"
        /\ ranked[1].confidence >= MinConfidence
        /\ ranked[1].confidence - runnerUp >= MinMargin

-----------------------------------------------------------------------------
(* The checks of the Verifier, by the stage that owns them. *)
Stages == <<{"diff_present", "claimed_files_match", "scope"}, {"syntax"}, {"tests"},
            {"dev_deploy"}, {"alert_metric_recovered"}, {"no_side_effects"}>>

CheckNames == UNION Range(Stages)

Pass(ok) == IF ok THEN "passed" ELSE "failed"

NotRead == [incident |-> FALSE, dev |-> FALSE, better |-> FALSE, elevated |-> FALSE]

Outcomes == {"none", "escalated", "no_fix", "fix_failed", "failed", "inconclusive",
             "crashed", "block", "send_back", "approve_for_human"}

\* The shape of the state; the ledger holds one item per key.
TypeOK ==
    /\ pc \in {"collect", "reason", "proceed", "fix", "verify", "review", "done"}
    /\ \A i, j \in ledger : i.key = j.key => i = j
    /\ \A i \in DOMAIN hypotheses : hypotheses[i].type \in Range(IssueTypes) /\ hypotheses[i].confidence \in 0 .. 1000
    /\ Len(hypotheses) <= MAX_HYPOTHESES
    /\ steps \in 0 .. Max({MaxLlmSteps, MaxSteps}) + 2
    /\ reply \in {"none", "tool", "final", "bad"}
    /\ named \subseteq Files /\ tree \subseteq Files /\ claimed \subseteq Files
    /\ stage \in 1 .. Len(Stages) + 1
    /\ checks \in [CheckNames -> {"none", "passed", "failed", "inconclusive", "skipped"}]
    /\ status \in {"none", "RUNNING", "SUCCESS", "FAILURE"}
    /\ polls \in 0 .. MaxPolls
    /\ readings \in [DOMAIN NotRead -> BOOLEAN]
    /\ outcome \in Outcomes

Init ==
    /\ pc = "collect"
    /\ \E listed \in {OtherMetrics, <<>>} :    \* available_metrics may fail
          plan = <<AlertedMetric>> \o listed \o <<"logs", "deploys", "memory">>
    /\ ledger = {} /\ hypotheses = <<>> /\ steps = 0 /\ reply = "none"
    /\ named = {} /\ tree = {} /\ claimed = {}
    /\ stage = 1 /\ checks = [n \in CheckNames |-> "none"]
    /\ status = "none" /\ polls = 0 /\ readings = NotRead
    /\ outcome = "none"

End(how) == pc' = "done" /\ outcome' = how

-----------------------------------------------------------------------------
(* The Investigator. *)
Collect ==
    /\ pc = "collect" /\ plan # <<>>
    /\ ledger' \in After(ledger, Head(plan))
    /\ plan' = Tail(plan)
    /\ UNCHANGED <<pc, hypotheses, steps, reply, outcome, fixing, verifying>>

\* The tool budget is spent: what was gathered has to do.
OutOfBudget ==
    /\ pc = "collect" /\ plan # <<>>
    /\ plan' = <<>>
    /\ UNCHANGED <<pc, ledger, hypotheses, steps, reply, outcome, fixing, verifying>>

\* _decide on the final ranking, and the node's answer to it.
Decide(rankings) ==
    /\ hypotheses' \in rankings
    /\ steps' = 0 /\ reply' = "none"
    /\ IF Proceeds(hypotheses') THEN pc' = "proceed" /\ UNCHANGED outcome ELSE End("escalated")
    /\ UNCHANGED <<plan, ledger, fixing, verifying>>

\* The evidence-based answer stands, or a configured model is asked.
Answer ==
    /\ pc = "collect" /\ plan = <<>>
    /\ \E score \in ScoreAll(ledger) : Decide(HeuristicAnswer(score))

AskModel ==
    /\ pc = "collect" /\ plan = <<>>
    /\ pc' = "reason"
    /\ \E score \in ScoreAll(ledger) : hypotheses' \in HeuristicAnswer(score)
    /\ UNCHANGED <<plan, ledger, steps, reply, outcome, fixing, verifying>>

\* The replies each loop asks for at most: the Investigator's `for`, the Fixer's `while`.
MoreReplies ==
    \/ pc = "reason" /\ steps < MaxLlmSteps + 2
    \/ pc = "fix" /\ steps <= MaxSteps + 1

\* A reply of the model: "bad" is one that cannot be used, or an error instead of one.
ModelReplies ==
    /\ MoreReplies /\ reply = "none"
    /\ reply' \in {"tool", "final", "bad"}
    /\ UNCHANGED <<pc, steps, outcome, diagnosing, fixing, verifying>>

\* A request while there are requests left; one too many is answered with an instruction.
\* The request may name a tool or arguments that add nothing.
ModelAsks ==
    /\ pc = "reason" /\ reply = "tool"
    /\ steps' = steps + 1 /\ reply' = "none"
    /\ IF steps < MaxLlmSteps THEN \E call \in Calls : ledger' \in After(ledger, call)
                              ELSE UNCHANGED ledger
    /\ UNCHANGED <<pc, plan, hypotheses, outcome, fixing, verifying>>

ModelAnswers ==
    /\ pc = "reason" /\ reply = "final"
    /\ \E score \in ScoreAll(ledger),     \* of the ledger as it is now
          proposed \in (SUBSET Range(IssueTypes)) \ {{}} : Decide(Merge(score, proposed))

\* Variant for mutation testing: the fallback is the answer from before the model's requests.
FallBackAsBefore ==
    /\ pc = "reason"
    /\ reply = "bad" \/ (reply = "none" /\ ~MoreReplies)
    /\ Decide({hypotheses})

\* A bad reply, a spent tool budget, or no final answer: back to the evidence, scored again.
FallBack ==
    /\ pc = "reason"
    /\ \/ reply \in {"bad", "final"}    \* a final answer may cite evidence that is not there
       \/ reply = "tool" /\ steps < MaxLlmSteps
       \/ reply = "none" /\ ~MoreReplies
    /\ \E score \in ScoreAll(ledger) : Decide(HeuristicAnswer(score))

-----------------------------------------------------------------------------
(* The Fixer.  It is handed the first hypothesis and the evidence, which names files or none. *)
StartFix ==
    /\ pc = "proceed"
    /\ pc' = "fix"
    /\ named' \in IF \E i \in ledger : i.key[1] \in {"deploy", "log", "similar"} THEN SUBSET Files ELSE {{}}
    /\ hypotheses' = SubSeq(hypotheses, 1, 1)
    /\ ledger' = {}
    /\ UNCHANGED <<plan, steps, reply, tree, claimed, outcome, verifying>>

\* Variant for mutation testing: being told to finish costs no step.
FixerToldForFree ==
    /\ pc = "fix" /\ reply = "tool" /\ steps >= MaxSteps
    /\ reply' = "none"
    /\ UNCHANGED <<pc, steps, outcome, diagnosing, fixing, verifying>>

\* Past its steps the model is only told to finish, which takes a step too.
FixerTold ==
    /\ pc = "fix" /\ reply = "tool" /\ steps >= MaxSteps
    /\ reply' = "none" /\ steps' = steps + 1
    /\ UNCHANGED <<pc, outcome, diagnosing, fixing, verifying>>

\* An edit of an editable file changes it, or puts it back as it was; any other is refused.
Edited == UNION {{tree \union {f}, tree \ {f}} : f \in Editable}

\* Any other tool, and any refused one, leaves the worktree alone.
FixerUsesTool ==
    /\ pc = "fix" /\ reply = "tool" /\ steps < MaxSteps
    /\ reply' = "none" /\ steps' = steps + 1
    /\ tree' \in Edited \union {tree}
    /\ UNCHANGED <<pc, named, claimed, outcome, diagnosing, verifying>>

\* The final reply: the files are read back from the worktree, never from the reply.
Propose ==
    /\ pc = "fix" /\ reply = "final"
    /\ reply' = "none" /\ steps' = 0
    /\ IF tree = {} THEN End("no_fix") /\ UNCHANGED claimed
                    ELSE pc' = "verify" /\ claimed' = tree /\ UNCHANGED outcome
    /\ UNCHANGED <<named, tree, diagnosing, verifying>>

\* No model, or the model sees no safe change; an error, a spent budget, an unreadable diff,
\* or no final reply.
NoProposal ==
    /\ pc = "fix"
    /\ \/ (reply = "final" \/ (reply = "none" /\ steps = 0)) /\ End("no_fix")
       \/ (reply # "none" \/ MoreReplies) /\ End("fix_failed")
       \/ reply = "none" /\ ~MoreReplies /\ End("fix_failed")
    /\ reply' = "none" /\ steps' = 0
    /\ UNCHANGED <<diagnosing, fixing, verifying>>

-----------------------------------------------------------------------------
(* The Verifier. *)
Blocked == \E n \in CheckNames : checks[n] \in {"failed", "inconclusive"}

\* The checks a stage produced; those it owns and did not produce were skipped.
StageEnds(produced) ==
    /\ checks' = [n \in CheckNames |->
                    IF n \in DOMAIN produced THEN produced[n]
                    ELSE IF n \in Stages[stage] THEN "skipped" ELSE checks[n]]
    /\ stage' = stage + 1

AtStage(n) == pc = "verify" /\ stage = n /\ ~Blocked

Only(name, result) == [n \in {name} |-> result]

\* Someone else on the branch changes the worktree after the Fixer read it back.
TreeDisturbed ==
    /\ pc = "verify" /\ stage = 1 /\ tree = claimed
    /\ tree' \in SUBSET Files
    /\ UNCHANGED <<pc, steps, reply, named, claimed, outcome, diagnosing, verifying>>

\* The tree is compared with what was claimed, the editable paths and the limit on its size.
CheckDiff ==
    /\ AtStage(1)
    /\ \/ StageEnds(Only("diff_present", "inconclusive"))
       \/ /\ tree = {}
          /\ StageEnds(Only("diff_present", "failed"))
       \/ /\ tree # {}
          /\ \E small \in BOOLEAN :
                StageEnds([diff_present        |-> "passed",
                           claimed_files_match |-> Pass(claimed = tree),
                           scope               |-> Pass(tree \subseteq Editable /\ small)])
    /\ UNCHANGED <<pc, steps, reply, outcome, status, polls, readings, diagnosing, fixing>>

CheckSyntax ==
    /\ AtStage(2)
    /\ \E parses \in BOOLEAN : StageEnds(Only("syntax", Pass(parses)))
    /\ UNCHANGED <<pc, steps, reply, outcome, status, polls, readings, diagnosing, fixing>>

\* The tests run in the worktree, whose diff has been checked, and may leave files there.
RunTests == {tree \union left : left \in SUBSET Residue}

CheckTests ==
    /\ AtStage(3)
    /\ \E result \in {"passed", "failed", "inconclusive"} : StageEnds(Only("tests", result))
    /\ tree' \in RunTests
    /\ UNCHANGED <<pc, steps, reply, named, claimed, outcome, status, polls, readings, diagnosing>>

\* The dev deploy is asked for, then polled while Jenkins calls it unfinished.
Deploy ==
    /\ AtStage(4) /\ status = "none"
    /\ status' \in {"RUNNING", "SUCCESS", "FAILURE"}
    /\ UNCHANGED <<pc, steps, reply, outcome, stage, checks, polls, readings, diagnosing, fixing>>

PollDeploy ==
    /\ AtStage(4) /\ status = "RUNNING" /\ polls < MaxPolls
    /\ polls' = polls + 1
    /\ status' \in {"RUNNING", "SUCCESS", "FAILURE"}
    /\ UNCHANGED <<pc, steps, reply, outcome, stage, checks, readings, diagnosing, fixing>>

\* Only a deploy that ended well passes; one that could not start or be read, or is still
\* running after the last poll, is inconclusive.
DeployChecked ==
    /\ AtStage(4)
    /\ \/ /\ status \in {"SUCCESS", "FAILURE"}
          /\ StageEnds(Only("dev_deploy", Pass(status = "SUCCESS")))
       \/ /\ status \in {"none", "RUNNING"}
          /\ StageEnds(Only("dev_deploy", "inconclusive"))
    /\ UNCHANGED <<pc, steps, reply, outcome, status, polls, readings, diagnosing, fixing>>

\* Production must show the incident and dev enough points, or there is nothing to compare.
CheckAlertMetric ==
    /\ AtStage(5)
    /\ \E incident, dev, better \in BOOLEAN :
        /\ readings' = [readings EXCEPT !.incident = incident, !.dev = dev, !.better = better]
        /\ StageEnds(Only("alert_metric_recovered",
                          IF incident /\ dev THEN Pass(better) ELSE "inconclusive"))
    /\ UNCHANGED <<pc, steps, reply, outcome, status, polls, diagnosing, fixing>>

\* Each other metric of dev can be compared and is elevated, is not, or cannot be compared.
CheckSideEffects ==
    /\ AtStage(6)
    /\ \/ \E metric \in [Range(OtherMetrics) -> {"elevated", "normal", "unknown"}] :
            LET elevated == "elevated" \in Range(metric) IN
            /\ readings' = [readings EXCEPT !.elevated = elevated]
            /\ StageEnds(Only("no_side_effects",
                              IF OtherMetrics # <<>> /\ Range(metric) = {"unknown"}
                              THEN "inconclusive" ELSE Pass(~elevated)))
       \/ StageEnds(Only("no_side_effects", "inconclusive")) /\ UNCHANGED readings
    /\ UNCHANGED <<pc, steps, reply, outcome, status, polls, diagnosing, fixing>>

\* The first check of each stage, which a spent tool budget leaves inconclusive.
StageOpens == <<"diff_present", "syntax", "tests", "dev_deploy", "alert_metric_recovered", "no_side_effects">>

VerifierOutOfBudget ==
    /\ stage <= Len(Stages) /\ AtStage(stage)
    /\ StageEnds(Only(StageOpens[stage], "inconclusive"))
    /\ UNCHANGED <<pc, steps, reply, outcome, status, polls, readings, diagnosing, fixing>>

SkipStage ==
    /\ pc = "verify" /\ stage <= Len(Stages) /\ Blocked
    /\ StageEnds(<<>>)
    /\ UNCHANGED <<pc, steps, reply, outcome, status, polls, readings, diagnosing, fixing>>

\* Variant for mutation testing: a check without a result is not held against the fix.
VerdictOnFailures(results) == IF "failed" \in results THEN "failed" ELSE "passed"

Verdict(results) ==
    IF "failed" \in results THEN "failed"
    ELSE IF results \intersect {"inconclusive", "skipped"} # {} THEN "inconclusive"
    ELSE "passed"

\* Only a verified fix is reviewed.
Verified ==
    /\ pc = "verify" /\ stage > Len(Stages)
    /\ LET verdict == Verdict(Range(checks)) IN
       IF verdict = "passed" THEN pc' = "review" /\ UNCHANGED outcome ELSE End(verdict)
    /\ UNCHANGED <<steps, reply, diagnosing, fixing, verifying>>

-----------------------------------------------------------------------------
(* The Critic. *)
ScopeConcerns == IF named # {} /\ ~(tree \subseteq named) THEN {"major"} ELSE {}

\* The rules: the diff can be read, the verification passed, the diagnosis proceeds, the
\* change touches only what the evidence names, where it names anything.
RuleConcerns(readable) ==
    ScopeConcerns \union
    IF readable /\ Verdict(Range(checks)) = "passed" /\ hypotheses[1].type # "unknown"
    THEN {} ELSE {"blocking"}

CriticDecision(severities) ==
    IF "blocking" \in severities THEN "block"
    ELSE IF "major" \in severities THEN "send_back"
    ELSE "approve_for_human"

\* The concerns a model may raise, none of them blocking; a reply that cannot be used adds none.
LlmConcerns == SUBSET {"minor", "major"}

\* The concerns of the model come on top of the rules'.
Review ==
    /\ pc = "review"
    /\ \E readable \in BOOLEAN, fromModel \in LlmConcerns :
          End(CriticDecision(RuleConcerns(readable) \union fromModel))
    /\ UNCHANGED <<steps, reply, diagnosing, fixing, verifying>>

\* An exception no agent handles ends the run: no worktree for the Fixer, or a tool budget
\* spent when the Critic reads the diff.
NodeRaises ==
    /\ pc \in {"proceed", "review"}
    /\ End("crashed")
    /\ UNCHANGED <<steps, reply, diagnosing, fixing, verifying>>

-----------------------------------------------------------------------------
Investigate == Collect \/ OutOfBudget \/ Answer \/ AskModel \/ ModelAsks \/ ModelAnswers \/ FallBack
Fix == StartFix \/ FixerTold \/ FixerUsesTool \/ Propose \/ NoProposal
Verify ==
    \/ CheckDiff \/ CheckSyntax \/ CheckTests \/ Deploy \/ PollDeploy \/ DeployChecked
    \/ CheckAlertMetric \/ CheckSideEffects \/ VerifierOutOfBudget \/ SkipStage \/ Verified

Next == Investigate \/ Fix \/ Verify \/ Review \/ ModelReplies \/ NodeRaises \/ TreeDisturbed

\* One thread runs the agents in turn, and a call to a tool or to the model returns or times out.
Spec == Init /\ [][Next]_vars /\ WF_vars(Next)

-----------------------------------------------------------------------------
\* The order in which evidence arrives never shows: whenever the Investigator looks, every
\* deploy is tagged against the earliest onset known by then, not the one known when the
\* deploy was added (evidence.py:97 "keeps deploy tags consistent").
DeployTagsCurrent ==
    \A item \in ledger : IsDeploy(item) => item.tags = Classify(item, Onset(ledger))

\* A diagnosis the run goes on with beats every other issue type on all the evidence in the
\* ledger, listed as a rival or not, proposed by the model or not, and whenever it arrived.
ProceedIsUnambiguous ==
    pc = "proceed" =>
        \A score \in ScoreAll(ledger) :
            LET top == hypotheses[1].type IN
            /\ top # "unknown" /\ score[top] >= MinConfidence
            /\ \A t \in Range(IssueTypes) \ {top} : score[top] - score[t] >= MinMargin

\* What reaches a person was checked to the end: the claimed files differ, all of them
\* editable, and no other but what the tests wrote; where the evidence names files, none
\* differs that it does not name, not even those; every check was made and passed, on a
\* confirmed deploy and on metrics that were really there.
ApprovedWasChecked ==
    outcome = "approve_for_human" =>
        /\ claimed # {} /\ claimed \subseteq tree \intersect Editable
        /\ tree \subseteq claimed \union Residue
        /\ named # {} => tree \subseteq named
        /\ \A n \in CheckNames : checks[n] = "passed"
        /\ status = "SUCCESS"
        /\ readings.incident /\ readings.dev /\ readings.better /\ ~readings.elevated

\* Every attempt ends, however long the model goes on asking and never answers.
AgentsAnswer == <>(pc = "done")

=============================================================================
