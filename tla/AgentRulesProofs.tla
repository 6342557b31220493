---------------------------- MODULE AgentRulesProofs ----------------------------
(***************************************************************************)
(* Theorems about AgentRules, whatever the tools find, the model replies   *)
(* and the metrics, deploys and files are: the tags of the deploys in the  *)
(* ledger never lag behind the evidence, the diagnosis a run goes on with  *)
(* leads its rivals, and a person is only handed what was checked to the   *)
(* end.                                                                    *)
(*                                                                         *)
(* The provers have no fold and no sort: a score is a sum of the four      *)
(* signals a list has at most, and a ranking is known by who is above whom.*)
(***************************************************************************)
EXTENDS AgentRules, FiniteSetTheorems, SequenceTheorems, TLAPS

-----------------------------------------------------------------------------
(* The evidence. *)

\* Items of a ledger are records of a key, a date and tags.
AreItems(L) == \A i \in L : i = [key |-> i.key, at |-> i.at, tags |-> i.tags]

\* The first item of a key stays the only one.
OneItemPerKey(L) == \A i, j \in L : i.key = j.key => i = j

\* Every deploy is tagged against an onset.
TaggedAgainst(L, onset) == \A i \in L : IsDeploy(i) => i.tags = Classify(i, onset)

Consistent(L) == AreItems(L) /\ OneItemPerKey(L) /\ TaggedAgainst(L, Onset(L))

\* Only the anomalies in a ledger say when the incident began.
LEMMA OnsetOfAnomalies ==
    ASSUME NEW L, NEW M, {i \in L : IsAnomaly(i)} = {i \in M : IsAnomaly(i)}
    PROVE  Onset(L) = Onset(M)
  BY DEF Onset

\* What an item that is already there keeps out, and what a deploy's new tags leave alone.
LEMMA AddKeepsItems ==
    ASSUME NEW L, AreItems(L), OneItemPerKey(L), NEW new, AreItems(new), OneItemPerKey(new)
    PROVE  /\ AreItems(Add(L, new)) /\ OneItemPerKey(Add(L, new))
           /\ L \subseteq Add(L, new) /\ Add(L, new) \subseteq L \union new
  BY DEF AreItems, OneItemPerKey, Add

\* Evidence that is neither a deploy nor an anomaly changes nothing about the deploys.
LEMMA OtherEvidenceIsConsistent ==
    ASSUME NEW L, Consistent(L), NEW new, AreItems(new), OneItemPerKey(new),
           \A i \in new : ~IsAnomaly(i) /\ ~IsDeploy(i)
    PROVE  Consistent(Add(L, new))
<1>1. /\ AreItems(Add(L, new)) /\ OneItemPerKey(Add(L, new))
      /\ L \subseteq Add(L, new) /\ Add(L, new) \subseteq L \union new
  BY AddKeepsItems DEF Consistent
<1> DEFINE M == Add(L, new)
<1> HIDE DEF M
<1>2. {i \in L : IsAnomaly(i)} = {i \in M : IsAnomaly(i)}
  BY <1>1 DEF M
<1>3. Onset(L) = Onset(M)
  BY <1>2, OnsetOfAnomalies
<1>4. TaggedAgainst(M, Onset(L))
  BY <1>1 DEF Consistent, TaggedAgainst, M
<1>5. QED
  BY <1>1, <1>3, <1>4 DEF Consistent, M

\* An item as tagging leaves it.
Tagged(i, onset) == IF IsDeploy(i) THEN [i EXCEPT !.tags = Classify(i, onset)] ELSE i

LEMMA TaggingProperties ==
    ASSUME NEW i, i = [key |-> i.key, at |-> i.at, tags |-> i.tags], NEW onset
    PROVE  /\ Tagged(i, onset) = [key |-> i.key, at |-> i.at,
                                  tags |-> IF IsDeploy(i) THEN Classify(i, onset) ELSE i.tags]
           /\ IsAnomaly(Tagged(i, onset)) <=> IsAnomaly(i)
           /\ IsAnomaly(i) => Tagged(i, onset) = i
           /\ IsDeploy(Tagged(i, onset)) => Tagged(i, onset).tags = Classify(Tagged(i, onset), onset)
<1> DEFINE t == Tagged(i, onset)
<1>1. t = [key |-> i.key, at |-> i.at, tags |-> IF IsDeploy(i) THEN Classify(i, onset) ELSE i.tags]
  <2>1. CASE IsDeploy(i)
    BY <2>1 DEF Tagged
  <2>2. CASE ~IsDeploy(i)
    BY <2>2 DEF Tagged
  <2>3. QED
    BY <2>1, <2>2
<1>2. t.key = i.key /\ t.at = i.at /\ t.tags = IF IsDeploy(i) THEN Classify(i, onset) ELSE i.tags
  BY <1>1
<1>3. IsAnomaly(i) => t = i
  BY DEF IsAnomaly, IsDeploy, Tagged
<1> HIDE DEF t
<1>4. /\ IsAnomaly(t) <=> IsAnomaly(i)
      /\ IsDeploy(t) => t.tags = Classify(t, onset)
  BY <1>2 DEF IsAnomaly, IsDeploy, Classify
<1>5. QED
  BY <1>1, <1>3, <1>4 DEF t

\* Tagged again, every deploy agrees with the anomalies, which tagging does not touch.
LEMMA ReclassifiedIsConsistent ==
    ASSUME NEW L, AreItems(L), OneItemPerKey(L)
    PROVE  Consistent(ReclassifyDeploys(L))
<1> DEFINE onset == Onset(L)
           M == {Tagged(i, onset) : i \in L}
<1>1. ReclassifyDeploys(L) = M
  BY DEF ReclassifyDeploys, Tagged
<1> HIDE DEF onset
<1>2. ASSUME NEW i \in L
      PROVE  /\ Tagged(i, onset) = [key |-> i.key, at |-> i.at,
                                    tags |-> IF IsDeploy(i) THEN Classify(i, onset) ELSE i.tags]
             /\ IsAnomaly(Tagged(i, onset)) <=> IsAnomaly(i)
             /\ IsAnomaly(i) => Tagged(i, onset) = i
             /\ IsDeploy(Tagged(i, onset)) => Tagged(i, onset).tags = Classify(Tagged(i, onset), onset)
  BY TaggingProperties DEF AreItems
<1>3. AreItems(M)
  BY <1>2 DEF AreItems
<1>4. {i \in L : IsAnomaly(i)} = {i \in M : IsAnomaly(i)}
  BY <1>2
<1>5. TaggedAgainst(M, onset)
  BY <1>2 DEF TaggedAgainst
<1>k. OneItemPerKey(M)
  <2>1. \A i \in L : Tagged(i, onset).key = i.key
    BY <1>2
  <2>2. QED
    BY <2>1 DEF OneItemPerKey
<1> HIDE DEF M
<1>6. Onset(M) = onset
  BY <1>4, OnsetOfAnomalies DEF onset
<1>7. QED
  BY <1>1, <1>3, <1>5, <1>6, <1>k DEF Consistent

\* Whatever a call finds, the deploys agree with all the evidence there is by then.
LEMMA AnyCallIsConsistent ==
    ASSUME NEW L, Consistent(L), NEW call, NEW M \in After(L, call)
    PROVE  Consistent(M)
<1>i. AreItems(L) /\ OneItemPerKey(L)
  BY DEF Consistent
<1>1. ASSUME NEW matched, M = AddLogs(L, matched) PROVE Consistent(M)
  <2> DEFINE new == {Item("log", p, 0, {Log(p)}) : p \in matched}
  <2>1. AreItems(new) /\ OneItemPerKey(new) /\ \A i \in new : ~IsAnomaly(i) /\ ~IsDeploy(i)
    BY DEF AreItems, OneItemPerKey, Item, IsAnomaly, IsDeploy
  <2> HIDE DEF new
  <2>2. Consistent(Add(L, new))
    BY <2>1, OtherEvidenceIsConsistent
  <2>3. QED
    BY <1>1, <2>2 DEF AddLogs, new
<1>2. ASSUME NEW types, M = AddSimilar(L, types) PROVE Consistent(M)
  <2> DEFINE new == {Item("similar", t, 0, {Similar(t)}) : t \in types}
  <2>1. AreItems(new) /\ OneItemPerKey(new) /\ \A i \in new : ~IsAnomaly(i) /\ ~IsDeploy(i)
    BY DEF AreItems, OneItemPerKey, Item, IsAnomaly, IsDeploy
  <2> HIDE DEF new
  <2>2. Consistent(Add(L, new))
    BY <2>1, OtherEvidenceIsConsistent
  <2>3. QED
    BY <1>2, <2>2 DEF AddSimilar, new
<1>3. ASSUME NEW found, M = AddDeploys(L, found) PROVE Consistent(M)
  <2>1. CASE found = {}
    <3> DEFINE new == {Item("deploy", "none", 0, {NoDeploy})}
    <3>1. AreItems(new) /\ OneItemPerKey(new) /\ \A i \in new : ~IsAnomaly(i) /\ ~IsDeploy(i)
      BY DEF AreItems, OneItemPerKey, Item, IsAnomaly, IsDeploy
    <3> HIDE DEF new
    <3>2. Consistent(Add(L, new))
      BY <3>1, OtherEvidenceIsConsistent
    <3>3. QED
      BY <1>3, <2>1, <3>2 DEF AddDeploys, new
  <2>2. CASE found # {}
    <3> DEFINE new == {Item("deploy", d, DeployedAt[d], {}) : d \in found}
    <3>1. AreItems(new) /\ OneItemPerKey(new)
      BY DEF AreItems, OneItemPerKey, Item
    <3> HIDE DEF new
    <3>2. AreItems(Add(L, new)) /\ OneItemPerKey(Add(L, new))
      BY <1>i, <3>1, AddKeepsItems
    <3> DEFINE added == Add(L, new)
    <3> HIDE DEF added
    <3>3. Consistent(ReclassifyDeploys(added))
      BY <3>2, ReclassifiedIsConsistent DEF added
    <3>4. QED
      BY <1>3, <2>2, <3>3 DEF AddDeploys, new, added
  <2>3. QED
    BY <2>1, <2>2
<1>4. ASSUME NEW m, NEW item \in MetricItems(m), M = AddMetric(L, item) PROVE Consistent(M)
  <2>1. AreItems({item}) /\ OneItemPerKey({item}) /\ item.key[1] = "metric"
    BY DEF MetricItems, Item, AreItems, OneItemPerKey
  <2>2. CASE IsAnomaly(item)
    <3> DEFINE added == Add(L, {item})
    <3>1. AreItems(added) /\ OneItemPerKey(added)
      BY <1>i, <2>1, AddKeepsItems
    <3> HIDE DEF added
    <3>2. Consistent(ReclassifyDeploys(added))
      BY <3>1, ReclassifiedIsConsistent
    <3>3. QED
      BY <1>4, <2>2, <3>2 DEF AddMetric, added
  <2>3. CASE ~IsAnomaly(item)
    <3>1. \A i \in {item} : ~IsAnomaly(i) /\ ~IsDeploy(i)
      BY <2>1, <2>3 DEF IsDeploy
    <3>2. Consistent(Add(L, {item}))
      BY <2>1, <3>1, OtherEvidenceIsConsistent
    <3>3. QED
      BY <1>4, <2>3, <3>2 DEF AddMetric
  <2>4. QED
    BY <2>2, <2>3
<1>5. \/ M = L
      \/ \E matched \in SUBSET LogPatterns : M = AddLogs(L, matched)
      \/ \E found \in SUBSET DOMAIN DeployedAt : M = AddDeploys(L, found)
      \/ \E types \in SUBSET SimilarTypes : M = AddSimilar(L, types)
      \/ \E item \in MetricItems(call) : M = AddMetric(L, item)
  <2>1. CASE call = "logs"
    BY <2>1 DEF After
  <2>2. CASE call = "deploys"
    BY <2>2 DEF After
  <2>3. CASE call = "memory"
    BY <2>3 DEF After
  <2>4. CASE call \notin {"logs", "deploys", "memory"}
    BY <2>4 DEF After
  <2>5. QED
    BY <2>1, <2>2, <2>3, <2>4
<1>6. QED
  BY <1>1, <1>2, <1>3, <1>4, <1>5

LEMMA LedgerStep ==
    ASSUME Consistent(ledger), [Next]_vars
    PROVE  Consistent(ledger)'
<1>1. CASE UNCHANGED ledger
  BY <1>1
<1>2. ASSUME NEW call, ledger' \in After(ledger, call) PROVE Consistent(ledger)'
  <2> DEFINE after == ledger'
  <2>1. after \in After(ledger, call)
    BY <1>2
  <2> HIDE DEF after
  <2>2. Consistent(after)
    BY <2>1, AnyCallIsConsistent
  <2>3. QED
    BY <2>2 DEF after
<1>3. CASE ledger' = {}
  BY <1>3 DEF Consistent, AreItems, OneItemPerKey, TaggedAgainst
<1>4. CASE Collect
  BY <1>2, <1>4 DEF Collect
<1>5. CASE ModelAsks
  BY <1>1, <1>2, <1>5 DEF ModelAsks
<1>6. CASE StartFix
  BY <1>3, <1>6 DEF StartFix
<1>7. CASE OutOfBudget \/ Answer \/ AskModel \/ ModelAnswers \/ FallBack
  BY <1>1, <1>7 DEF OutOfBudget, Answer, AskModel, ModelAnswers, FallBack, Decide
<1>8. CASE FixerTold \/ FixerUsesTool \/ Propose \/ NoProposal
  BY <1>1, <1>8 DEF FixerTold, FixerUsesTool, Propose, NoProposal, diagnosing
<1>9. CASE Verify
  BY <1>1, <1>9 DEF Verify, CheckDiff, CheckSyntax, CheckTests, Deploy, PollDeploy, DeployChecked, CheckAlertMetric,
              CheckSideEffects, VerifierOutOfBudget, SkipStage, Verified, diagnosing
<1>10. CASE Review \/ ModelReplies \/ NodeRaises \/ TreeDisturbed \/ UNCHANGED vars
  BY <1>1, <1>10 DEF Review, ModelReplies, NodeRaises, TreeDisturbed, diagnosing, vars
<1>11. QED
  BY <1>4, <1>5, <1>6, <1>7, <1>8, <1>9, <1>10 DEF Next, Investigate, Fix

LEMMA InitiallyConsistent == Init => Consistent(ledger)
  BY DEF Init, Consistent, AreItems, OneItemPerKey, TaggedAgainst

\* "Keeps deploy tags consistent" (evidence.py:97): in whatever order metrics, deploys, logs and
\* memory arrive, every deploy is tagged against the earliest onset known by then; and no later item
\* takes the place of the first one of its key.
THEOREM EvidenceOrderNeverShows == Spec => [](DeployTagsCurrent /\ OneItemPerKey(ledger))
<1>1. Init => Consistent(ledger)
  BY InitiallyConsistent
<1>2. Consistent(ledger) /\ [Next]_vars => Consistent(ledger)'
  BY LedgerStep
<1>3. Consistent(ledger) => DeployTagsCurrent /\ OneItemPerKey(ledger)
  BY DEF Consistent, TaggedAgainst, DeployTagsCurrent
<1>4. QED
  BY <1>1, <1>2, <1>3, PTL DEF Spec

-----------------------------------------------------------------------------
(* The checks of the Verifier, and the verdict a person relies on. *)
Readings == [incident : BOOLEAN, dev : BOOLEAN, better : BOOLEAN, elevated : BOOLEAN]
Results == {"none", "passed", "failed", "inconclusive", "skipped"}

ChecksTyped ==
    /\ checks \in [CheckNames -> Results] /\ stage \in 1 .. 7
    /\ readings \in Readings

\* A stage gives each of its checks a result when it ends, and no stage is left out.
MadeInOrder == \A k \in 1 .. 6 : \A n \in Stages[k] : checks[n] = "none" <=> k >= stage

\* As long as nothing failed or stayed open, what the stages so far have established.
Established ==
    /\ stage > 1 => /\ claimed # {} /\ claimed \subseteq Editable
                    /\ claimed \subseteq tree /\ tree \subseteq claimed \union Residue
    /\ stage > 4 => status = "SUCCESS"
    /\ stage > 5 => readings.incident /\ readings.dev /\ readings.better
    /\ stage > 6 => ~readings.elevated

\* The inductive invariant.
Progress ==
    /\ ChecksTyped /\ MadeInOrder
    /\ ~Blocked => Established
    /\ pc \in {"collect", "reason", "proceed", "fix"} => stage = 1
    /\ pc = "review" => stage = 7 /\ \A n \in CheckNames : checks[n] = "passed"
    /\ outcome = "approve_for_human" => pc = "done" /\ ApprovedWasChecked

LEMMA StagesAre ==
    /\ Len(Stages) = 6 /\ Stages[1] = {"diff_present", "claimed_files_match", "scope"}
    /\ Stages[2] = {"syntax"} /\ Stages[3] = {"tests"} /\ Stages[4] = {"dev_deploy"}
    /\ Stages[5] = {"alert_metric_recovered"} /\ Stages[6] = {"no_side_effects"}
    /\ CheckNames = {"diff_present", "claimed_files_match", "scope", "syntax", "tests", "dev_deploy",
                     "alert_metric_recovered", "no_side_effects"}
<1>1. /\ Len(Stages) = 6 /\ Stages[1] = {"diff_present", "claimed_files_match", "scope"}
      /\ Stages[2] = {"syntax"} /\ Stages[3] = {"tests"} /\ Stages[4] = {"dev_deploy"}
      /\ Stages[5] = {"alert_metric_recovered"} /\ Stages[6] = {"no_side_effects"}
      /\ DOMAIN Stages = 1 .. 6
  BY DEF Stages
<1>2. Range(Stages) = {Stages[k] : k \in 1 .. 6}
  BY <1>1 DEF Range
<1>3. {Stages[k] : k \in 1 .. 6} = {Stages[1], Stages[2], Stages[3], Stages[4], Stages[5], Stages[6]}
  BY SMTT(30)
<1>4. QED
  BY <1>1, <1>2, <1>3 DEF CheckNames

\* Every check belongs to one stage.
LEMMA EveryCheckHasAStage ==
    /\ \A n \in CheckNames : \E k \in 1 .. 6 : n \in Stages[k]
    /\ \A k \in 1 .. 6 : Stages[k] \subseteq CheckNames
    /\ \A j, k \in 1 .. 6 : j # k => Stages[j] \intersect Stages[k] = {}
  BY StagesAre, SMTT(60)

\* What the end of a stage records; a failure stays on record.
LEMMA StageProperties ==
    ASSUME ChecksTyped, MadeInOrder, stage \in 1 .. 6, NEW produced, StageEnds(produced),
           \A n \in DOMAIN produced : n \in Stages[stage] /\ produced[n] \in Results \ {"none"}
    PROVE  /\ checks' \in [CheckNames -> Results] /\ stage' = stage + 1 /\ stage' \in 1 .. 7
           /\ MadeInOrder'
           /\ \A n \in DOMAIN produced : checks'[n] = produced[n]
           /\ Blocked => Blocked'
           /\ ~Blocked' => \A n \in DOMAIN produced : produced[n] \notin {"failed", "inconclusive"}
<1>1. /\ checks' = [n \in CheckNames |->
                       IF n \in DOMAIN produced THEN produced[n]
                       ELSE IF n \in Stages[stage] THEN "skipped" ELSE checks[n]]
      /\ stage' = stage + 1
  BY DEF StageEnds
<1>2. /\ checks' \in [CheckNames -> Results]
      /\ \A n \in DOMAIN produced : n \in CheckNames /\ checks'[n] = produced[n]
      /\ \A n \in Stages[stage] : checks'[n] # "none"
      /\ \A n \in CheckNames : n \notin Stages[stage] => checks'[n] = checks[n]
  BY <1>1, EveryCheckHasAStage DEF ChecksTyped, Results
<1>3. MadeInOrder'
  <2>1. ASSUME NEW k \in 1 .. 6, NEW n \in Stages[k] PROVE checks'[n] = "none" <=> k >= stage + 1
    <3>1. CASE k = stage
      BY <1>2, <2>1, <3>1
    <3>2. CASE k # stage
      <4>1. checks'[n] = checks[n]
        BY <1>2, <3>2, EveryCheckHasAStage
      <4>2. QED
        BY <3>2, <4>1 DEF MadeInOrder
    <3>3. QED
      BY <3>1, <3>2
  <2>2. QED
    BY <1>1, <2>1 DEF MadeInOrder
<1>4. Blocked => Blocked'
  <2>1. \A n \in Stages[stage] : checks[n] = "none"
    BY DEF MadeInOrder
  <2>2. QED
    BY <1>2, <2>1 DEF Blocked
<1>5. ~Blocked' => \A n \in DOMAIN produced : produced[n] \notin {"failed", "inconclusive"}
  BY <1>2 DEF Blocked
<1>6. QED
  BY <1>1, <1>2, <1>3, <1>4, <1>5

\* A step of the Verifier that ends a stage owes what that stage establishes, if all is well after it.
LEMMA StageStep ==
    ASSUME Progress, pc = "verify", stage \in 1 .. 6, NEW produced, StageEnds(produced),
           \A n \in DOMAIN produced : n \in Stages[stage] /\ produced[n] \in Results \ {"none"},
           UNCHANGED <<pc, outcome>>, readings' \in Readings,
           ~Blocked /\ ~Blocked' => Established'
    PROVE  Progress'
<1>1. /\ checks' \in [CheckNames -> Results] /\ stage' = stage + 1 /\ stage' \in 1 .. 7
      /\ MadeInOrder' /\ (Blocked => Blocked')
  BY StageProperties DEF Progress
<1>2. QED
  BY <1>1 DEF Progress, ChecksTyped

\* Outside the Verifier and the Critic nothing is checked, and nothing is approved.
LEMMA OutsideKeepsProgress ==
    ASSUME Progress, UNCHANGED verifying, stage = 1 \/ UNCHANGED <<tree, claimed>>,
           outcome' # "approve_for_human", pc' # "review",
           pc' \in {"collect", "reason", "proceed", "fix"} => stage = 1
    PROVE  Progress'
<1>1. UNCHANGED <<stage, checks, status, polls, readings>>
  BY DEF verifying
<1>2. ChecksTyped' /\ MadeInOrder' /\ (Blocked <=> Blocked')
  BY <1>1 DEF Progress, ChecksTyped, MadeInOrder, Blocked
<1>3. ~Blocked' => Established'
  <2>1. CASE stage = 1
    BY <1>1, <2>1 DEF Established
  <2>2. CASE UNCHANGED <<tree, claimed>>
    BY <1>1, <1>2, <2>2 DEF Progress, Established
  <2>3. QED
    BY <2>1, <2>2
<1>4. QED
  BY <1>1, <1>2, <1>3 DEF Progress

\* The diff: if all its checks pass, what changed is what was claimed, and may be edited.
LEMMA DiffEstablishes ==
    ASSUME Progress, CheckDiff PROVE Progress'
<1>1. /\ pc = "verify" /\ stage = 1 /\ ~Blocked
      /\ UNCHANGED <<pc, outcome, readings, tree, claimed>>
  BY DEF CheckDiff, AtStage, fixing
<1>r. readings' \in Readings
  BY <1>1 DEF Progress, ChecksTyped
<1>2. ASSUME NEW result \in {"inconclusive", "failed"}, StageEnds(Only("diff_present", result)) PROVE Progress'
  <2> DEFINE produced == Only("diff_present", result)
  <2>1. DOMAIN produced = {"diff_present"} /\ produced["diff_present"] = result
    BY DEF Only
  <2>2. \A n \in DOMAIN produced : n \in Stages[stage] /\ produced[n] \in Results \ {"none"}
    BY <1>1, <1>2, <2>1, StagesAre DEF Results
  <2> HIDE DEF produced
  <2>3. StageEnds(produced)
    BY <1>2 DEF produced
  <2>4. Blocked'
    BY <1>1, <2>1, <2>2, <2>3, StageProperties DEF Progress
  <2>5. QED
    BY <1>1, <1>r, <2>2, <2>3, <2>4, StageStep
<1>3. ASSUME tree # {}, NEW small \in BOOLEAN,
             StageEnds([diff_present        |-> "passed",
                        claimed_files_match |-> Pass(claimed = tree),
                        scope               |-> Pass(tree \subseteq Editable /\ small)])
      PROVE  Progress'
  <2> DEFINE matches == Pass(claimed = tree)
             scope == Pass(tree \subseteq Editable /\ small)
             produced == [diff_present |-> "passed", claimed_files_match |-> matches, scope |-> scope]
  <2>1. /\ matches \in {"passed", "failed"} /\ scope \in {"passed", "failed"}
        /\ matches # "failed" => claimed = tree
        /\ scope # "failed" => tree \subseteq Editable
    BY DEF Pass
  <2>2. StageEnds(produced)
    BY <1>3
  <2> HIDE DEF matches, scope
  <2>3. /\ DOMAIN produced = {"diff_present", "claimed_files_match", "scope"}
        /\ produced["diff_present"] = "passed" /\ produced["claimed_files_match"] = matches
        /\ produced["scope"] = scope
    OBVIOUS
  <2> HIDE DEF produced
  <2>4. \A n \in DOMAIN produced : n \in Stages[stage] /\ produced[n] \in Results \ {"none"}
    BY <1>1, <2>1, <2>3, StagesAre DEF Results
  <2>5. /\ stage' = 2
        /\ ~Blocked' => \A n \in DOMAIN produced : produced[n] \notin {"failed", "inconclusive"}
    BY <1>1, <2>2, <2>4, StageProperties DEF Progress
  <2>6. ~Blocked' => claimed = tree /\ tree \subseteq Editable
    BY <2>1, <2>3, <2>5
  <2>7. ~Blocked' => Established'
    BY <1>1, <1>3, <2>5, <2>6 DEF Established
  <2>8. QED
    BY <1>1, <1>r, <2>2, <2>4, <2>7, StageStep
<1>4. QED
  BY <1>2, <1>3 DEF CheckDiff

\* A stage with one check.
LEMMA OneCheck ==
    ASSUME Progress, pc = "verify", stage \in 1 .. 6, ~Blocked,
           NEW name \in Stages[stage], NEW result \in Results \ {"none"}, StageEnds(Only(name, result)),
           UNCHANGED <<pc, outcome>>, readings' \in Readings,
           result \notin {"failed", "inconclusive"} /\ stage' = stage + 1 => Established'
    PROVE  Progress'
<1> DEFINE produced == Only(name, result)
<1>1. DOMAIN produced = {name} /\ produced[name] = result
  BY DEF Only
<1>2. StageEnds(produced)
  OBVIOUS
<1> HIDE DEF produced
<1>3. \A n \in DOMAIN produced : n \in Stages[stage] /\ produced[n] \in Results \ {"none"}
  BY <1>1
<1>4. /\ stage' = stage + 1
      /\ ~Blocked' => \A n \in DOMAIN produced : produced[n] \notin {"failed", "inconclusive"}
  BY <1>2, <1>3, StageProperties DEF Progress
<1>5. ~Blocked' => Established'
  BY <1>1, <1>4
<1>6. QED
  BY <1>2, <1>3, <1>5, StageStep

LEMMA VerifierStep ==
    ASSUME Progress, Verify PROVE Progress'
<1>t. /\ stage \in 1 .. 7 /\ readings \in Readings /\ checks \in [CheckNames -> Results]
      /\ ~Blocked => Established
      /\ outcome = "approve_for_human" => pc = "done"
  BY DEF Progress, ChecksTyped
<1>1. CASE CheckSyntax
  <2>1. /\ pc = "verify" /\ stage = 2 /\ ~Blocked /\ UNCHANGED <<pc, outcome, status, readings, tree, claimed>>
    BY <1>1 DEF CheckSyntax, AtStage, fixing
  <2>2. PICK parses \in BOOLEAN : StageEnds(Only("syntax", Pass(parses)))
    BY <1>1 DEF CheckSyntax
  <2> DEFINE result == Pass(parses)
  <2>3. result \in Results \ {"none"}
    BY DEF Pass, Results
  <2>4. StageEnds(Only("syntax", result))
    BY <2>2
  <2> HIDE DEF result
  <2>5. stage' = 3 => Established'
    BY <1>t, <2>1 DEF Established
  <2>6. "syntax" \in Stages[stage]
    BY <2>1, StagesAre
  <2>7. QED
    BY <1>t, <2>1, <2>3, <2>4, <2>5, <2>6, OneCheck
<1>2. CASE CheckTests
  <2>1. /\ pc = "verify" /\ stage = 3 /\ ~Blocked /\ UNCHANGED <<pc, outcome, status, readings, claimed>>
        /\ tree' \in RunTests
    BY <1>2 DEF CheckTests, AtStage
  <2>2. PICK result \in {"passed", "failed", "inconclusive"} : StageEnds(Only("tests", result))
    BY <1>2 DEF CheckTests
  <2>3. stage' = 4 => Established'
    BY <1>t, <2>1 DEF Established, RunTests
  <2>4. "tests" \in Stages[stage] /\ result \in Results \ {"none"}
    BY <2>1, StagesAre DEF Results
  <2>5. QED
    BY <1>t, <2>1, <2>2, <2>3, <2>4, OneCheck
<1>3. CASE Deploy \/ PollDeploy
  <2>1. /\ stage = 4 /\ UNCHANGED <<pc, outcome, stage, checks, readings, tree, claimed>> /\ pc = "verify"
    BY <1>3 DEF Deploy, PollDeploy, AtStage, fixing
  <2>2. ChecksTyped' /\ MadeInOrder' /\ (Blocked <=> Blocked')
    BY <2>1 DEF Progress, ChecksTyped, MadeInOrder, Blocked
  <2>3. ~Blocked' => Established'
    BY <1>t, <2>1, <2>2 DEF Established
  <2>4. QED
    BY <2>1, <2>2, <2>3 DEF Progress
<1>4. CASE DeployChecked
  <2>1. /\ pc = "verify" /\ stage = 4 /\ ~Blocked /\ UNCHANGED <<pc, outcome, status, readings, tree, claimed>>
    BY <1>4 DEF DeployChecked, AtStage, fixing
  <2>2. PICK result \in {"passed", "failed", "inconclusive"} :
            StageEnds(Only("dev_deploy", result)) /\ (result = "passed" => status = "SUCCESS")
    BY <1>4 DEF DeployChecked, Pass
  <2>3. result = "passed" /\ stage' = 5 => Established'
    BY <1>t, <2>1, <2>2 DEF Established
  <2>4. "dev_deploy" \in Stages[stage] /\ result \in Results \ {"none"}
    BY <2>1, StagesAre DEF Results
  <2>5. QED
    BY <1>t, <2>1, <2>2, <2>3, <2>4, OneCheck
<1>5. CASE CheckAlertMetric
  <2>1. /\ pc = "verify" /\ stage = 5 /\ ~Blocked /\ UNCHANGED <<pc, outcome, status, tree, claimed>>
    BY <1>5 DEF CheckAlertMetric, AtStage, fixing
  <2>2. PICK incident \in BOOLEAN, dev \in BOOLEAN, better \in BOOLEAN :
            /\ readings' = [readings EXCEPT !.incident = incident, !.dev = dev, !.better = better]
            /\ StageEnds(Only("alert_metric_recovered",
                              IF incident /\ dev THEN Pass(better) ELSE "inconclusive"))
    BY <1>5 DEF CheckAlertMetric
  <2> DEFINE result == IF incident /\ dev THEN Pass(better) ELSE "inconclusive"
  <2>3. result \in {"passed", "failed", "inconclusive"} /\ (result = "passed" => incident /\ dev /\ better)
    BY DEF Pass
  <2>4. StageEnds(Only("alert_metric_recovered", result))
    BY <2>2
  <2>5. /\ readings' \in Readings
        /\ readings'.incident = incident /\ readings'.dev = dev /\ readings'.better = better
    BY <1>t, <2>2 DEF Readings
  <2> HIDE DEF result
  <2>6. result = "passed" /\ stage' = 6 => Established'
    BY <1>t, <2>1, <2>3, <2>5 DEF Established
  <2>7. "alert_metric_recovered" \in Stages[stage] /\ result \in Results \ {"none"}
    BY <2>1, <2>3, StagesAre DEF Results
  <2>8. QED
    BY <1>t, <2>1, <2>3, <2>4, <2>5, <2>6, <2>7, OneCheck
<1>6. CASE CheckSideEffects
  <2>1. /\ pc = "verify" /\ stage = 6 /\ ~Blocked /\ UNCHANGED <<pc, outcome, status, tree, claimed>>
    BY <1>6 DEF CheckSideEffects, AtStage, fixing
  <2>2. PICK result \in {"passed", "failed", "inconclusive"}, elevated \in BOOLEAN :
            /\ StageEnds(Only("no_side_effects", result))
            /\ \/ readings' = [readings EXCEPT !.elevated = elevated]
               \/ UNCHANGED readings /\ result = "inconclusive"
            /\ result = "passed" => ~elevated
    <3>1. CASE StageEnds(Only("no_side_effects", "inconclusive")) /\ UNCHANGED readings
      BY <3>1
    <3>2. ASSUME NEW metric \in [Range(OtherMetrics) -> {"elevated", "normal", "unknown"}],
                 readings' = [readings EXCEPT !.elevated = "elevated" \in Range(metric)],
                 StageEnds(Only("no_side_effects",
                                IF OtherMetrics # <<>> /\ Range(metric) = {"unknown"}
                                THEN "inconclusive" ELSE Pass(~("elevated" \in Range(metric)))))
          PROVE  \E result \in {"passed", "failed", "inconclusive"}, elevated \in BOOLEAN :
                     /\ StageEnds(Only("no_side_effects", result))
                     /\ readings' = [readings EXCEPT !.elevated = elevated]
                     /\ result = "passed" => ~elevated
      <4> DEFINE elevated == "elevated" \in Range(metric)
                 result == IF OtherMetrics # <<>> /\ Range(metric) = {"unknown"}
                           THEN "inconclusive" ELSE Pass(~elevated)
      <4>1. elevated \in BOOLEAN
        OBVIOUS
      <4>2. result \in {"passed", "failed", "inconclusive"} /\ (result = "passed" => ~elevated)
        BY DEF Pass
      <4>3. StageEnds(Only("no_side_effects", result)) /\ readings' = [readings EXCEPT !.elevated = elevated]
        BY <3>2
      <4> HIDE DEF elevated, result
      <4>4. QED
        BY <4>1, <4>2, <4>3
    <3>3. QED
      BY <1>6, <3>1, <3>2 DEF CheckSideEffects
  <2>3. /\ readings' \in Readings
        /\ readings'.incident = readings.incident /\ readings'.dev = readings.dev
        /\ readings'.better = readings.better
        /\ result = "passed" => ~readings'.elevated
    BY <1>t, <2>2 DEF Readings
  <2>4. result = "passed" /\ stage' = 7 => Established'
    BY <1>t, <2>1, <2>3 DEF Established
  <2>5. "no_side_effects" \in Stages[stage] /\ result \in Results \ {"none"}
    BY <2>1, StagesAre DEF Results
  <2>6. QED
    BY <1>t, <2>1, <2>2, <2>3, <2>4, <2>5, OneCheck
<1>7. CASE VerifierOutOfBudget
  <2>1. /\ pc = "verify" /\ stage \in 1 .. 6 /\ ~Blocked /\ UNCHANGED <<pc, outcome, readings>>
        /\ StageEnds(Only(StageOpens[stage], "inconclusive"))
    BY <1>t, <1>7, StagesAre DEF VerifierOutOfBudget, AtStage
  <2>2. StageOpens[stage] \in Stages[stage]
    BY <2>1, StagesAre DEF StageOpens
  <2>3. "inconclusive" \in Results \ {"none"}
    BY DEF Results
  <2>4. QED
    BY <1>t, <2>1, <2>2, <2>3, OneCheck
<1>8. CASE SkipStage
  <2>1. /\ pc = "verify" /\ stage \in 1 .. 6 /\ Blocked /\ UNCHANGED <<pc, outcome, readings>>
        /\ StageEnds(<<>>)
    BY <1>t, <1>8, StagesAre DEF SkipStage
  <2> DEFINE produced == <<>>
  <2>2. StageEnds(produced) /\ \A n \in DOMAIN produced : n \in Stages[stage] /\ produced[n] \in Results \ {"none"}
    BY <2>1
  <2> HIDE DEF produced
  <2>3. QED
    BY <1>t, <2>1, <2>2, StageStep
<1>9. CASE Verified
  <2> DEFINE verdict == Verdict(Range(checks))
  <2>1. /\ pc = "verify" /\ stage = 7 /\ UNCHANGED <<stage, checks, status, polls, readings, tree, claimed, named>>
        /\ IF verdict = "passed" THEN pc' = "review" /\ UNCHANGED outcome ELSE pc' = "done" /\ outcome' = verdict
    BY <1>t, <1>9, StagesAre DEF Verified, verifying, fixing, End
  <2>2. verdict \in {"passed", "failed", "inconclusive"}
    BY DEF Verdict
  <2>3. verdict = "passed" => \A n \in CheckNames : checks[n] = "passed"
    <3>1. \A n \in CheckNames : checks[n] \in Range(checks) /\ checks[n] \in Results
      BY <1>t DEF Range
    <3>2. \A n \in CheckNames : checks[n] # "none"
      BY <2>1, EveryCheckHasAStage DEF Progress, MadeInOrder
    <3>3. verdict = "passed" => Range(checks) \intersect {"failed", "inconclusive", "skipped"} = {}
      BY DEF Verdict
    <3>4. QED
      BY <3>1, <3>2, <3>3 DEF Results
  <2> HIDE DEF verdict
  <2>4. ChecksTyped' /\ MadeInOrder' /\ (~Blocked' => Established')
    BY <2>1 DEF Progress, ChecksTyped, MadeInOrder, Blocked, Established
  <2>5. outcome' # "approve_for_human"
    BY <1>t, <2>1, <2>2
  <2>6. QED
    BY <2>1, <2>2, <2>3, <2>4, <2>5 DEF Progress
<1>10. QED
  BY <1>1, <1>2, <1>3, <1>4, <1>5, <1>6, <1>7, <1>8, <1>9, DiffEstablishes DEF Verify

\* The Critic approves what passed, and what the evidence names.
LEMMA CriticStep ==
    ASSUME Progress, Review PROVE Progress'
<1>1. /\ pc = "review" /\ pc' = "done"
      /\ UNCHANGED <<stage, checks, status, polls, readings, named, tree, claimed>>
  BY DEF Review, End, verifying, fixing
<1>2. stage = 7 /\ \A n \in CheckNames : checks[n] = "passed"
  BY <1>1 DEF Progress
<1>3. ~Blocked
  BY <1>2 DEF Blocked
<1>4. Established
  BY <1>3 DEF Progress
<1>5. outcome' = "approve_for_human" => (named # {} => tree \subseteq named)
  <2>1. PICK readable \in BOOLEAN, fromModel \in LlmConcerns :
            outcome' = CriticDecision(RuleConcerns(readable) \union fromModel)
    BY DEF Review, End
  <2>2. outcome' = "approve_for_human" => "major" \notin RuleConcerns(readable) \union fromModel
    BY <2>1 DEF CriticDecision
  <2>3. QED
    BY <2>2 DEF RuleConcerns, ScopeConcerns
<1>6. outcome' = "approve_for_human" => ApprovedWasChecked'
  BY <1>1, <1>2, <1>4, <1>5 DEF ApprovedWasChecked, Established
<1>7. ChecksTyped' /\ MadeInOrder' /\ (~Blocked' => Established')
  BY <1>1, <1>4 DEF Progress, ChecksTyped, MadeInOrder, Established
<1>8. QED
  BY <1>1, <1>6, <1>7 DEF Progress

LEMMA ProgressStep ==
    ASSUME Progress, [Next]_vars PROVE Progress'
<1>t. /\ pc # "done" => outcome # "approve_for_human"
      /\ pc \in {"collect", "reason", "proceed", "fix"} => stage = 1
  BY DEF Progress
<1>1. CASE Investigate
  <2>1. /\ UNCHANGED verifying /\ UNCHANGED <<tree, claimed>> /\ pc \in {"collect", "reason"}
        /\ pc' \in {"collect", "reason", "proceed", "done"}
        /\ UNCHANGED outcome \/ outcome' = "escalated"
    <3>1. CASE Collect \/ OutOfBudget \/ AskModel \/ ModelAsks
      BY <3>1 DEF Collect, OutOfBudget, AskModel, ModelAsks, fixing
    <3>2. ASSUME NEW ranked, Decide(ranked)
          PROVE  /\ UNCHANGED verifying /\ UNCHANGED <<tree, claimed>> /\ pc' \in {"proceed", "done"}
                 /\ UNCHANGED outcome \/ outcome' = "escalated"
      BY <3>2 DEF Decide, End, fixing
    <3>3. CASE Answer \/ ModelAnswers \/ FallBack
      BY <3>2, <3>3 DEF Answer, ModelAnswers, FallBack
    <3>4. QED
      BY <1>1, <3>1, <3>3 DEF Investigate
  <2>2. QED
    BY <1>t, <2>1, OutsideKeepsProgress
<1>2. CASE Fix
  <2>1. /\ UNCHANGED verifying /\ pc \in {"proceed", "fix"} /\ pc' \in {"fix", "verify", "done"}
        /\ UNCHANGED outcome \/ outcome' \in {"no_fix", "fix_failed"}
    BY <1>2 DEF Fix, StartFix, FixerTold, FixerUsesTool, Propose, NoProposal, End
  <2>2. QED
    BY <1>t, <2>1, OutsideKeepsProgress
<1>3. CASE ModelReplies
  <2>1. UNCHANGED verifying /\ UNCHANGED <<tree, claimed, pc, outcome>> /\ pc \in {"reason", "fix"}
    BY <1>3 DEF ModelReplies, MoreReplies, fixing
  <2>2. QED
    BY <1>t, <2>1, OutsideKeepsProgress
<1>4. CASE NodeRaises
  <2>1. UNCHANGED verifying /\ UNCHANGED <<tree, claimed>> /\ pc' = "done" /\ outcome' = "crashed"
    BY <1>4 DEF NodeRaises, End, fixing
  <2>2. QED
    BY <2>1, OutsideKeepsProgress
<1>5. CASE TreeDisturbed
  <2>1. UNCHANGED verifying /\ UNCHANGED <<pc, outcome>> /\ pc = "verify" /\ stage = 1
    BY <1>5 DEF TreeDisturbed
  <2>2. QED
    BY <1>t, <2>1, OutsideKeepsProgress
<1>6. CASE UNCHANGED vars
  BY <1>6 DEF vars, Progress, ChecksTyped, MadeInOrder, Blocked, Established, ApprovedWasChecked
<1>7. QED
  BY <1>1, <1>2, <1>3, <1>4, <1>5, <1>6, VerifierStep, CriticStep DEF Next

LEMMA InitiallyNothingChecked == Init => Progress
<1> SUFFICES ASSUME Init PROVE Progress
  OBVIOUS
<1>1. /\ pc = "collect" /\ outcome = "none" /\ stage = 1 /\ checks = [n \in CheckNames |-> "none"]
      /\ readings = NotRead
  BY DEF Init
<1>2. ChecksTyped
  <2>1. checks \in [CheckNames -> Results]
    BY <1>1 DEF Results
  <2>2. readings \in Readings
    BY <1>1 DEF NotRead, Readings
  <2>3. QED
    BY <1>1, <2>1, <2>2 DEF ChecksTyped
<1>3. MadeInOrder
  BY <1>1, EveryCheckHasAStage DEF MadeInOrder
<1>4. QED
  BY <1>1, <1>2, <1>3 DEF Progress, Established

\* What reaches a person was checked to the end, on a confirmed deploy and on metrics that were
\* really there: whatever the tools answer, the model claims, and others do to the worktree
\* before the diff is read.
THEOREM OnlyTheCheckedIsApproved == Spec => []ApprovedWasChecked
<1>1. Init => Progress
  BY InitiallyNothingChecked
<1>2. Progress /\ [Next]_vars => Progress'
  BY ProgressStep
<1>3. Progress => ApprovedWasChecked
  BY DEF Progress, ApprovedWasChecked
<1>4. QED
  BY <1>1, <1>2, <1>3, PTL DEF Spec

-----------------------------------------------------------------------------
(* The confidence of an issue type. *)
Scored == {"application_error", "performance_degradation", "dependency_failure", "resource_saturation"}
Types == Scored \union {"unknown"}

\* A confidence for every issue type.
Scores == [Types -> 0 .. 1000]

LEMMA TypesAre == DOMAIN SUPPORT = Scored /\ Range(IssueTypes) = Types
<1>1. DOMAIN SUPPORT = Scored
  BY DEF SUPPORT, Scored
<1>2. /\ DOMAIN IssueTypes = 1 .. 5
      /\ IssueTypes[1] = "application_error" /\ IssueTypes[2] = "dependency_failure"
      /\ IssueTypes[3] = "performance_degradation" /\ IssueTypes[4] = "resource_saturation"
      /\ IssueTypes[5] = "unknown"
  BY DEF IssueTypes
<1>3. {IssueTypes[i] : i \in 1 .. 5} = Types
  BY <1>2, SMTT(30) DEF Types, Scored
<1>4. QED
  BY <1>1, <1>2, <1>3 DEF Range

LEMMA SumsOfFour ==
    ASSUME NEW a \in Nat, NEW b \in Nat, NEW c \in Nat, NEW d \in Nat
    PROVE  /\ a + b + c + d \in Nat
           /\ \A i, j, k, l \in Nat :
                 a <= i /\ b <= j /\ c <= k /\ d <= l => a + b + c + d <= i + j + k + l
  OBVIOUS

LEMMA WeightCounts ==
    ASSUME NEW signals, NEW tags, Len(signals) \in 1 .. 4,
           \A n \in 1 .. Len(signals) : signals[n].weight \in Nat
    PROVE  Weight(signals, tags) \in Nat
<1> DEFINE Observed(n) == IF n <= Len(signals) /\ Matches(signals[n], tags) THEN signals[n].weight ELSE 0
<1>1. Weight(signals, tags) = Observed(1) + Observed(2) + Observed(3) + Observed(4)
  BY DEF Weight
<1>2. \A n \in 1 .. 4 : Observed(n) \in Nat
  OBVIOUS
<1> HIDE DEF Observed
<1>3. Observed(1) \in Nat /\ Observed(2) \in Nat /\ Observed(3) \in Nat /\ Observed(4) \in Nat
  BY <1>2
<1>4. QED
  BY <1>1, <1>3, SumsOfFour

\* A list of four signals whose weights sum to 1000.
SumsToOne(signals) ==
    Len(signals) = 4 /\ \E i, j, k, l \in Nat :
        /\ signals[1].weight = i /\ signals[2].weight = j /\ signals[3].weight = k /\ signals[4].weight = l
        /\ i + j + k + l = 1000

LEMMA FourSignals ==
    ASSUME NEW signals, NEW tags, SumsToOne(signals)
    PROVE  Weight(signals, tags) \in 0 .. 1000
<1>p. PICK i, j, k, l \in Nat :
        /\ signals[1].weight = i /\ signals[2].weight = j /\ signals[3].weight = k /\ signals[4].weight = l
        /\ i + j + k + l = 1000
  BY DEF SumsToOne
<1> DEFINE Observed(n) == IF n <= Len(signals) /\ Matches(signals[n], tags) THEN signals[n].weight ELSE 0
           a == Observed(1)
           b == Observed(2)
           c == Observed(3)
           d == Observed(4)
<1>1. Weight(signals, tags) = a + b + c + d
  BY DEF Weight
<1>2. /\ a \in Nat /\ a <= i /\ b \in Nat /\ b <= j
      /\ c \in Nat /\ c <= k /\ d \in Nat /\ d <= l
  BY <1>p DEF SumsToOne
<1> HIDE DEF a, b, c, d
<1>3. a + b + c + d \in Nat /\ a + b + c + d <= i + j + k + l
  BY <1>2, SumsOfFour
<1>4. QED
  BY <1>p, <1>1, <1>3

\* scoring.py:3 "weights sum to 1.0", for every issue type.
LEMMA SupportSumsToOne ==
    ASSUME NEW t \in Scored, NEW tags
    PROVE  Weight(SUPPORT[t], tags) \in 0 .. 1000
<1>1. CASE t = "application_error"
  <2>1. /\ Len(SUPPORT[t]) = 4
        /\ SUPPORT[t][1].weight = 300 /\ SUPPORT[t][2].weight = 250
        /\ SUPPORT[t][3].weight = 300 /\ SUPPORT[t][4].weight = 150
    BY <1>1 DEF SUPPORT, Signal
  <2>2. \E i, j, k, l \in Nat :
          /\ SUPPORT[t][1].weight = i /\ SUPPORT[t][2].weight = j
          /\ SUPPORT[t][3].weight = k /\ SUPPORT[t][4].weight = l
          /\ i + j + k + l = 1000
    <3> WITNESS 300 \in Nat, 250 \in Nat, 300 \in Nat, 150 \in Nat
    <3> QED
      BY <2>1
  <2>3. SumsToOne(SUPPORT[t])
    BY <2>1, <2>2 DEF SumsToOne
  <2>4. QED
    BY <2>3, FourSignals
<1>2. CASE t = "performance_degradation"
  <2>1. /\ Len(SUPPORT[t]) = 4
        /\ SUPPORT[t][1].weight = 300 /\ SUPPORT[t][2].weight = 250
        /\ SUPPORT[t][3].weight = 300 /\ SUPPORT[t][4].weight = 150
    BY <1>2 DEF SUPPORT, Signal
  <2>2. \E i, j, k, l \in Nat :
          /\ SUPPORT[t][1].weight = i /\ SUPPORT[t][2].weight = j
          /\ SUPPORT[t][3].weight = k /\ SUPPORT[t][4].weight = l
          /\ i + j + k + l = 1000
    <3> WITNESS 300 \in Nat, 250 \in Nat, 300 \in Nat, 150 \in Nat
    <3> QED
      BY <2>1
  <2>3. SumsToOne(SUPPORT[t])
    BY <2>1, <2>2 DEF SumsToOne
  <2>4. QED
    BY <2>3, FourSignals
<1>3. CASE t = "dependency_failure"
  <2>1. /\ Len(SUPPORT[t]) = 4
        /\ SUPPORT[t][1].weight = 300 /\ SUPPORT[t][2].weight = 350
        /\ SUPPORT[t][3].weight = 150 /\ SUPPORT[t][4].weight = 200
    BY <1>3 DEF SUPPORT, Signal, Nonspecific
  <2>2. \E i, j, k, l \in Nat :
          /\ SUPPORT[t][1].weight = i /\ SUPPORT[t][2].weight = j
          /\ SUPPORT[t][3].weight = k /\ SUPPORT[t][4].weight = l
          /\ i + j + k + l = 1000
    <3> WITNESS 300 \in Nat, 350 \in Nat, 150 \in Nat, 200 \in Nat
    <3> QED
      BY <2>1
  <2>3. SumsToOne(SUPPORT[t])
    BY <2>1, <2>2 DEF SumsToOne
  <2>4. QED
    BY <2>3, FourSignals
<1>4. CASE t = "resource_saturation"
  <2>1. /\ Len(SUPPORT[t]) = 4
        /\ SUPPORT[t][1].weight = 400 /\ SUPPORT[t][2].weight = 300
        /\ SUPPORT[t][3].weight = 100 /\ SUPPORT[t][4].weight = 200
    BY <1>4 DEF SUPPORT, Signal, Nonspecific
  <2>2. \E i, j, k, l \in Nat :
          /\ SUPPORT[t][1].weight = i /\ SUPPORT[t][2].weight = j
          /\ SUPPORT[t][3].weight = k /\ SUPPORT[t][4].weight = l
          /\ i + j + k + l = 1000
    <3> WITNESS 400 \in Nat, 300 \in Nat, 100 \in Nat, 200 \in Nat
    <3> QED
      BY <2>1
  <2>3. SumsToOne(SUPPORT[t])
    BY <2>1, <2>2 DEF SumsToOne
  <2>4. QED
    BY <2>3, FourSignals
<1>5. QED
  BY <1>1, <1>2, <1>3, <1>4 DEF Scored

LEMMA PenaltyCounts ==
    ASSUME NEW t \in Scored, NEW tags
    PROVE  Weight(CONTRADICT[t], tags) \in Nat
<1> DEFINE s == CONTRADICT[t]
<1>1. Len(s) \in 1 .. 4 /\ \A i \in 1 .. Len(s) : s[i].weight \in Nat
  <2>1. CASE t = "application_error"
    <3>1. Len(s) = 3 /\ s[1].weight = 50 /\ s[2].weight = 100 /\ s[3].weight = 200
      BY <2>1 DEF CONTRADICT, Signal, Nonspecific, NormalUnlessAnomalous
    <3>2. QED
      BY <3>1
  <2>2. CASE t = "performance_degradation"
    <3>1. Len(s) = 2 /\ s[1].weight = 100 /\ s[2].weight = 300
      BY <2>2 DEF CONTRADICT, Signal, NormalUnlessAnomalous
    <3>2. QED
      BY <3>1
  <2>3. CASE t = "dependency_failure"
    <3>1. Len(s) = 2 /\ s[1].weight = 100 /\ s[2].weight = 200
      BY <2>3 DEF CONTRADICT, Signal, NormalUnlessAnomalous
    <3>2. QED
      BY <3>1
  <2>4. CASE t = "resource_saturation"
    <3>1. Len(s) = 1 /\ s[1].weight = 350
      BY <2>4 DEF CONTRADICT, Signal, NormalUnlessAnomalous
    <3>2. QED
      BY <3>1
  <2>5. QED
    BY <2>1, <2>2, <2>3, <2>4 DEF Scored
<1> HIDE DEF s
<1>2. QED
  BY <1>1, WeightCounts DEF s

LEMMA ConfidenceIsAFraction ==
    ASSUME NEW t \in Scored, NEW tags
    PROVE  ScoreIssueType(t, tags) \in 0 .. 1000
<1>w. Weight(SUPPORT[t], tags) \in 0 .. 1000
  BY SupportSumsToOne
<1>p. Weight(CONTRADICT[t], tags) \in Nat
  BY PenaltyCounts
<1> DEFINE weight == Weight(SUPPORT[t], tags)
           penalty == Weight(CONTRADICT[t], tags)
           net == weight - penalty
<1>0. weight \in 0 .. 1000 /\ penalty \in Nat
  BY <1>w, <1>p
<1> HIDE DEF weight, penalty
<1>1. net \in Int /\ net <= 1000
  BY <1>0
<1> HIDE DEF net
<1>2. \E m \in {0, net} : \A y \in {0, net} : m >= y
  BY <1>1
<1>3. Max({0, net}) \in {0, net} /\ Max({0, net}) >= 0
  BY <1>1, <1>2 DEF Max
<1>4. QED
  BY <1>1, <1>3 DEF ScoreIssueType, net, weight, penalty

LEMMA MaxOfFour ==
    ASSUME NEW a \in Int, NEW b \in Int, NEW c \in Int, NEW d \in Int
    PROVE  LET m == Max({a, b, c, d}) IN m \in {a, b, c, d} /\ m >= a /\ m >= b /\ m >= c /\ m >= d
<1>1. \E m \in {a, b, c, d} : \A y \in {a, b, c, d} : m >= y
  OBVIOUS
<1>2. QED
  BY <1>1 DEF Max

\* scoring.py:122: every type has a confidence, and where nothing scores a tenth, `unknown` does.
LEMMA ScoresAreFractions ==
    ASSUME NEW L, NEW score \in ScoreAll(L)
    PROVE  score \in Scores /\ \E t \in Types : score[t] >= 100
<1>1. PICK tags : score = WithUnknown([t \in Scored |-> ScoreIssueType(t, tags)])
  BY TypesAre DEF ScoreAll
<1> DEFINE scored == [t \in Scored |-> ScoreIssueType(t, tags)]
           strongest == Max(Range(scored))
<1>2. scored \in [Scored -> 0 .. 1000]
  BY ConfidenceIsAFraction
<1>3. score = [t \in Types |-> IF t = "unknown" THEN (1000 - strongest) \div 2 ELSE scored[t]]
  BY <1>1, TypesAre DEF WithUnknown
<1> HIDE DEF scored
<1>4. Range(scored) = {scored["application_error"], scored["performance_degradation"],
                       scored["dependency_failure"], scored["resource_saturation"]}
  BY <1>2 DEF Range, Scored
<1>5. \A t \in Scored : scored[t] \in 0 .. 1000 /\ scored[t] \in Int
  BY <1>2
<1>6. strongest \in 0 .. 1000 /\ \E t \in Scored : scored[t] = strongest
  <2> DEFINE a == scored["application_error"]
             b == scored["performance_degradation"]
             c == scored["dependency_failure"]
             d == scored["resource_saturation"]
  <2>1. a \in Int /\ b \in Int /\ c \in Int /\ d \in Int
    BY <1>5 DEF Scored
  <2> HIDE DEF a, b, c, d
  <2>2. strongest = Max({a, b, c, d})
    BY <1>4 DEF a, b, c, d
  <2>3. strongest \in {a, b, c, d}
    BY <2>1, <2>2, MaxOfFour
  <2>4. QED
    BY <1>5, <2>3 DEF Scored, a, b, c, d
<1> HIDE DEF strongest
<1>7. (1000 - strongest) \div 2 \in 0 .. 1000 /\ (strongest < 100 => (1000 - strongest) \div 2 >= 100)
  BY <1>6
<1>8. score \in Scores
  BY <1>2, <1>3, <1>5, <1>7 DEF Scores, Types
<1>9. \E t \in Types : score[t] >= 100
  <2>1. PICK t \in Scored : scored[t] = strongest
    BY <1>6
  <2>2. t # "unknown"
    BY <2>1 DEF Scored
  <2>3. score[t] = strongest /\ score["unknown"] = (1000 - strongest) \div 2
    BY <1>3, <2>1, <2>2 DEF Types
  <2>4. QED
    BY <1>6, <1>7, <2>3 DEF Types
<1>10. QED
  BY <1>8, <1>9

-----------------------------------------------------------------------------
(* The ranking of hypotheses. *)
Hypothesis == [type : Types, confidence : 0 .. 1000]

LEMMA SomeTypes ==
    ASSUME NEW types \in SUBSET Types
    PROVE  /\ IsFiniteSet(types) /\ Cardinality(types) \in Nat
           /\ types # {} => Cardinality(types) >= 1
           /\ Cardinality(types) = 1 => \E t : types = {t}
<1>1. IsFiniteSet(Types)
  <2> DEFINE one == {"application_error"}
             two == one \union {"performance_degradation"}
             three == two \union {"dependency_failure"}
             four == three \union {"resource_saturation"}
  <2>1. Types = four \union {"unknown"}
    BY DEF Types, Scored
  <2>2. IsFiniteSet(one)
    BY FS_Singleton
  <2> HIDE DEF one
  <2>3. IsFiniteSet(two)
    BY <2>2, FS_AddElement
  <2> HIDE DEF two
  <2>4. IsFiniteSet(three)
    BY <2>3, FS_AddElement
  <2> HIDE DEF three
  <2>5. IsFiniteSet(four)
    BY <2>4, FS_AddElement
  <2> HIDE DEF four
  <2>6. QED
    BY <2>1, <2>5, FS_AddElement
<1>2. IsFiniteSet(types)
  BY <1>1, FS_Subset
<1>3. Cardinality(types) \in Nat
  BY <1>2, FS_CardinalityType
<1>4. types # {} => Cardinality(types) # 0
  BY <1>2, FS_EmptySet
<1>5. Cardinality(types) = 1 => \E t : types = {t}
  BY <1>2, FS_Singleton
<1>6. QED
  BY <1>2, <1>3, <1>4, <1>5

\* investigator.py:104: what a ranking lists, and that its runner-up leads whatever else there was.
LEMMA RankingLeads ==
    ASSUME NEW score \in Scores, NEW types \in SUBSET Types, types # {}, NEW h \in Rank(types, score)
    PROVE  /\ h \in Seq(Hypothesis) /\ Len(h) \in 1 .. 3
           /\ h[1].type \in types /\ h[1].confidence = score[h[1].type]
           /\ \A t \in types \ {h[1].type} : Len(h) > 1 /\ h[2].confidence >= score[t]
<1> DEFINE n == Min({Cardinality(types), MAX_HYPOTHESES})
<1>1. n \in 1 .. 3 /\ (n = 1 => Cardinality(types) = 1)
  <2>1. Cardinality(types) \in Nat /\ Cardinality(types) >= 1
    BY SomeTypes
  <2>2. \E m \in {Cardinality(types), 3} : \A y \in {Cardinality(types), 3} : m <= y
    BY <2>1
  <2>3. QED
    BY <2>1, <2>2 DEF Min, MAX_HYPOTHESES
<1> HIDE DEF n
<1>2. PICK r \in [1 .. n -> types] :
        /\ h = Hypotheses(r, score)
        /\ \A i, j \in DOMAIN r : i < j => Above(r[i], r[j], score)
        /\ \A i \in DOMAIN r, t \in types \ Range(r) : Above(r[i], t, score)
  BY DEF Rank, n
<1>3. h = [i \in 1 .. n |-> [type |-> r[i], confidence |-> score[r[i]]]]
  BY <1>2 DEF Hypotheses
<1>4. \A i \in 1 .. n : r[i] \in types /\ h[i] \in Hypothesis /\ h[i].type = r[i] /\ h[i].confidence = score[r[i]]
  <2> SUFFICES ASSUME NEW i \in 1 .. n
               PROVE  r[i] \in types /\ h[i] \in Hypothesis /\ h[i].type = r[i] /\ h[i].confidence = score[r[i]]
    OBVIOUS
  <2> DEFINE type == r[i]
  <2>1. type \in types /\ type \in Types
    BY <1>2
  <2> HIDE DEF type
  <2> DEFINE x == score[type]
  <2>2. x \in 0 .. 1000
    <3>1. \A t \in Types : score[t] \in 0 .. 1000
      BY DEF Scores
    <3>2. QED
      BY <2>1, <3>1
  <2>3. h[i] = [type |-> type, confidence |-> x]
    BY <1>3 DEF type
  <2> HIDE DEF x
  <2>4. h[i] \in Hypothesis /\ h[i].type = type /\ h[i].confidence = x
    BY <2>1, <2>2, <2>3 DEF Hypothesis
  <2>5. QED
    BY <2>1, <2>4 DEF type, x
<1>5. h \in Seq(Hypothesis) /\ Len(h) = n
  BY <1>1, <1>3, <1>4
<1>6. \A t, u \in types : Above(t, u, score) => score[t] >= score[u]
  <2>1. \A t \in types : score[t] \in 0 .. 1000
    BY DEF Scores
  <2>2. ASSUME NEW t \in types, NEW u \in types, Above(t, u, score) PROVE score[t] >= score[u]
    <3> DEFINE x == score[t]
               y == score[u]
    <3>1. x \in 0 .. 1000 /\ y \in 0 .. 1000 /\ (x > y \/ x = y)
      BY <2>1, <2>2 DEF Above
    <3> HIDE DEF x, y
    <3>2. x >= y
      BY <3>1
    <3>3. QED
      BY <3>2 DEF x, y
  <2>3. QED
    BY <2>2
<1>7. ASSUME NEW t \in types, t # r[1] PROVE n > 1 /\ score[r[2]] >= score[t]
  <2>1. n > 1
    <3>1. SUFFICES ASSUME n = 1 PROVE FALSE
      BY <1>1
    <3>2. PICK u : types = {u}
      BY <1>1, <3>1, SomeTypes
    <3>3. QED
      BY <1>1, <1>4, <1>7, <3>2
  <2>2. 2 \in 1 .. n /\ DOMAIN r = 1 .. n /\ score[r[2]] \in 0 .. 1000
    BY <1>1, <1>4, <2>1 DEF Scores
  <2>3. CASE t \in Range(r)
    <3>1. PICK j \in 1 .. n : t = r[j]
      BY <2>2, <2>3 DEF Range
    <3>2. j = 2 \/ (j > 2 /\ Above(r[2], r[j], score))
      BY <1>2, <1>7, <2>2, <3>1
    <3>3. score[r[2]] >= score[r[j]]
      <4>1. CASE j = 2
        <5> DEFINE x == score[r[2]]
        <5>1. x \in 0 .. 1000 /\ score[r[j]] = x
          BY <2>2, <4>1
        <5> HIDE DEF x
        <5>2. x >= x
          BY <5>1
        <5>3. QED
          BY <5>1, <5>2 DEF x
      <4>2. CASE j > 2 /\ Above(r[2], r[j], score)
        BY <1>4, <1>6, <2>2, <4>2
      <4>3. QED
        BY <3>2, <4>1, <4>2
    <3>4. QED
      BY <2>1, <3>1, <3>3
  <2>4. CASE t \notin Range(r)
    BY <1>2, <1>4, <1>6, <2>1, <2>2, <2>4
  <2>5. QED
    BY <2>3, <2>4
<1>8. QED
  BY <1>1, <1>4, <1>5, <1>7

\* What both rankings list: some type, and every type with three tenths or more.
LEMMA RankedTypes ==
    ASSUME NEW L, NEW score \in ScoreAll(L)
    PROVE  /\ score \in Scores
           /\ \E types \in SUBSET Types : /\ types # {} /\ HeuristicAnswer(score) = Rank(types, score)
                                          /\ \A t \in Types \ types : score[t] < 300
           /\ \A proposed \in (SUBSET Types) \ {{}} :
                \E types \in SUBSET Types : /\ types # {} /\ Merge(score, proposed) = Rank(types, score)
                                            /\ \A t \in Types \ types : score[t] < 300
<1>1. score \in Scores /\ \E t \in Types : score[t] >= 100
  BY ScoresAreFractions
<1>2. DOMAIN score = Types /\ \A t \in Types : score[t] \in 0 .. 1000
  BY <1>1 DEF Scores
<1>3. \E types \in SUBSET Types : /\ types # {} /\ HeuristicAnswer(score) = Rank(types, score)
                                  /\ \A t \in Types \ types : score[t] < 300
  <2> DEFINE listed == {t \in DOMAIN score : score[t] >= 100}
  <2>1. listed \in SUBSET Types /\ listed # {} /\ \A t \in Types \ listed : score[t] < 300
    BY <1>1, <1>2
  <2>2. HeuristicAnswer(score) = Rank(listed, score)
    BY DEF HeuristicAnswer
  <2> HIDE DEF listed
  <2>3. QED
    BY <2>1, <2>2
<1>4. ASSUME NEW proposed \in (SUBSET Types) \ {{}}
      PROVE  \E types \in SUBSET Types : /\ types # {} /\ Merge(score, proposed) = Rank(types, score)
                                         /\ \A t \in Types \ types : score[t] < 300
  <2> DEFINE listed == proposed \union {t \in DOMAIN score : score[t] >= 300}
  <2>1. listed \in SUBSET Types /\ listed # {} /\ \A t \in Types \ listed : score[t] < 300
    <3>1. proposed \subseteq Types /\ proposed # {}
      BY <1>4
    <3>2. \A t \in Types : t \notin listed => ~(score[t] >= 300)
      BY <1>2
    <3>3. QED
      BY <1>2, <3>1, <3>2
  <2>2. Merge(score, proposed) = Rank(listed, score)
    BY DEF Merge
  <2> HIDE DEF listed
  <2>3. QED
    BY <2>1, <2>2
<1>5. QED
  BY <1>1, <1>3, <1>4

\* Where the rankings come from: a decision of the Investigator, on the ledger it leaves alone.
LEMMA DecisionsRank ==
    ASSUME Answer \/ ModelAnswers \/ FallBack
    PROVE  /\ UNCHANGED ledger
           /\ \E score \in ScoreAll(ledger), types \in SUBSET Types :
                 /\ score \in Scores /\ types # {} /\ \A t \in Types \ types : score[t] < 300
                 /\ Decide(Rank(types, score))
<1>1. CASE Answer \/ FallBack
  <2>1. PICK score \in ScoreAll(ledger) : Decide(HeuristicAnswer(score))
    BY <1>1 DEF Answer, FallBack
  <2>2. QED
    BY <2>1, RankedTypes DEF Decide
<1>2. CASE ModelAnswers
  <2>1. PICK score \in ScoreAll(ledger), proposed \in (SUBSET Types) \ {{}} : Decide(Merge(score, proposed))
    BY <1>2, TypesAre DEF ModelAnswers
  <2>2. QED
    BY <2>1, RankedTypes DEF Decide
<1>3. QED
  BY <1>1, <1>2

\* A ranking that a run goes on with leads by the margin every type it lists, and so every type that
\* reaches the three tenths at which a type is listed.
LEMMA LeadIsClear ==
    ASSUME NEW score \in Scores, NEW types \in SUBSET Types, types # {},
           \A t \in Types \ types : score[t] < 300,
           NEW h \in Rank(types, score), Proceeds(h)
    PROVE  LET top == h[1].type IN
           /\ top \in Types \ {"unknown"} /\ score[top] >= MinConfidence
           /\ \A t \in Types \ {top} : score[t] >= 300 => score[top] - score[t] >= MinMargin
<1> DEFINE top == h[1].type
           first == h[1].confidence
           second == h[2].confidence
<1>1. /\ h \in Seq(Hypothesis) /\ Len(h) \in 1 .. 3 /\ top \in types /\ first = score[top]
      /\ \A t \in types \ {top} : Len(h) > 1 /\ second >= score[t]
  BY RankingLeads
<1>2. /\ top # "unknown" /\ first >= MinConfidence
      /\ Len(h) > 1 => first - second >= MinMargin
  BY <1>1 DEF Proceeds
<1>3. \A t \in Types : score[t] \in 0 .. 1000
  BY DEF Scores
<1>4. Len(h) > 1 => second \in 0 .. 1000
  <2>1. Len(h) > 1 => h[2] \in Hypothesis
    BY <1>1
  <2>2. QED
    BY <2>1 DEF Hypothesis
<1>5. MinConfidence \in 1 .. 1000 /\ MinMargin \in 0 .. 999
  BY RulesAssumption DEF RulesAssumption
<1>6. first \in 0 .. 1000
  <2>1. top \in Types
    BY <1>1
  <2> HIDE DEF top
  <2>2. score[top] \in 0 .. 1000
    BY <1>3, <2>1
  <2>3. QED
    BY <1>1, <2>2
<1> HIDE DEF top, first, second
<1>7. ASSUME NEW t \in types \ {top} PROVE first - score[t] >= MinMargin
  <2> DEFINE x == score[t]
  <2>1. x \in 0 .. 1000 /\ Len(h) > 1 /\ second >= x
    BY <1>1, <1>3, <1>7
  <2> HIDE DEF x
  <2>2. second \in 0 .. 1000 /\ first - second >= MinMargin
    BY <1>2, <1>4, <2>1
  <2>3. first - x >= MinMargin
    BY <1>5, <1>6, <2>1, <2>2
  <2>4. QED
    BY <2>3 DEF x
<1>8. ASSUME NEW t \in Types \ {top}, score[t] >= 300 PROVE first - score[t] >= MinMargin
  <2> DEFINE x == score[t]
  <2>1. x \in 0 .. 1000 /\ x >= 300 /\ (t \notin types => x < 300)
    BY <1>3, <1>8
  <2> HIDE DEF x
  <2>2. t \in types
    BY <2>1
  <2>3. QED
    BY <1>7, <2>2
<1>9. QED
  BY <1>1, <1>2, <1>7, <1>8 DEF top

\* A ledger has one scoring.
LEMMA OneScoring == ASSUME NEW L, NEW s \in ScoreAll(L), NEW z \in ScoreAll(L) PROVE s = z
  BY DEF ScoreAll

\* The inductive invariant: a diagnosis the run goes on with leads every rival of three tenths or
\* more.
LeadsItsRivals ==
    pc = "proceed" =>
        \A score \in ScoreAll(ledger) :
            LET top == hypotheses[1].type IN
            /\ top \in Types \ {"unknown"} /\ score[top] >= MinConfidence
            /\ \A t \in Types \ {top} : score[t] >= 300 => score[top] - score[t] >= MinMargin

LEMMA LeadStep ==
    ASSUME LeadsItsRivals, [Next]_vars PROVE LeadsItsRivals'
<1>1. CASE Answer \/ ModelAnswers \/ FallBack
  <2> SUFFICES ASSUME pc' = "proceed" PROVE LeadsItsRivals'
    BY DEF LeadsItsRivals
  <2>1. ledger' = ledger
    BY <1>1, DecisionsRank
  <2>2. PICK score \in ScoreAll(ledger), types \in SUBSET Types :
           /\ score \in Scores /\ types # {} /\ \A t \in Types \ types : score[t] < 300
           /\ Decide(Rank(types, score))
    BY <1>1, DecisionsRank
  <2> DEFINE h == hypotheses'
             top == h[1].type
  <2>3. h \in Rank(types, score) /\ Proceeds(h)
    BY <2>2 DEF Decide, End
  <2> HIDE DEF h
  <2>4. /\ top \in Types \ {"unknown"} /\ score[top] >= MinConfidence
        /\ \A t \in Types \ {top} : score[t] >= 300 => score[top] - score[t] >= MinMargin
    BY <2>2, <2>3, LeadIsClear
  <2>5. \A s \in ScoreAll(ledger') : s = score
    BY <2>1, <2>2, OneScoring
  <2>6. QED
    BY <2>4, <2>5 DEF LeadsItsRivals, h
<1>2. CASE pc' # "proceed" \/ UNCHANGED <<pc, ledger, hypotheses>>
  BY <1>2 DEF LeadsItsRivals
<1>3. CASE Collect \/ OutOfBudget \/ AskModel \/ ModelAsks
  BY <1>2, <1>3 DEF Collect, OutOfBudget, AskModel, ModelAsks
<1>4. CASE Fix
  BY <1>2, <1>4 DEF Fix, StartFix, FixerTold, FixerUsesTool, Propose, NoProposal, End
<1>5. CASE Verify
  BY <1>2, <1>5 DEF Verify, CheckDiff, CheckSyntax, CheckTests, Deploy, PollDeploy, DeployChecked, CheckAlertMetric,
              CheckSideEffects, VerifierOutOfBudget, SkipStage, Verified, AtStage, End
<1>6. CASE Review \/ ModelReplies \/ NodeRaises \/ TreeDisturbed \/ UNCHANGED vars
  BY <1>2, <1>6 DEF Review, ModelReplies, NodeRaises, TreeDisturbed, End, diagnosing, vars
<1>7. QED
  BY <1>1, <1>3, <1>4, <1>5, <1>6 DEF Next, Investigate

\* Whatever the evidence, the order it arrives in and the types the model proposes: the diagnosis a
\* run goes on with is confident enough, and leads by the margin every issue type that reaches the
\* three tenths at which it is listed, on all the evidence in the ledger.
THEOREM RivalsAreListed == Spec => []LeadsItsRivals
<1>1. Init => LeadsItsRivals
  BY DEF Init, LeadsItsRivals
<1>2. LeadsItsRivals /\ [Next]_vars => LeadsItsRivals'
  BY LeadStep
<1>3. QED
  BY <1>1, <1>2, PTL DEF Spec

-----------------------------------------------------------------------------
(* The shape of the state. *)

\* Replies of the model that both loops allow for.
LEMMA StepLimit ==
    /\ Max({MaxLlmSteps, MaxSteps}) \in Nat
    /\ MaxLlmSteps \in Nat /\ MaxLlmSteps <= Max({MaxLlmSteps, MaxSteps})
    /\ MaxSteps \in Nat /\ MaxSteps <= Max({MaxLlmSteps, MaxSteps})
<1>1. MaxLlmSteps \in Nat /\ MaxSteps \in Nat
  BY RulesAssumption DEF RulesAssumption
<1>2. \E m \in {MaxLlmSteps, MaxSteps} : \A y \in {MaxLlmSteps, MaxSteps} : m >= y
  BY <1>1
<1>3. QED
  BY <1>1, <1>2 DEF Max

\* The inductive invariant, in parts.
RunTyped ==
    /\ pc \in {"collect", "reason", "proceed", "fix", "verify", "review", "done"}
    /\ hypotheses \in Seq(Hypothesis) /\ Len(hypotheses) \in 0 .. 3
    /\ pc = "proceed" => Len(hypotheses) >= 1
    /\ outcome \in Outcomes

\* A reply in hand is one its loop had a step left for, and each agent starts with all its steps.
RepliesCounted ==
    /\ reply \in {"none", "tool", "final", "bad"}
    /\ pc = "reason" => steps \in 0 .. MaxLlmSteps + 2 /\ (reply # "none" => steps < MaxLlmSteps + 2)
    /\ pc = "fix" => steps \in 0 .. MaxSteps + 2 /\ (reply # "none" => steps < MaxSteps + 2)
    /\ pc \notin {"reason", "fix"} => steps = 0 /\ reply = "none"

PlanTyped == plan \in Seq(Calls)

TreeTyped == named \subseteq Files /\ tree \subseteq Files /\ claimed \subseteq Files

DeployTyped == status \in {"none", "RUNNING", "SUCCESS", "FAILURE"} /\ polls \in 0 .. MaxPolls

LEMMA RunTypedStep ==
    ASSUME RunTyped, [Next]_vars PROVE RunTyped'
<1>1. CASE Answer \/ ModelAnswers \/ FallBack
  <2>1. PICK score \in ScoreAll(ledger), types \in SUBSET Types :
           score \in Scores /\ types # {} /\ Decide(Rank(types, score))
    BY <1>1, DecisionsRank
  <2> DEFINE h == hypotheses'
  <2>2. /\ h \in Rank(types, score)
        /\ pc' \in {"proceed", "done"} /\ (UNCHANGED outcome \/ outcome' = "escalated")
    BY <2>1 DEF Decide, End
  <2> HIDE DEF h
  <2>3. h \in Seq(Hypothesis) /\ Len(h) \in 1 .. 3
    BY <2>1, <2>2, RankingLeads
  <2>4. QED
    BY <2>2, <2>3 DEF RunTyped, Outcomes, h
<1>2. CASE AskModel
  <2>1. PICK score \in ScoreAll(ledger) : hypotheses' \in HeuristicAnswer(score)
    BY <1>2 DEF AskModel
  <2>2. PICK types \in SUBSET Types : types # {} /\ HeuristicAnswer(score) = Rank(types, score)
    BY RankedTypes
  <2> DEFINE h == hypotheses'
  <2>3. h \in Rank(types, score) /\ pc' = "reason" /\ UNCHANGED outcome
    BY <1>2, <2>1, <2>2 DEF AskModel
  <2> HIDE DEF h
  <2>4. h \in Seq(Hypothesis) /\ Len(h) \in 1 .. 3
    BY <2>2, <2>3, RankedTypes, RankingLeads
  <2>5. QED
    BY <2>3, <2>4 DEF RunTyped, h
<1>3. CASE StartFix
  <2>1. hypotheses' = SubSeq(hypotheses, 1, 1) /\ pc' = "fix" /\ UNCHANGED outcome
    BY <1>3 DEF StartFix
  <2>2. hypotheses \in Seq(Hypothesis) /\ Len(hypotheses) >= 1
    BY <1>3 DEF StartFix, RunTyped
  <2>3. \A i \in 1 .. 1 : hypotheses[i] \in Hypothesis
    BY <2>2
  <2>4. SubSeq(hypotheses, 1, 1) \in Seq(Hypothesis) /\ Len(SubSeq(hypotheses, 1, 1)) = 1
    BY <2>3, SubSeqProperties
  <2>5. QED
    BY <2>1, <2>4 DEF RunTyped
<1>4. CASE Review
  <2>1. PICK severities : outcome' = CriticDecision(severities) /\ pc' = "done" /\ UNCHANGED hypotheses
    BY <1>4 DEF Review, End, diagnosing
  <2>2. QED
    BY <2>1 DEF CriticDecision, RunTyped, Outcomes
<1>5. CASE Verified
  <2>1. PICK results : /\ UNCHANGED hypotheses
                       /\ IF Verdict(results) = "passed" THEN pc' = "review" /\ UNCHANGED outcome
                                                         ELSE pc' = "done" /\ outcome' = Verdict(results)
    BY <1>5 DEF Verified, End, diagnosing
  <2>2. Verdict(results) \in {"passed", "failed", "inconclusive"}
    BY DEF Verdict
  <2>3. QED
    BY <2>1, <2>2 DEF RunTyped, Outcomes
<1>6. CASE Collect \/ OutOfBudget \/ ModelAsks \/ UNCHANGED vars
  BY <1>6 DEF Collect, OutOfBudget, ModelAsks, RunTyped, vars
<1>7. CASE FixerTold \/ FixerUsesTool \/ Propose \/ NoProposal
  BY <1>7 DEF FixerTold, FixerUsesTool, Propose, NoProposal, End, diagnosing, RunTyped, Outcomes
<1>8. CASE CheckDiff \/ CheckSyntax \/ CheckTests \/ Deploy \/ PollDeploy \/ DeployChecked \/ CheckAlertMetric
           \/ CheckSideEffects \/ VerifierOutOfBudget \/ SkipStage
  <2>1. UNCHANGED <<pc, hypotheses, outcome>>
    BY <1>8 DEF CheckDiff, CheckSyntax, CheckTests, Deploy, PollDeploy, DeployChecked, CheckAlertMetric,
                CheckSideEffects, VerifierOutOfBudget, SkipStage, diagnosing
  <2>2. QED
    BY <2>1 DEF RunTyped
<1>9. CASE ModelReplies \/ NodeRaises \/ TreeDisturbed
  BY <1>9 DEF ModelReplies, NodeRaises, TreeDisturbed, End, diagnosing, RunTyped, Outcomes
<1>10. QED
  BY <1>1, <1>2, <1>3, <1>4, <1>5, <1>6, <1>7, <1>8, <1>9 DEF Next, Investigate, Fix, Verify

LEMMA RepliesCountedStep ==
    ASSUME RepliesCounted, [Next]_vars PROVE RepliesCounted'
<1>1. MaxLlmSteps \in Nat /\ MaxSteps \in Nat
  BY StepLimit
<1>2. CASE reply' = "none" /\ steps' = 0
  BY <1>1, <1>2 DEF RepliesCounted
<1>3. CASE reply' = "none" /\ steps' = steps + 1 /\ reply = "tool" /\ pc \in {"reason", "fix"} /\ UNCHANGED pc
  <2>1. CASE pc = "reason"
    BY <1>1, <1>3, <2>1 DEF RepliesCounted
  <2>2. CASE pc = "fix"
    BY <1>1, <1>3, <2>2 DEF RepliesCounted
  <2>3. QED
    BY <1>3, <2>1, <2>2
<1>4. CASE UNCHANGED <<pc, steps, reply>>
  BY <1>4 DEF RepliesCounted
<1>5. CASE pc \notin {"reason", "fix"} /\ UNCHANGED <<steps, reply>>
  <2>1. steps = 0 /\ reply = "none"
    BY <1>5 DEF RepliesCounted
  <2>2. QED
    BY <1>2, <1>5, <2>1
<1>6. CASE Investigate
  <2>1. CASE Answer \/ ModelAnswers \/ FallBack
    BY <1>2, <2>1 DEF Answer, ModelAnswers, FallBack, Decide
  <2>2. CASE Collect \/ OutOfBudget \/ AskModel
    BY <1>5, <2>2 DEF Collect, OutOfBudget, AskModel
  <2>3. CASE ModelAsks
    BY <1>3, <2>3 DEF ModelAsks
  <2>4. QED
    BY <1>6, <2>1, <2>2, <2>3 DEF Investigate
<1>7. CASE Fix
  <2>1. CASE StartFix
    BY <1>5, <2>1 DEF StartFix
  <2>2. CASE FixerTold \/ FixerUsesTool
    BY <1>3, <2>2 DEF FixerTold, FixerUsesTool
  <2>3. CASE Propose \/ NoProposal
    BY <1>2, <2>3 DEF Propose, NoProposal
  <2>4. QED
    BY <1>7, <2>1, <2>2, <2>3 DEF Fix
<1>8. CASE ModelReplies
  <2>1. UNCHANGED <<pc, steps>> /\ MoreReplies /\ reply' \in {"tool", "final", "bad"}
    BY <1>8 DEF ModelReplies
  <2>2. QED
    BY <1>1, <2>1 DEF RepliesCounted, MoreReplies
<1>9. CASE Verify
  BY <1>5, <1>9 DEF Verify, CheckDiff, CheckSyntax, CheckTests, Deploy, PollDeploy, DeployChecked, CheckAlertMetric,
              CheckSideEffects, VerifierOutOfBudget, SkipStage, Verified, AtStage
<1>10. CASE Review \/ NodeRaises \/ TreeDisturbed \/ UNCHANGED vars
  BY <1>4, <1>5, <1>10 DEF Review, NodeRaises, TreeDisturbed, vars
<1>11. QED
  BY <1>6, <1>7, <1>8, <1>9, <1>10 DEF Next

LEMMA PlanTypedStep ==
    ASSUME PlanTyped, [Next]_vars PROVE PlanTyped'
<1>1. CASE UNCHANGED plan
  BY <1>1 DEF PlanTyped
<1>2. CASE Collect
  BY <1>2 DEF Collect, PlanTyped
<1>3. CASE OutOfBudget
  BY <1>3 DEF OutOfBudget, PlanTyped
<1>4. CASE Answer \/ AskModel \/ ModelAsks \/ ModelAnswers \/ FallBack
  BY <1>1, <1>4 DEF Answer, AskModel, ModelAsks, ModelAnswers, FallBack, Decide
<1>5. CASE Fix
  BY <1>1, <1>5 DEF Fix, StartFix, FixerTold, FixerUsesTool, Propose, NoProposal, diagnosing
<1>6. CASE Verify
  BY <1>1, <1>6 DEF Verify, CheckDiff, CheckSyntax, CheckTests, Deploy, PollDeploy, DeployChecked, CheckAlertMetric,
              CheckSideEffects, VerifierOutOfBudget, SkipStage, Verified, diagnosing
<1>7. CASE Review \/ ModelReplies \/ NodeRaises \/ TreeDisturbed \/ UNCHANGED vars
  BY <1>1, <1>7 DEF Review, ModelReplies, NodeRaises, TreeDisturbed, diagnosing, vars
<1>8. QED
  BY <1>2, <1>3, <1>4, <1>5, <1>6, <1>7 DEF Next, Investigate

LEMMA TreeTypedStep ==
    ASSUME TreeTyped, [Next]_vars PROVE TreeTyped'
<1>1. Editable \subseteq Files /\ Residue \subseteq Files
  BY RulesAssumption DEF RulesAssumption
<1>2. CASE UNCHANGED <<named, tree, claimed>>
  BY <1>2 DEF TreeTyped
<1>3. CASE Investigate
  BY <1>2, <1>3 DEF Investigate, Collect, OutOfBudget, Answer, AskModel, ModelAsks, ModelAnswers, FallBack, Decide,
              fixing
<1>4. CASE StartFix
  BY <1>4 DEF StartFix, TreeTyped
<1>5. CASE FixerUsesTool
  <2>1. tree' \subseteq tree \union Editable /\ UNCHANGED <<named, claimed>>
    BY <1>5 DEF FixerUsesTool, Edited
  <2>2. QED
    BY <1>1, <2>1 DEF TreeTyped
<1>6. CASE FixerTold \/ Propose \/ NoProposal
  BY <1>2, <1>6 DEF FixerTold, Propose, NoProposal, fixing, TreeTyped
<1>7. CASE CheckTests
  <2>1. tree' \subseteq tree \union Residue /\ UNCHANGED <<named, claimed>>
    BY <1>7 DEF CheckTests, RunTests
  <2>2. QED
    BY <1>1, <2>1 DEF TreeTyped
<1>8. CASE CheckDiff \/ CheckSyntax \/ Deploy \/ PollDeploy \/ DeployChecked \/ CheckAlertMetric
           \/ CheckSideEffects \/ VerifierOutOfBudget \/ SkipStage \/ Verified
  BY <1>2, <1>8 DEF CheckDiff, CheckSyntax, Deploy, PollDeploy, DeployChecked, CheckAlertMetric, CheckSideEffects,
              VerifierOutOfBudget, SkipStage, Verified, fixing
<1>9. CASE TreeDisturbed
  BY <1>9 DEF TreeDisturbed, TreeTyped
<1>10. CASE Review \/ ModelReplies \/ NodeRaises \/ UNCHANGED vars
  BY <1>2, <1>10 DEF Review, ModelReplies, NodeRaises, fixing, vars
<1>11. QED
  BY <1>3, <1>4, <1>5, <1>6, <1>7, <1>8, <1>9, <1>10 DEF Next, Fix, Verify

LEMMA DeployTypedStep ==
    ASSUME DeployTyped, [Next]_vars PROVE DeployTyped'
<1>1. MaxPolls \in Nat /\ MaxPolls >= 1
  BY RulesAssumption DEF RulesAssumption
<1>2. CASE UNCHANGED <<status, polls>>
  BY <1>2 DEF DeployTyped
<1>3. CASE Deploy \/ PollDeploy
  BY <1>1, <1>3 DEF Deploy, PollDeploy, DeployTyped
<1>4. CASE Investigate
  BY <1>2, <1>4 DEF Investigate, Collect, OutOfBudget, Answer, AskModel, ModelAsks, ModelAnswers, FallBack, Decide,
              verifying
<1>5. CASE Fix
  BY <1>2, <1>5 DEF Fix, StartFix, FixerTold, FixerUsesTool, Propose, NoProposal, verifying
<1>6. CASE CheckDiff \/ CheckSyntax \/ CheckTests \/ DeployChecked \/ CheckAlertMetric \/ CheckSideEffects
           \/ VerifierOutOfBudget \/ SkipStage \/ Verified
  BY <1>2, <1>6 DEF CheckDiff, CheckSyntax, CheckTests, DeployChecked, CheckAlertMetric, CheckSideEffects,
              VerifierOutOfBudget, SkipStage, Verified, verifying
<1>7. CASE Review \/ ModelReplies \/ NodeRaises \/ TreeDisturbed \/ UNCHANGED vars
  BY <1>2, <1>7 DEF Review, ModelReplies, NodeRaises, TreeDisturbed, verifying, vars
<1>8. QED
  BY <1>3, <1>4, <1>5, <1>6, <1>7 DEF Next, Verify

\* All of it.
Typed ==
    /\ Consistent(ledger) /\ Progress /\ RunTyped /\ RepliesCounted /\ PlanTyped /\ TreeTyped /\ DeployTyped

LEMMA InitiallyTyped == Init => Typed
<1> SUFFICES ASSUME Init PROVE Typed
  OBVIOUS
<1>1. Consistent(ledger)
  BY InitiallyConsistent
<1>2. Progress
  BY InitiallyNothingChecked
<1>3. RunTyped
  BY DEF Init, RunTyped, Outcomes
<1>4. RepliesCounted
  BY DEF Init, RepliesCounted
<1>5. PlanTyped
  <2>1. PICK listed \in {OtherMetrics, <<>>} : plan = <<AlertedMetric>> \o listed \o <<"logs", "deploys", "memory">>
    BY DEF Init
  <2>2. listed \in Seq(Calls)
    <3>1. OtherMetrics \in Seq(Metrics) /\ Metrics \subseteq Calls
      BY RulesAssumption DEF RulesAssumption, Calls
    <3>2. OtherMetrics \in Seq(Calls)
      BY <3>1
    <3>3. listed = OtherMetrics \/ listed = <<>>
      BY <2>1
    <3>4. <<>> \in Seq(Calls)
      OBVIOUS
    <3>5. QED
      BY <3>2, <3>3, <3>4
  <2>3. <<AlertedMetric>> \in Seq(Calls) /\ <<"logs", "deploys", "memory">> \in Seq(Calls)
    BY DEF Calls, Metrics
  <2>4. QED
    BY <2>1, <2>2, <2>3 DEF PlanTyped
<1>6. TreeTyped /\ DeployTyped
  BY RulesAssumption DEF RulesAssumption, Init, TreeTyped, DeployTyped
<1>7. QED
  BY <1>1, <1>2, <1>3, <1>4, <1>5, <1>6 DEF Typed

LEMMA TypedStep == ASSUME Typed, [Next]_vars PROVE Typed'
  BY LedgerStep, ProgressStep, RunTypedStep, RepliesCountedStep, PlanTypedStep, TreeTypedStep, DeployTypedStep
  DEF Typed

\* The state keeps its shape: one item for a key, at most three hypotheses each with a confidence that
\* is a fraction, and no loop that asks the model more often than its budget and the one answer past it
\* allow.
THEOREM TypeCorrect == Spec => []TypeOK
<1>1. Init => Typed
  BY InitiallyTyped
<1>2. Typed /\ [Next]_vars => Typed'
  BY TypedStep
<1>3. Typed => TypeOK
  <2> SUFFICES ASSUME Typed PROVE TypeOK
    OBVIOUS
  <2>1. \A i, j \in ledger : i.key = j.key => i = j
    BY DEF Typed, Consistent, OneItemPerKey
  <2>2. /\ \A i \in DOMAIN hypotheses :
             hypotheses[i].type \in Range(IssueTypes) /\ hypotheses[i].confidence \in 0 .. 1000
        /\ Len(hypotheses) <= MAX_HYPOTHESES
    <3>1. hypotheses \in Seq(Hypothesis) /\ Len(hypotheses) \in 0 .. 3
      BY DEF Typed, RunTyped
    <3>2. \A i \in DOMAIN hypotheses : hypotheses[i] \in Hypothesis
      BY <3>1
    <3>3. ASSUME NEW x \in Hypothesis PROVE x.type \in Range(IssueTypes) /\ x.confidence \in 0 .. 1000
      BY <3>3, TypesAre DEF Hypothesis
    <3>4. \A i \in DOMAIN hypotheses :
             hypotheses[i].type \in Range(IssueTypes) /\ hypotheses[i].confidence \in 0 .. 1000
      BY <3>2, <3>3
    <3>5. Len(hypotheses) <= MAX_HYPOTHESES
      <4> DEFINE n == Len(hypotheses)
      <4>1. n \in 0 .. 3
        BY <3>1
      <4> HIDE DEF n
      <4>2. n <= 3
        BY <4>1
      <4>3. QED
        BY <4>2 DEF n, MAX_HYPOTHESES
    <3>6. QED
      BY <3>4, <3>5
  <2>3. checks \in [CheckNames -> {"none", "passed", "failed", "inconclusive", "skipped"}]
    BY DEF Typed, Progress, ChecksTyped, Results
  <2>4. stage \in 1 .. Len(Stages) + 1
    BY StagesAre DEF Typed, Progress, ChecksTyped
  <2>5. readings \in [DOMAIN NotRead -> BOOLEAN]
    BY DEF Typed, Progress, ChecksTyped, Readings, NotRead
  <2>6. steps \in 0 .. Max({MaxLlmSteps, MaxSteps}) + 2
    <3> DEFINE limit == Max({MaxLlmSteps, MaxSteps})
    <3>1. limit \in Nat /\ MaxLlmSteps \in Nat /\ MaxLlmSteps <= limit /\ MaxSteps \in Nat /\ MaxSteps <= limit
      BY StepLimit
    <3> HIDE DEF limit
    <3>2. steps \in 0 .. limit + 2
      BY <3>1 DEF Typed, RepliesCounted
    <3>3. QED
      BY <3>2 DEF limit
  <2>7. QED
    BY <2>1, <2>2, <2>3, <2>4, <2>5, <2>6 DEF Typed, RunTyped, RepliesCounted, TreeTyped, DeployTyped, TypeOK
<1>4. QED
  BY <1>1, <1>2, <1>3, PTL DEF Spec

-----------------------------------------------------------------------------
(* Every attempt comes to an end. *)

\* Replies of the model still to come, each to be received and answered.
Asking(limit) == 2 * (limit + 2 - steps) + (IF reply = "none" THEN 1 ELSE 0)

\* Stages and polls still to come, the request for the deploy, and someone else's edit.
Checking ==
    (7 - stage) + (MaxPolls - polls) + (IF status = "none" THEN 1 ELSE 0)
        + (IF stage = 1 /\ tree = claimed THEN 1 ELSE 0)

MostReasoning == 2 * (MaxLlmSteps + 2) + 1
MostEditing   == 2 * (MaxSteps + 2) + 1
MostChecking  == MaxPolls + 8

\* What an attempt can still do at most: what is left to the agent at work, and the most that
\* those after it take.
StepsLeft ==
    CASE pc = "collect" -> Len(plan) + MostReasoning + MostEditing + MostChecking + 6
      [] pc = "reason"  -> Asking(MaxLlmSteps) + MostEditing + MostChecking + 5
      [] pc = "proceed" -> MostEditing + MostChecking + 4
      [] pc = "fix"     -> Asking(MaxSteps) + MostChecking + 3
      [] pc = "verify"  -> Checking + 2
      [] pc = "review"  -> 1
      [] pc = "done"    -> 0

\* No loop is for free: whatever the model asks for and Jenkins answers, every step uses up one of
\* the calls, replies, stages and polls that the attempt has left.
AttemptsRunOut == [][StepsLeft' \in Nat /\ StepsLeft' < StepsLeft]_vars

\* What is left, by the agent at work, before a step and after it.
LEMMA LeftByAgent ==
    /\ pc = "collect" => StepsLeft = Len(plan) + MostReasoning + MostEditing + MostChecking + 6
    /\ pc = "reason"  => StepsLeft = Asking(MaxLlmSteps) + MostEditing + MostChecking + 5
    /\ pc = "proceed" => StepsLeft = MostEditing + MostChecking + 4
    /\ pc = "fix"     => StepsLeft = Asking(MaxSteps) + MostChecking + 3
    /\ pc = "verify"  => StepsLeft = Checking + 2
    /\ pc = "review"  => StepsLeft = 1
  BY DEF StepsLeft

LEMMA LeftByNextAgent ==
    /\ pc' = "collect" => StepsLeft' = Len(plan') + MostReasoning + MostEditing + MostChecking + 6
    /\ pc' = "reason"  => StepsLeft' = Asking(MaxLlmSteps)' + MostEditing + MostChecking + 5
    /\ pc' = "proceed" => StepsLeft' = MostEditing + MostChecking + 4
    /\ pc' = "fix"     => StepsLeft' = Asking(MaxSteps)' + MostChecking + 3
    /\ pc' = "verify"  => StepsLeft' = Checking' + 2
    /\ pc' = "review"  => StepsLeft' = 1
    /\ pc' = "done"    => StepsLeft' = 0
  BY DEF StepsLeft

LEMMA BudgetsAreFinite ==
    /\ MostReasoning \in Nat /\ MostEditing \in Nat /\ MostChecking \in Nat
    /\ MaxLlmSteps \in Nat /\ MaxSteps \in Nat /\ MaxPolls \in Nat
<1>1. MaxLlmSteps \in Nat /\ MaxSteps \in Nat /\ MaxPolls \in Nat
  BY RulesAssumption DEF RulesAssumption
<1>2. QED
  BY <1>1 DEF MostReasoning, MostEditing, MostChecking

\* No agent has more left than the most it can take, before a step and after it.
LEMMA LeftIsBounded ==
    ASSUME Typed
    PROVE  /\ Len(plan) \in Nat /\ Checking \in 0 .. MostChecking
           /\ pc = "reason" => Asking(MaxLlmSteps) \in 0 .. MostReasoning
           /\ pc = "fix" => Asking(MaxSteps) \in 0 .. MostEditing
<1>1. plan \in Seq(Calls) /\ stage \in 1 .. 7 /\ polls \in 0 .. MaxPolls
  BY DEF Typed, PlanTyped, Progress, ChecksTyped, DeployTyped
<1>2. Checking \in 0 .. MostChecking
  BY <1>1, BudgetsAreFinite DEF Checking, MostChecking
<1>3. pc = "reason" => Asking(MaxLlmSteps) \in 0 .. MostReasoning
  BY BudgetsAreFinite DEF Typed, RepliesCounted, Asking, MostReasoning
<1>4. pc = "fix" => Asking(MaxSteps) \in 0 .. MostEditing
  BY BudgetsAreFinite DEF Typed, RepliesCounted, Asking, MostEditing
<1>5. QED
  BY <1>1, <1>2, <1>3, <1>4

LEMMA NextLeftIsBounded ==
    ASSUME Typed'
    PROVE  /\ Len(plan') \in Nat /\ Checking' \in 0 .. MostChecking
           /\ pc' = "reason" => Asking(MaxLlmSteps)' \in 0 .. MostReasoning
           /\ pc' = "fix" => Asking(MaxSteps)' \in 0 .. MostEditing
<1>1. plan' \in Seq(Calls) /\ stage' \in 1 .. 7 /\ polls' \in 0 .. MaxPolls
  BY DEF Typed, PlanTyped, Progress, ChecksTyped, DeployTyped
<1>2. Checking' \in 0 .. MostChecking
  <2> DEFINE deploy == IF status' = "none" THEN 1 ELSE 0
             edit == IF stage' = 1 /\ tree' = claimed' THEN 1 ELSE 0
  <2>1. Checking' = (7 - stage') + (MaxPolls - polls') + deploy + edit
    BY DEF Checking
  <2>2. deploy \in {0, 1} /\ edit \in {0, 1}
    OBVIOUS
  <2> DEFINE stages == 7 - stage'
             left == MaxPolls - polls'
  <2>3. stages \in 0 .. 6 /\ left \in 0 .. MaxPolls
    <3> DEFINE s == stage'
               p == polls'
    <3>1. s \in 1 .. 7 /\ p \in 0 .. MaxPolls /\ MaxPolls \in Nat
      BY <1>1, BudgetsAreFinite
    <3> HIDE DEF s, p
    <3>2. 7 - s \in 0 .. 6 /\ MaxPolls - p \in 0 .. MaxPolls
      BY <3>1
    <3>3. QED
      BY <3>2 DEF s, p
  <2> HIDE DEF deploy, edit, stages, left
  <2>4. stages + left + deploy + edit \in 0 .. MaxPolls + 8
    BY <2>2, <2>3, BudgetsAreFinite
  <2>5. QED
    BY <2>1, <2>4 DEF MostChecking, stages, left
<1>3. pc' = "reason" => Asking(MaxLlmSteps)' \in 0 .. MostReasoning
  BY BudgetsAreFinite DEF Typed, RepliesCounted, Asking, MostReasoning
<1>4. pc' = "fix" => Asking(MaxSteps)' \in 0 .. MostEditing
  BY BudgetsAreFinite DEF Typed, RepliesCounted, Asking, MostEditing
<1>5. QED
  BY <1>1, <1>2, <1>3, <1>4

\* The work goes on to a later agent, or the one at work has less left.
HandsOn ==
    \/ pc = "collect" /\ pc' \in {"reason", "proceed", "done"}
    \/ pc = "reason" /\ pc' \in {"proceed", "done"}
    \/ pc = "proceed" /\ pc' \in {"fix", "done"}
    \/ pc = "fix" /\ pc' \in {"verify", "done"}
    \/ pc = "verify" /\ pc' \in {"review", "done"}
    \/ pc = "review" /\ pc' = "done"

GoesOn ==
    \/ pc = "collect" /\ pc' = "collect" /\ Len(plan') < Len(plan)
    \/ pc = "reason" /\ pc' = "reason" /\ Asking(MaxLlmSteps)' < Asking(MaxLlmSteps)
    \/ pc = "fix" /\ pc' = "fix" /\ Asking(MaxSteps)' < Asking(MaxSteps)
    \/ pc = "verify" /\ pc' = "verify" /\ Checking' < Checking

LEMMA LessIsLeft ==
    ASSUME Typed, Typed', HandsOn \/ GoesOn
    PROVE  StepsLeft' \in Nat /\ StepsLeft' < StepsLeft
<1> DEFINE listed == Len(plan)
           listedNext == Len(plan')
           reason == Asking(MaxLlmSteps)
           reasonNext == Asking(MaxLlmSteps)'
           edit == Asking(MaxSteps)
           editNext == Asking(MaxSteps)'
           check == Checking
           checkNext == Checking'
<1>1. MostReasoning \in Nat /\ MostEditing \in Nat /\ MostChecking \in Nat
  BY BudgetsAreFinite
<1>2. /\ listed \in Nat /\ check \in 0 .. MostChecking
      /\ pc = "reason" => reason \in 0 .. MostReasoning
      /\ pc = "fix" => edit \in 0 .. MostEditing
  BY LeftIsBounded
<1>3. /\ listedNext \in Nat /\ checkNext \in 0 .. MostChecking
      /\ pc' = "reason" => reasonNext \in 0 .. MostReasoning
      /\ pc' = "fix" => editNext \in 0 .. MostEditing
  BY NextLeftIsBounded
<1>4. /\ pc = "collect" => StepsLeft = listed + MostReasoning + MostEditing + MostChecking + 6
      /\ pc = "reason"  => StepsLeft = reason + MostEditing + MostChecking + 5
      /\ pc = "proceed" => StepsLeft = MostEditing + MostChecking + 4
      /\ pc = "fix"     => StepsLeft = edit + MostChecking + 3
      /\ pc = "verify"  => StepsLeft = check + 2
      /\ pc = "review"  => StepsLeft = 1
  BY LeftByAgent
<1>5. /\ pc' = "collect" => StepsLeft' = listedNext + MostReasoning + MostEditing + MostChecking + 6
      /\ pc' = "reason"  => StepsLeft' = reasonNext + MostEditing + MostChecking + 5
      /\ pc' = "proceed" => StepsLeft' = MostEditing + MostChecking + 4
      /\ pc' = "fix"     => StepsLeft' = editNext + MostChecking + 3
      /\ pc' = "verify"  => StepsLeft' = checkNext + 2
      /\ pc' = "review"  => StepsLeft' = 1
      /\ pc' = "done"    => StepsLeft' = 0
  BY LeftByNextAgent
<1>6. CASE HandsOn
  <2> HIDE DEF listed, listedNext, reason, reasonNext, edit, editNext, check, checkNext
  <2>1. CASE pc = "collect"
    BY <1>1, <1>2, <1>3, <1>4, <1>5, <1>6, <2>1 DEF HandsOn
  <2>2. CASE pc = "reason"
    BY <1>1, <1>2, <1>3, <1>4, <1>5, <1>6, <2>2 DEF HandsOn
  <2>3. CASE pc = "proceed"
    BY <1>1, <1>2, <1>3, <1>4, <1>5, <1>6, <2>3 DEF HandsOn
  <2>4. CASE pc = "fix"
    BY <1>1, <1>2, <1>3, <1>4, <1>5, <1>6, <2>4 DEF HandsOn
  <2>5. CASE pc \in {"verify", "review"}
    BY <1>1, <1>2, <1>3, <1>4, <1>5, <1>6, <2>5 DEF HandsOn
  <2>6. QED
    BY <1>6, <2>1, <2>2, <2>3, <2>4, <2>5 DEF HandsOn
<1>7. CASE GoesOn
  <2>1. \/ pc = "collect" /\ pc' = "collect" /\ listedNext < listed
        \/ pc = "reason" /\ pc' = "reason" /\ reasonNext < reason
        \/ pc = "fix" /\ pc' = "fix" /\ editNext < edit
        \/ pc = "verify" /\ pc' = "verify" /\ checkNext < check
    BY <1>7 DEF GoesOn
  <2> HIDE DEF listed, listedNext, reason, reasonNext, edit, editNext, check, checkNext
  <2>2. CASE pc = "collect"
    BY <1>1, <1>2, <1>3, <1>4, <1>5, <2>1, <2>2
  <2>3. CASE pc = "reason"
    BY <1>1, <1>2, <1>3, <1>4, <1>5, <2>1, <2>3
  <2>4. CASE pc = "fix"
    BY <1>1, <1>2, <1>3, <1>4, <1>5, <2>1, <2>4
  <2>5. CASE pc = "verify"
    BY <1>1, <1>2, <1>3, <1>4, <1>5, <2>1, <2>5
  <2>6. QED
    BY <2>1, <2>2, <2>3, <2>4, <2>5
<1>8. QED
  BY <1>6, <1>7

\* Every step hands on or uses something up.
LEMMA EveryStepCounts ==
    ASSUME Typed, Next, vars' # vars PROVE HandsOn \/ GoesOn
<1>t. /\ MaxLlmSteps \in Nat /\ MaxSteps \in Nat /\ MaxPolls \in Nat
      /\ stage \in 1 .. 7 /\ polls \in 0 .. MaxPolls /\ plan \in Seq(Calls)
      /\ pc = "reason" => steps \in 0 .. MaxLlmSteps + 2
      /\ pc = "fix" => steps \in 0 .. MaxSteps + 2
  BY BudgetsAreFinite DEF Typed, Progress, ChecksTyped, DeployTyped, PlanTyped, RepliesCounted
<1>1. CASE Answer \/ ModelAnswers \/ FallBack
  <2>1. pc \in {"collect", "reason"} /\ pc' \in {"proceed", "done"}
    BY <1>1 DEF Answer, ModelAnswers, FallBack, Decide, End
  <2>2. QED
    BY <2>1 DEF HandsOn
<1>2. CASE AskModel \/ StartFix \/ NodeRaises \/ Review \/ NoProposal \/ Verified
  BY <1>2 DEF AskModel, StartFix, NodeRaises, Review, NoProposal, Verified, End, HandsOn
<1>3. CASE Propose
  BY <1>3 DEF Propose, End, HandsOn
<1>4. CASE Collect \/ OutOfBudget
  <2>1. pc = "collect" /\ pc' = "collect" /\ plan # <<>> /\ (plan' = Tail(plan) \/ plan' = <<>>)
    BY <1>4 DEF Collect, OutOfBudget
  <2>2. Len(plan') < Len(plan)
    BY <1>t, <2>1
  <2>3. QED
    BY <2>1, <2>2 DEF GoesOn
<1>5. CASE ModelReplies
  <2>1. /\ pc' = pc /\ pc \in {"reason", "fix"} /\ steps' = steps
        /\ reply = "none" /\ reply' # "none"
    BY <1>5 DEF ModelReplies, MoreReplies
  <2>2. ASSUME NEW limit \in Nat, steps \in 0 .. limit + 2 PROVE Asking(limit)' < Asking(limit)
    BY <2>1, <2>2 DEF Asking
  <2>3. QED
    BY <1>t, <2>1, <2>2 DEF GoesOn
<1>6. CASE ModelAsks \/ FixerTold \/ FixerUsesTool
  <2>1. /\ pc' = pc /\ pc \in {"reason", "fix"} /\ steps' = steps + 1
        /\ reply = "tool" /\ reply' = "none"
    BY <1>6 DEF ModelAsks, FixerTold, FixerUsesTool
  <2>2. ASSUME NEW limit \in Nat, steps \in 0 .. limit + 2 PROVE Asking(limit)' < Asking(limit)
    BY <2>1, <2>2 DEF Asking
  <2>3. QED
    BY <1>t, <2>1, <2>2 DEF GoesOn
<1>7. CASE CheckDiff \/ CheckSyntax \/ CheckTests \/ DeployChecked \/ CheckAlertMetric \/ CheckSideEffects
           \/ VerifierOutOfBudget \/ SkipStage
  <2>1. /\ pc = "verify" /\ pc' = "verify" /\ stage' = stage + 1 /\ UNCHANGED <<status, polls>>
    BY <1>7 DEF CheckDiff, CheckSyntax, CheckTests, DeployChecked, CheckAlertMetric, CheckSideEffects,
                VerifierOutOfBudget, SkipStage, AtStage, StageEnds
  <2>2. Checking' < Checking
    BY <1>t, <2>1 DEF Checking
  <2>3. QED
    BY <2>1, <2>2 DEF GoesOn
<1>8. CASE Deploy \/ PollDeploy
  <2>1. /\ pc = "verify" /\ pc' = "verify" /\ stage = 4 /\ stage' = 4 /\ status' # "none"
        /\ \/ status = "none" /\ polls' = polls
           \/ status # "none" /\ polls' = polls + 1
    BY <1>8 DEF Deploy, PollDeploy, AtStage
  <2>2. Checking' < Checking
    BY <1>t, <2>1 DEF Checking
  <2>3. QED
    BY <2>1, <2>2 DEF GoesOn
<1>9. CASE TreeDisturbed
  <2>1. /\ pc = "verify" /\ pc' = "verify" /\ stage = 1 /\ UNCHANGED <<stage, status, polls, claimed>>
        /\ tree = claimed /\ tree' # tree
    BY <1>9 DEF TreeDisturbed, diagnosing, verifying, vars
  <2>2. Checking' < Checking
    BY <1>t, <2>1 DEF Checking
  <2>3. QED
    BY <2>1, <2>2 DEF GoesOn
<1>10. QED
  BY <1>1, <1>2, <1>3, <1>4, <1>5, <1>6, <1>7, <1>8, <1>9 DEF Next, Investigate, Fix, Verify

\* An attempt takes no more steps than its plan, the replies both loops allow for, the stages and the
\* polls add up to, whatever the tools, the model and Jenkins answer: every step uses up one of them.
THEOREM AttemptsAreFinite == Spec => AttemptsRunOut
<1>1. Init => Typed
  BY InitiallyTyped
<1>2. Typed /\ [Next]_vars => Typed'
  BY TypedStep
<1>3. Typed /\ Typed' /\ [Next]_vars => [StepsLeft' \in Nat /\ StepsLeft' < StepsLeft]_vars
  BY EveryStepCounts, LessIsLeft
<1>4. QED
  BY <1>1, <1>2, <1>3, PTL DEF Spec, AttemptsRunOut

=============================================================================
