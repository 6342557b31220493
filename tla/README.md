# A formal model of IncidentFlow-AI

IncidentFlow-AI takes an alert from an APM tool, opens a *change* for it, lets a graph of agents
investigate, fix and verify in a dev environment, has a person approve the evidence and another
person release it to production through Jenkins, and learns from the outcome. Paths below are
relative to the repository (`src/app/...`); `PROJECT.json` gives every definition its lines.

This project models what must not go wrong on that way: an alert that is not lost and not answered
twice, agents whose verdicts rest on what they checked, the record of a change and everyone who
writes to it concurrently, how a write is made durable, what reaches production, and the event that
turns its outcome into memory.

## 1. The system

### Components

| component | state it keeps | operations | talks to |
|---|---|---|---|
| Lifecycle table (`services/lifecycle.py`) | none: a table of allowed moves of `deployment_state` | `is_allowed`, `assert_transition` | called by every store write |
| Change store (`services/change_control.py`) | one `ChangeRecord` per change: approval status, deployment state, evidence, agent run, decision, promotion | `create_change`, `attach_alert`, `record_dev_execution`, `begin_agent_run`, `record_agent_step`, `finish_agent_run`, `record_pr_preparation`, `apply_decision`, `begin_promotion`, `finalize_promotion`, `recover_interrupted_runs` | a file or Postgres, the audit log, the event bus |
| Store persistence (`storage.py`, `db.py`, `_write_json`, `_update_postgres`) | the JSON file or the versioned rows, the outbox | read, write if the version is unchanged, at most three times | Postgres |
| API (`main.py`) | none of its own; one thread per request | `execute-dev`, `run-agents`, `refresh-status`, `decision`, `promote`, review screen | change store, Jenkins, agent pool |
| Build tracker and executor (`services/build_tracker.py`, `services/dev_fix_executor.py`, `adapters/jenkins_client.py`) | none | trigger a build, poll it, conclude | Jenkins, APM |
| Agent graph (`agents/graph.py`, `runner.py`, `budget.py`) | one run: position in the graph, attempt, budget, sandbox | investigate, fix, verify, review, retry, package, crash | change store, agents, git worktree, dev environment |
| Agents (`investigator.py`, `fixer.py`, `verifier.py`, `critic.py`, `scoring.py`) | none | a verdict each | LLM, tools |
| Alert intake (`services/scheduler.py`, `correlation.py`, `pipeline.py`) | alert ids already processed | fetch, deduplicate, correlate with an open change or open a new one | APM, Jira, change store |
| Event buses and relay (`events/*.py`) | unread events, committed positions | publish, consume, commit | outbox table, Kafka |
| Learning and incident memory (`services/learning.py`, `knowledge_base.py`) | past incidents and how they ended | learn on an event, sweep at startup | event bus, change store |
| Dev environment and tools (`tools/*.py`) | worktrees, the one dev deployment of a service, shadow runs | apply a patch, run commands, deploy, measure | git, docker |
| PR preparation (`services/pr_preparer.py`) | branches | branch, commit, push, open a PR | git, GitHub |
| Views (`review.py`, `postmortem.py`, `metrics.py`, `audit.py`) | the audit log | render | change store |

### Interactions

The change record is the one shared object. Request threads, agent runs in a thread pool, the
alert scheduler and the restart hook all write to it through the store, whose `_mutate` holds a
lock from read to write (JSON) or compares versions (Postgres; `StoreIsAtomic` below). So one store operation is atomic,
and **everything between two operations is not**: a request checks the record, lets go of the lock,
waits minutes for Jenkins and records afterwards; an agent run calls the store five to twenty times;
the scheduler finds an open change and writes to it later.

Three things are shared besides. Agent runs of one process share the runtime's sandboxes and budgets,
kept by change id, the git worktree of a branch, and the dev environment, in which one deploy per
service is active. Every committed write leaves an event, which a relay may carry to Kafka and a
learner loop drains. Incident memory is a list and a file that the pipeline and the learner write.

### What is hard, and what correctness means

| component | hard behaviour | properties |
|---|---|---|
| Change store under concurrency | decisions, dev builds, refreshes, agent steps and promotions interleave; answers arrive late | nothing unapproved or unvalidated is released; the evidence decided on is the evidence released; one deployment per change |
| Promotion | Jenkins may accept a deploy and lose the answer; polling may fail; the process may die | never promoted on a guess; never deployed twice; a reservation does not get stuck |
| Store persistence | several processes, lost version races, a failing disk write, a crash between file and event | on Postgres a refused write leaves no trace and every committed one its event; in a file, what is done stays done |
| Agent runs | exceptions in every node, spent budgets, retries, a release by key, a worktree that is reset | no change is left in a working state; nothing outlives a run; the fix shown is the one reviewed and, but for what the tests left, checked; a run measures its own deploy |
| Agents | evidence that arrives out of order, a model that never ends, stages that raise or are skipped | a diagnosis acted on is unambiguous on all the evidence; nothing reaches a person half checked |
| Alert intake | read-then-write correlation, two callers of a cycle, a crash between opening and remembering | no alert is remembered that no change carries; one open change per service |
| Event buses and relay | at-least-once delivery, unconfirmed publishes, repeated or unreadable messages, rows that become visible late, several relays, restarts | what is passed over before it is handled, or relayed, is known by name |
| Learning | replayed events, a store that moves on, a write that fails after memory has changed | memory says what became of the change, and keeps saying it; every outcome arrives |
| Review screen | repeats the store's rules in its own words | it offers only what the server takes |

`PROJECT.json` lists the hazards at the lines where they bite, with the properties that watch each.

## 2. Modules

| module | models | extends |
|---|---|---|
| `Lifecycle` | the table of allowed moves, as a set of pairs | - |
| `ChangeRecord` | one record, what every store operation accepts (`Can...`) and writes; the policy gate | `Lifecycle` |
| `ChangeControl` | the store, request threads, agent runs, Jenkins, restarts; properties | `ChangeRecord` |
| `ReleaseGate` | abstract: what change control promises about production | - |
| `ReviewScreen` | what the screen says and offers; its one property | `ChangeControl` |
| `ChangeControlClaims` | two sentences of the documentation that the code does not keep | `ChangeControl` |
| `AgentRuntime` | pool, graph node by node, sandboxes, budgets, worktrees, the dev environment, shadow runs | `ChangeRecord` |
| `AgentRules` | what Investigator, Fixer, Verifier and Critic decide in one attempt, and on what | - |
| `AlertIntake` | scheduler cycle, deduplication file, correlation, pipeline | - |
| `EventDelivery` | the outbox's transactions, the three buses, `drain`, the relays, the learner, incident memory | - |
| `AtomicStore` | abstract: what the store promises its callers | `Lifecycle` |
| `VersionedStore` | the store on Postgres: processes, the conditional write and its retries, the transaction | `Lifecycle` |
| `JsonStore` | the store on a JSON file: memory, file, audit log, bus, failures and restarts | `Lifecycle` |
| `MC...` | the instances for TLC | the module they are named after |
| `ChangeControlProofs` | proofs about the records of change control: the gate, the decision, the evidence, one deployment | `ChangeControl`, TLAPS |
| `ReleaseProofs` | what rests on them: the reservation, the review screen, the refinement of `ReleaseGate` | `ChangeControlProofs`, `ReviewScreen` |
| `VersionedStoreProofs`, `JsonStoreProofs`, `AgentRuntimeProofs`, `AgentRulesProofs`, `AlertIntakeProofs`, `EventDeliveryProofs` | proofs about the module they are named after | that module, TLAPS |

How they fit: `ChangeControl` takes one store operation as one step, and `VersionedStore` opens that
step up. It does not repeat what the operations write: a record there is the list of writes made to
it, each a move of the lifecycle table, which is enough to see an update that was lost or made
twice. `ChangeControl` has an agent run as the store sees it, cut at its store calls; `AgentRuntime`
has the same graph over the same `ChangeRecord` operations, cut wherever a node touches something
another run can touch. `AgentRules` is one attempt of one run with the agents' rules in the open,
which are choices in the other two. `EventDelivery` begins where the stores end, with a write and its event.

### How the model corresponds to the code

*A store operation* is one atomic step: its `Can...` operator holds where the `apply` callback
raises nothing and `assert_transition` allows the move, and the record function is what it
returns. Confidence and issue type are one field, `diagnosis`: the policy gate reads no more of
them than "high enough and known" (`sound`) or not (`weak`). Warnings are one Boolean. The alert
payload is one Boolean, whether the change carries one (without it the agents refuse to start).

*A request* (`reqs[k]`) is where its thread is between two store or Jenkins calls. `execute-dev` is
`DevCheck`, `DevTrigger` (or `DevTriggerFails`), `Poll` (or `PollFails`), `DevRecord`. `promote` is
`PromoteReserve`, `ProdTrigger` (or `ProdTriggerFails` then `ProdAbort`), `Poll`, `ProdRecord`.
`refresh-status` is `RefreshRead`, `Poll`, then the same record steps. `decision` is one step. A wait for a build is its last
poll: earlier polls change nothing. A finished SUCCESS still needs good smoke tests
and enough improvement, so a dev run may pass or fail on it; any other finished status fails it.

*Jenkins* (`builds`) is external: a trigger call starts a build and answers, starts one and loses the
answer, or starts none; builds end in SUCCESS or FAILURE when they like. An answer that maps to
no known status is UNKNOWN.

*A restart* kills every thread and runs `recover_interrupted_runs` on every record.

*An agent run in `ChangeControl`* (`run[g]`) is its position in the graph of `graph.py`, cut at every
store call, with its attempt. Verdicts, the budget and exceptions are choices: every node may go on,
escalate or raise. Their consequences are not: a refused store call raises and routes to the crash
node, whose own refused escalation is swallowed; `retry` leads to `fix` even after it escalated.

*An agent run in `AgentRuntime`* is submitted (`Start`), waits in `queue` for one of `Workers`
(`WorkerTakes`), enters a node (`Enter`: the budget check, then the sandbox lookup, which opens a
worktree that is not there and resets it for a later attempt), and does the node's work in one or
more steps. `Key(g)` is the key its sandbox and budget are kept under: the change id in a real run,
which all runs of the change share; in shadow mode every run has a runtime of its own. An edit in a
worktree (`tree`) is named by the run and the attempt that made it and by whether the Fixer made it or the project's
tests left it, which is all that "exactly what was verified" needs. The Verifier reads the diff (`VerifyDiff`), then runs the tests in the worktree
(`RunTests`), deploys and measures; the Critic reads the diff again (`Critique`), and `Package` once more. `Deployed` makes the branch the active one of the service, `Measure` reads the metrics of whatever is
active then. `displaced` is a history: the runs another change's deploy came between. An exception ends in `CrashNode`; one that escapes the graph in `RunFailed`; `Release`
is the runner's `finally`. How much of a budget a call costs is a choice (`BudgetRunsOut`), what follows is not.

*One attempt in `AgentRules`.* `Collect` makes the calls of the evidence plan in order, each with any
result the tool can give; a metric that rises may move the onset and tags the deploys again. `ScoreAll`
is the scoring of `scoring.py` with its own tables and weights in thousandths: the sum over a list of signals is written out, as no
list has more than four. `HeuristicAnswer`, `Merge` and `Proceeds` are the ranking,
the merge with the model's answer and the decision; `Rank` says which types are above which (`Above`) instead of sorting them. The model's replies are chosen before they are
used (`ModelReplies`): a request for a tool, a final answer, or one that cannot be used. The Fixer's loop, the Verifier's six stages
with the checks each owns, and the Critic's rules follow. What a threshold on metric values says, and
what the model says, are choices.

*Alert intake.* `Fetch` takes the cycle lock and the first `Limit` alerts of any list the source may
show; then, per alert, `Deduplicate`, `FindOpenChange`, and `Attach`, or `FileIncident` and `CreateChange`; at last
`Mark`. Files are written whole after their copy in memory has changed, so a write that fails leaves the memory ahead; a failed write
ends the work on that alert, which the next cycle meets again. `Post` is `POST /incidents/process`, outside
lock and correlation. Time is one bit per change, whether it was touched inside the window.

*Event delivery.* `transport` is what the configuration chooses: the in-process bus beside the JSON
store (`Save`, then `Emit` under the store's lock), the Postgres outbox, or the outbox relayed to Kafka. In Postgres a write is a transaction
(`Begin`, then `Commit` or `Rollback`) that holds the row of its change; its event is numbered at `Begin` and a poll sees it (`visible`)
from `Commit` on. Transactions of different changes end in any order. `overtaken` is a history: the numbers whose transaction was open when a poll read a higher one.
`drain` is a poll, then handler and commit for each
event of the batch (`relay[r]`, `learner`). Every process may relay; all relays share one offset. `bus.offset` are the committed positions per group; `kafka`
is the consumer: what the broker has committed, where it reads next, the oldest position polled and never
committed, and the position of each event id. A handler, a publish or the storing of an
incident may fail; a publish may be taken and not confirmed. `Restart` is the learner's process with its relay: it reloads the stored memory and
runs `reconcile`.

*A store write on Postgres* is `work[p]`, the request that holds the store's lock in process `p`
and where it is: `find` (about to read the row and apply: `Find`, or `Refuse`), `update` (about to send
the conditional UPDATE: `Update` if it matches, `Conflict` if not, which waits for a row another
transaction holds), `commit` (a transaction is open: `Commit`). `CreateChange` goes straight to
`commit`: its row is new. `Break` is the database out of reach or the process dying in any of these
places; `Commit` may be made and its answer lost. Both are answered `unknown`. `clock` is the one clock
that the processes' time stamps agree on. The tables `audit` and `outbox` hold what is committed; `nextSeq` is the
BIGSERIAL, which a rollback does not give back.

*A store write on the JSON file* is `Change` (memory), `WriteFile`, `Record`, `Publish`, in this order
and under one lock (`holder`). `WriteFails` is an exception of `atomic_write_text`, which reaches the
caller; a failure of the audit log or the bus is logged and swallowed. `Restart` loads the file.

*The review screen* is functions of a record: `Attention`, `Headline`, `Offered`, and against them `Accepts`, what the server takes.

### The abstract specifications

`AtomicStore` has the writes made to each change and what each request was told. A write is made
whole, at one instant, on top of all before it, by a move the table allows. A request that was told
"done" wrote once; one that was refused, by the table or as `ConcurrentModificationError`, wrote nothing;
one whose answer was lost may have written once. `ImplementsAtomicStore` states that `VersionedStore`
implements it: the step that writes is `Commit`.

`ReleaseGate` has five variables per change: where it stands (open, approved, closed, deploying,
live, failed), whether its evidence is good, who decided, the deployments ever started and those
that landed. Evidence changes only while a change is open; approval needs good evidence; release
needs another person; one deployment; live only when one landed. `ImplementsReleaseGate` states
that `ChangeControl` implements it under the mapping `GateOf` at the end of that module: dev builds,
agent steps, reads and polls are stutters or `Rework`.

## 3. What TLC checks

| run | instance | shows | states |
|---|---|---|---|
| `release_gate` | 1 change, 2 request threads, 1 agent run, 3 builds, 2 attempts, 1 restart | seven invariants, `DecidedIsFrozen` and the refinement | 667,000 |
| `change_liveness` | 1 change, 1 thread, 1 run, 2 builds, 3 attempts, 1 restart, four openings | every run ends; every reserved promotion ends or keeps the url it can be refreshed by | 200,000 |
| `versioned_store` | 1 change, 2 processes, 5 requests with two targets, 3 attempts | five invariants and the refinement | 96,000 |
| `json_store` | 2 changes, 4 requests, failing disk, audit log and bus, 2 restarts | three invariants and `FileOnlyGrows` | 182,000 |
| `agent_runtime` | 2 changes of one service, 2 runs, 2 workers, 2 attempts, both modes, tests that write, 1 restart | five invariants | 3,110,000 |
| `agent_rules` | 2 metrics, 2 deploys around 2 onsets, 2 log patterns, a past incident, 3 files, 1 or 2 requests of the model | four invariants; every attempt ends | 228,000 |
| `alert_intake` | 2 alerts of one service, one with an id, 2 callers, 2 changes, 1 failed write, 1 restart | three invariants | 1,660,000 |
| `event_delivery` | 3 transports, 2 changes, 2 events, 2 open transactions, 2 relays, polls of 3, a bus of 1; 2 faults of any kind on a bus, 1 on Kafka | four invariants, `LearnedStays`; every outcome is learned | 936,000 |
| `claim_*` | the smallest instance that has the story | the four findings below | - |

**Properties of change control.** `ReleasedIsGuarded`: a change being deployed or deployed was approved by a person,
passes the policy gate *today*, and was released by someone else. `DeployedOnce`: at most one
production build per change, whatever races or is lost. `PromotedWasDeployed`: promoted means a
production build of this change succeeded. `ReadyWasValidated`: ready for production means a
successful dev build of this change, or the deploy the agents verified. `ReservationHasOwner`: a
reservation without a url belongs to a live request. `DecidedIsFrozen`: after the decision nothing
changes the evidence, the diagnosis or the decision. `ScreenKeepsItsWord`: what the review screen
offers the server takes, along the lifecycle table too, and what the inbox says a change needs is
open to do and is what the headline says. `AgentRunEnds`, `ReservationEnds`: liveness.

**Of the stores.** `EveryWriteIsOnRecord`: the writes in a row, the audit entries and the events
that name it are the same, one event for each version. `AuditTrailConnects`: read in the order of its
time stamps, the audit trail of a change is one legal path, though each stamp is taken before the
write it is about. `EventsFollowVersions`: a change's events are numbered in the order of its versions.
`GivesUpOnlyWhenOvertaken`: a request is told to retry only after as many writes of others as it has attempts.
On the file, `DoneIsDurable`, `RecordedIsDurable`: what a caller was told is done, and what the
audit log or the bus tells of, is in the file. `FileOnlyGrows`: no step, and no crash, takes a write out of the file.

**Of the agents.** `NeverStuckWorking`: whenever a record or a shadow record says the agents are at
work, a run of that change still has its last word to the store before it, whatever raised.
`NothingLeaks`: no sandbox and no budget outlives the runs of its key. `ShownIsReviewed`: for a run that was alone on its change, the diff
offered to a person is the one the Critic read; the Verifier checked it but for what the project's tests left afterwards, and it has the
last attempt's edit and nothing of the attempts before. `MeasuredOwnUnlessDisplaced`: a run that passed measured its own branch, unless the
deploy of another change of the service came between its deploy and its measurement.
`DeployTagsCurrent`: every deploy is tagged against the earliest onset known, whatever came first.
`ProceedIsUnambiguous`: a diagnosis the run goes on with leads every other issue type by the margin, on all the evidence.
`ApprovedWasChecked`: what reaches a person passed every check, on a confirmed deploy and on metrics that were there. `AgentsAnswer`: every attempt ends.

**Of intake and delivery.** `MarkedIsOnFile`: an alert is remembered only when a change on file carries it.
`OneOpenChangePerService`: the scheduler never has two open changes of a service inside the window.
`RelayedBeforeCommitted`: what the relays' offset is past is on the topic, unless its row became visible after a relay
had read a higher number. `CommittedWasHandled`: the learner passes over an event whose handler has not returned in two cases only: such a row
on the outbox, or a message between two copies of another on Kafka. `MemoryIsTrue`: memory says of an incident what became of its
change. `LearnedStays`: and does not say otherwise later. `OutcomesAreLearned`: every outcome reaches memory,
unless its event was dropped by the in-process bus or overtaken in the outbox, or the topic holds a repeated or unreadable message (`Obstructed`).

**Bounds and why they are enough.** *One change* in change control: no operation reads another change's record, so
all that can go wrong is requests colliding on one, and one change makes every one collide. *Two
threads*: the hazards are check-then-act races between a request and one other; the other actors
(decisions, the agent run, Jenkins, restarts) are not counted as threads. *Three builds*: a deploy
and two dev builds, so that an older build's late verdict meets a newer one, and a second
production deploy would find a build to start. *Two attempts* take the retry edge once; three in the
liveness run. *One restart* meets every intermediate state once; the second adds only the same
again since no counter survives it. *One agent run at a time* in `release_gate`; the overlap of two is the
subject of `claim_one_run`, and the theorems hold for any number. `Builds`, `Runs`,
`MaxRestarts` and all other `Max...` marked as bounds are bounds of the models only. When all builds are used and nothing is left to do
the system really may stop, so deadlock is not checked; the same holds of every other run. Symmetry (of threads,
builds, runs, requests, callers) is used in safety runs only.

For the Postgres store one change makes every request collide. Five requests are one creation, one
writer that is overtaken on all three attempts, and the three that overtake it. Two processes
suffice for that: each admits one request at a time, and the overtaken one never lets go. The two
targets are a move that may be repeated and one that ends the change, so that a request may find its move
refused after a retry. The JSON store needs two changes, since each write replaces the file of both; with
four requests a failed write of one change is carried to the file by the write of the other; the
second restart follows writes made after the first. The stores may stop when all requests are answered.

*Agent runtime.* Two runs may be of one change, one after the other or beside each other (the second starts
while the first still has its release before it, or after it escalated from `retry`), or of two. Two workers run both at once;
the queue holds a second run while the first is taken. Two attempts are one reset of the worktree.
Both changes are of one service, so that one's deploy may come between the other's deploy and its measurement. The tests always leave
something, which an attempt's reset has to remove.
The investigation reports a sound diagnosis; the runtime does not read it.

*Agent rules.* The first deploy lies before both onsets and inside the lead time of the earlier one only; the second
lies between them, so that its tag depends on which metric came first. The log patterns, the
past incident and the two kinds of deploy support and contradict different issue types, and confidences
fall on both sides of the two thresholds. One request of the model is enough for evidence that arrives after the
first ranking; the Fixer's two steps and one beyond reach its limit. Three files are one named by
the evidence or not, one editable beside it, and one that only the tests write.

*Intake.* One service makes all alerts correlate; two of them, one without an id, are the collision of
place and name; two changes are enough for a second one opened beside the first. One failed write and
one restart can fall between any two steps.

*Delivery.* Two open transactions and two events are one that commits after a higher number was read. Two relays and polls of three put
an event on the topic on both sides of another, and the learner reads all three at once; both relays' copies together are more than a poll of
the topic reads. A bus of one drops. On a bus two faults are a failed storing and the restart after it; on Kafka, where two relays repeat
events without any fault, one is an unconfirmed publish, a failed handler, a message that is no event, or a restart before a commit. A poll of a bus that stops at its limit would need four
events; the proofs have it for any number.

**Fairness.** In change control `FairSpec` assumes weak fairness of each request thread's next step and of each agent
run's next step: Python threads that started keep being scheduled, and every external call they
make has a timeout, after which the step is one of the failing ones. Nobody has to send a request,
decide or promote, and Jenkins need not end a build: `wait_for_build` is bounded. A restart is
never forced. `AgentRules` is one thread: weak fairness of `Next` says that it goes on, and the
loops must end by their own counts. `EventDelivery` assumes that while the publishing request, a relay or the learner has a step to
take, some of them is taken: a request that has saved a change goes on to its event, and a `ConsumerLoop` calls `run_once` after every interval and
survives what it raises. That each of them goes on by itself would be justified and is not needed. A transaction in Postgres need not end. The other modules have none: nothing is claimed to happen eventually.

## 4. Findings

Each is a `claim_*` run: a sentence of the repository stated of the model, and a behaviour of the
code that breaks it.

1. **A rejected change can say `running` for ever** (`claim_run_end`, `README.md:369`). `decision`
   accepts a rejection from any pre-approval state, also under an agent run. The run's next store
   call is a move out of `closed_rejected`, refused; the crash node's escalation is refused too and swallowed.
   `agent_run_status` stays `running`, and the recovery at startup cannot repair it either.
2. **Two runs on one change** (`claim_one_run`, `docs/ARCHITECTURE.md:120`). The retry node is
   guarded like the others: over budget it escalates, which gives the change back. But the edge
   `retry -> fix` is unconditional. Before its next store call a second run may start, and the first one writes into it.
3. **A closed change absorbs an alert** (`claim_absorb`, `change_control.py:49`). `find_open_change`
   reads and `attach_alert` writes later, and looks only whether the change exists. If a person rejects or releases it in
   between, the alert is folded into a finished change, marked as handled, and never opens one of its own.
4. **Delivery that stops** (`claim_at_least_once`, `learning.py:9`, Kafka only). A publish retried after an unconfirmed
   delivery puts an event on the topic twice. If both copies are in one polled batch, the first commit takes the
   position of the later copy and forgets the event id; the second copy's commit raises, the pending mark stays, and every
   later poll replays the batch (`kafka.py:145`). The events behind it are never handled until a restart.

### Further sentences that do not hold

Four more are stated in the modules beside the property that says how far they do hold, and each has an instance on which TLC
refutes it (`tlc -config <instance>.cfg <module>`). None of them needs a fault.

* **The approver sees more than was verified** (`graph.py:281`; `ExactlyWhatWasVerified`, instance `MCClaimExactlyVerified` of `MCAgentRuntime`). The Verifier checks the diff
  (`verifier.py:137`), then runs the project's tests in the same worktree (`verifier.py:207`). A file they write and git does not ignore is in the
  diff `package` reads for the approver (`graph.py:283`): neither the file list, nor the editable paths, nor the size limit was applied to it.
* **A run passes on another's deploy** (`verifier.py:5`; `MeasuredOwnBranch`, instance `MCClaimMeasuredOwnBranch` of `MCAgentRuntime`). Dev has one active deploy per service
  (`tools/dev_environment.py:81`), and two changes of one service are usual enough: `POST /incidents/process`, or an alert outside the correlation window.
  The second run's deploy succeeds between the first one's deploy and its queries.
* **The outbox gap reaches Kafka** (`postgres.py:10`; `KafkaMissesNothing`, instance `MCClaimKafkaMissesNothing` of `MCEventDelivery`). The limitation the docstring gives the outbox, and denies of Kafka, is the
  relay's too: it drains the same outbox by the same offset (`kafka.py:163`), and a row that becomes visible after a higher number was relayed never reaches the topic.
* **A commit past an unhandled event** (`kafka.py:5`; `CommittedOnlyHandled`, instance `MCClaimCommittedOnlyHandled` of `MCEventDelivery`). Two processes relay, and the topic holds events 1 2 1.
  A poll that reads all three remembers only the last position of event 1 (`kafka.py:135`), so the commit after its first copy is past event 2. If the
  consumer starts again there, event 2 is never handled.

### Known limits

Behaviours of the code the models have, which no property forbids or which bound what a property says.

*Change control.* A dev build may start for a change that is no longer free: `execute-dev` lets go of the lock
between its check (`main.py:607`) and the trigger. Its late result is refused, so `DecidedIsFrozen` holds, but the build ran.
From `escalated` the check passes though the table has no move to any state a dev run records
(`change_control.py:273`). UNKNOWN, or a trigger whose answer was lost, is recorded as
`prod_promotion_failed`, which is terminal, while the deploy may be running; erring this way is what keeps
`DeployedOnce`. A restart between the reservation and its url leaves a change `promoting` for good.
`refresh-status` is offered then, and while the deploy is being triggered, and refused for want of a url
(`build_tracker.py:45`). While agents run, the screen is stricter than the store: a rejection is all it offers.

*Stores.* With the JSON file a write the disk refused stays in memory, and the next write that succeeds
carries it to the file without an audit entry or an event of its own (`change_control.py:846`).
`knowledge_base.py:34` writes the incidents' file without a lock.

*Agent runs.* `release` pops sandbox and budget by change id (`runner.py:98`) after the record
allows a new run; a run started in between loses its worktree, which `package` opens anew and finds empty
(`graph.py:281`). That is why `ShownIsReviewed` speaks of a run that was alone. A retry that is over budget does not count
the attempt. The report of the Verifier names the files it checked, not those the tests wrote later; the Critic reads the diff with both, and minds only
files the evidence does not name, where it names any.

*Agents.* With `INVESTIGATION_MIN_CONFIDENCE` below 0.40, which the configuration accepts, the merge with the
model's answer drops rivals under 0.3 and `ProceedIsUnambiguous` no longer holds. A model that asks for another
window may put "no deploy" beside known deploys (`evidence.py:242`).

*Intake and delivery.* At most 20 alerts are fetched and filtered afterwards (`scheduler.py:119`): alerts already
seen can fill the window. An alert without an id is known by its place in the list (`apm_alert_source.py:81`).
When `create_change` fails, the incident filed before it stays without a change, and the retry files another (`pipeline.py:131`). Events the in-process bus
drops unread (`inprocess.py:24`) wait for the sweep of the next start.

## 5. What is proved

By TLAPS, for every value of the constants: any number of changes, threads, runs, builds, attempts
and restarts, any policy, any sets of approvers and release operators; for the stores any number of
processes, requests and attempts; for the agents any number of runs, changes, workers and attempts, and any metrics,
deploys, files and answers of tools and model; for intake any alerts, limit, callers and failures; for delivery any
transports, capacities, events, writers, relays and faults.

| theorem | module | states |
|---|---|---|
| `TypeCorrect` | `ChangeControlProofs` | `Spec => []TypeOK` |
| `ReleaseIsGuarded` | | `Spec => []ReleasedIsGuarded` |
| `DecisionIsFinal` | | `Spec => DecidedIsFrozen` |
| `DeploysOnce` | | `Spec => []DeployedOnce` |
| `PromotionIsConfirmed` | | `Spec => []PromotedWasDeployed` |
| `ReadinessIsEarned` | | `Spec => []ReadyWasValidated` |
| `ReservationIsHeld` | `ReleaseProofs` | `Spec => []ReservationHasOwner` |
| `ScreenIsHonest` | | `Spec => []ScreenKeepsItsWord` |
| `StoreImplementsReleaseGate` | | `Spec => ImplementsReleaseGate` |
| `TypeCorrect` | `VersionedStoreProofs` | `Spec => []TypeOK` |
| `StoreIsAtomic` | | `Spec => ImplementsAtomicStore` |
| `WritesAreOnRecord` | | `Spec => []EveryWriteIsOnRecord` |
| `AuditTrailTellsOneStory` | | `Spec => []AuditTrailConnects` |
| `EventsAreInOrder` | | `Spec => []EventsFollowVersions` |
| `GivingUpIsJustified` | | `Spec => []GivesUpOnlyWhenOvertaken` |
| `TypeCorrect` | `JsonStoreProofs` | `Spec => []TypeOK` |
| `DoneSurvives` | | `Spec => []DoneIsDurable` |
| `RecordedSurvives` | | `Spec => []RecordedIsDurable` |
| `FileGrows` | | `Spec => FileOnlyGrows` |
| `TypeCorrect` | `AgentRuntimeProofs` | `Spec => []TypeOK` |
| `NobodyIsStuck` | | `Spec => []NeverStuckWorking` |
| `RegistriesAreClean` | | `Spec => []NothingLeaks` |
| `OnlyReviewedIsShown` | | `Spec => []ShownIsReviewed` |
| `OwnBranchIsMeasured` | | `Spec => []MeasuredOwnUnlessDisplaced` |
| `RunsGoForward` | | `Spec => []NodesAreBounded /\ AloneGoesForward`: a run that is alone on its change has at most four nodes for each attempt and two more, and fewer with each it enters |
| `TypeCorrect` | `AgentRulesProofs` | `Spec => []TypeOK` |
| `EvidenceOrderNeverShows` | | `Spec => []DeployTagsCurrent`, and one item for a key |
| `RivalsAreListed` | | `Spec => []LeadsItsRivals`: the diagnosis leads every rival of three tenths or more |
| `OnlyTheCheckedIsApproved` | | `Spec => []ApprovedWasChecked` |
| `AttemptsAreFinite` | | `Spec => AttemptsRunOut`: every step of an attempt uses up one of the calls, replies, stages and polls it has left |
| `TypeCorrect` | `AlertIntakeProofs` | `Spec => []TypeOK` |
| `NoAlertIsLost` | | `Spec => []MarkedIsOnFile` |
| `OneChangeAtATime` | | `Spec => []OneOpenChangePerService` |
| `TypeCorrect` | `EventDeliveryProofs` | `Spec => []TypeOK` |
| `MemoryTellsTheTruth` | | `Spec => []MemoryIsTrue` |
| `LearningIsFinal` | | `Spec => LearnedStays` |
| `RelayLosesNothing` | | `Spec => []RelayedBeforeCommitted` |
| `NothingElseIsPassedOver` | | `Spec => []CommittedWasHandled` |

**Assumptions** are the named ones of the modules, which TLC evaluates in every run:
`PolicyAssumption` (the policy admits no unfinished or unknown build state, which `config.py`
enforces), `SentinelAssumption` (the stand-ins for "no url", "nobody" are none of the real values),
`ControlAssumption` (at least one attempt, at least one change), `StoreAssumption` (at least one
write attempt; targets are states; the stand-in for a free lock is no request and no change), `JsonAssumption` (targets are states; the stand-in for a free lock is no
request), `RuntimeAssumption` (at least one change, worker and attempt; every change has a service; the stand-in for
"nothing" is neither a change nor a run), `RulesAssumption` (every metric has a family and every deploy a kind; the editable files and those the
tests write are files; the least confidence is in (0, 1] and the least margin in [0, 1), which `config.py:201` enforces; the Fixer and the poll of a deploy have at least one step), `IntakeAssumption` (the limit is positive; the stand-in for "no alert" is neither an alert nor a place in a list)
and `DeliveryAssumption` (capacities are positive; there is a relay and room for a transaction; transports are the three there are).
No theorem has a hypothesis beside these.

**The argument for change control.** Six inductive invariants, each resting on those before it.

* `Typed`: `TypeOK`, and a thread that polls or records a production deploy holds the url of a build.
  The second part is needed for the type of the url that the finalize writes.
* `RecordsOK`, per record: a pending change is in a pre-approval state, a rejected one is closed, an
  approved one is in a decided state, was decided by a person and, unless blocked, passes the
  policy gate; a released one was released by someone else. `NoWayBack` (no edge of the table leads
  from a decided state to an agent's state) is what makes late writes harmless: they are refused by
  the table or by the status check. `ReleaseIsGuarded` and `DecisionIsFinal` follow.
* `OneDeployment`: a thread at the trigger is there for a released change of which no production
  build exists, and it is the only one there for it. `DeployedOnce` alone is not inductive: it
  says nothing of the thread that holds the reservation and has not triggered yet.
* `Grounded`: every url in a record or in a thread's hands names a build of that very change, a
  thread that saw SUCCESS saw it of that build, and a record is ready or promoted only on such a build.
  It is inductive because Jenkins never takes an answer back (`BuildsGrow`).
* `Held`: `ReservationHasOwner` with the thread's step named; only a reservation strands a record
  without a url, and the thread that made it leaves only by naming a url or ending the promotion.
* `Deploying`: a thread at the trigger finds its change still `promoting`. Nobody else can
  finalize it: a refresh needs a url, a url needs a build (`Grounded`), no build exists yet
  (`OneDeployment`), and no thread of the same change is at its failure step.

The refinement then has one lemma per kind of step: a decision is `Approve` or `TurnDown`, a
reservation `Reserve`, a trigger `StartDeploy` (by `Deploying` and `OneDeployment`), a finalize
`GoLive` (by `Grounded`), `GiveUp` or a stutter, the end of a build `Land` or a stutter, and every
other write is to a change that is open and stays open, `Rework`.

The screen needs no invariant of its own. What it offers follows from the fields it reads only together with
`RecordsOK` and `Grounded`: a pending change is in a pre-approval state, so a rejection is taken, and an approved one that is ready
passes the policy gate. The refresh that the screen offers and the server may refuse for want of a url is `Held`'s stranded reservation.
The proof also found that two arms of `Headline`'s CASE were true together, where `review.py` takes the first; the arms are disjoint now.

**The Postgres store** rests on one invariant, `Consistent`: a request holds the lock of at most one
process; what a process has read is a past of the row, so that equal versions mean equal records;
and while a transaction is open on a row, the row still is what was read and no other transaction is
open on it. The first makes an answer unique, the second makes the version in the WHERE clause
stand for the whole record, the third carries the match of the UPDATE to the commit. `StoreIsAtomic`
alone is not inductive: the abstract store does not know what a process read. Every step then
is one of five kinds (`StepKinds`): only a commit changes the tables, and `CommittedRow` says how.
Three further invariants rest on `Consistent`. `Stamped`: the newest audit entry of a row names the state the row is
in, and a request whose read is still current took its stamp after every entry of the row; so the order of the stamps,
each taken before its write, is the order of the commits that matched. `Numbered`: an open transaction's
number is above every committed one of its row, because the row was held before the number was drawn. `Overtaken`: a
request at its n-th attempt finds a version above n - 1; each lost race was somebody's write.

**The JSON store** rests on `Durable`: the file's writes to a change are a prefix of memory's, and the request that
holds the lock has got as far as its next step says, so that the write it is about to audit or publish is in the file.
Without the second part `RecordedIsDurable` would not survive the audit step; without the first, a
write of the file could drop what another request was told is done.

**The agent runtime** has four invariants beside its type (`Typed`, which adds that a run at `retry` has an attempt left).
* `WorkIsOwned`: a record in a working state says `running`, and only the kind of record this process writes is at work. That is
  what makes an escalation impossible to refuse while a change is at work, so whatever a node raises,
  the crash node or `RunFailed` gives the change back; `NeverStuckWorking` alone does not say why a refusal is harmless.
* `Registered`: the queue holds the runs that wait, each once, so that a worker cannot enter one twice; nothing leaks; and a
  run marked alone has no other run of its change under way.
* `AloneOwnsItsWork`: what a run that is alone finds, by where it is. It starts without a sandbox, so its
  fix node starts from a clean worktree; from there the edit of its own last attempt and what the tests left in that attempt are all that is in the tree; the first is
  all that was checked, and both are what was reviewed and what is packaged. The exception is a first fix over budget, which goes nowhere.
* `BranchIsOwn`: where a run is about to measure, its own branch is the active one unless the run is `displaced`; and a run that has not
  measured in this attempt has not passed, since the Verifier starts every report afresh.

`RunsGoForward` counts the nodes a run can still be in (`NodesLeft`): a retry is paid for with its attempt, and the retry node that
is over budget, which goes to fix without paying, leads to a fix node that is over budget too and has only the crash node after it. That holds as long as
nobody gives the budget back, and by `Registered` only another run of the change could. For a run with another beside it the count does not hold.

**The agents' rules** have four. `Consistent`, of the ledger: one item for a key, and every deploy tagged against the ledger's own
onset; an item added is tagged against the onset it may itself have moved, and all others again. `Progress`: every check belongs to one stage and
has its result when that stage has ended, and as long as nothing blocks, the stages so far have established what they are
for: the claimed files are in the worktree and nothing is there besides but what the tests write, the deploy is confirmed, the metrics are there and better.
The Critic sees six ended stages with every check passed.

`LeadsItsRivals` is about the decision. The supporting weights of every issue type sum to one (`SupportSumsToOne`), so a
confidence is a fraction and the cap of the code at 1 is never needed (`ConfidenceIsAFraction`); and either one of the four scored types has a tenth, or
`unknown` has (`ScoresAreFractions`), so both rankings list something. In a ranking the runner-up leads whatever else is listed (`RankingLeads`), and what neither ranking lists has less than
three tenths (`RankedTypes`). So the margin over the runner-up is a margin over all of them (`LeadIsClear`), and it stays
one, because no step between the decision and the Fixer touches the ledger. An issue type below three tenths is not among the ranked, and how far the
diagnosis leads it depends on the least confidence: `ProceedIsUnambiguous`, which asks for the margin over those too, holds for the values
`config.py` sets (0.60 and 0.10), on which TLC checks it, and not for every value it accepts (known limits).

The fourth is the rest of `TypeOK`. A reply in hand is one the loop had a step left for (`RepliesCounted`), which bounds
`steps` across the two loops; and a run that goes on has a first hypothesis to hand to the Fixer (`RunTyped`).

`AttemptsAreFinite` gives the attempt a natural number that every step lowers (`StepsLeft`): the calls of the plan, two for every reply either
loop may ask for, the stages, the polls, the request for the deploy and the one edit somebody else may slip in. An agent's share is
never more than what was set aside for it when the one before was at work (`LeftIsBounded`, `LessIsLeft`).

**Alert intake** rests on `Intake`. The file is behind memory, never beside it (`FileBehind`), so a write that
succeeds keeps what the file carried. Every remembered id, in memory or on file, is carried by a change on file,
and so is the alert of a cycle about to remember it (`Remembered`). And what correlation found
is still so when the cycle acts on it (`StillSo`): a cycle that goes on to open a change finds no open change of the service that the
scheduler made, because only the holder of the cycle lock makes one; what a `POST` opens in
between carries no alert and is not counted.

**Event delivery** rests on two. `Learnt`: both copies of memory tell the truth. An event only makes the
learner look at the change as it is, and an outcome of a change is final in the store, so reordered and repeated events say the
same; a restart that reloads the stored copy and sweeps ends with what memory had. That an outcome is final needs `ChangesAreHeld`: an open transaction
holds the row of its change, so no two of one change are open at once.

`Delivered` is why nothing else is passed over. It speaks of every number drawn, visible or not, because one that is open may become visible at any time. `Passed`: a number a
group's offset is past is done, or was overtaken. `Holds`, of each loop alone: a number below one in its batch is done, or overtaken, or in
the batch itself. A poll establishes it, since the visible numbers it leaves out are above those it takes and the open ones below are overtaken by it; and it makes the commit of the first
of a batch harmless whatever other loops of the group have committed meanwhile, so the proof does not count the relays (`FromOutbox`; for the learner on a bus, `FromBus`).
On Kafka (`FromTopic`), whatever the consumer has committed or would not seek back to is not an event, is handled, or lies between two copies of
another (`PassedOver`, `Gone`); a remembered position is that of a copy of its event (`PositionsAreRight`); and what it has read beyond is gone in the same sense or in the batch
in hand, in the order of the topic (`BatchIsOpen`). A commit moves to the last copy of the first event of the batch: what it passes lies behind the first copy, or between the two.
The poll is stated by the numbers or positions it reads, `InOrder(read)`, any enumeration of them in
ascending order (there is one), because what the library's filter returns is defined by recursion.

**Model-checked only.** The four liveness properties (`AgentRunEnds`, `ReservationEnds`, `AgentsAnswer`,
`OutcomesAreLearned`), which are out of the proof system's reach. Of `AgentsAnswer` the half that does not need fairness is proved: an attempt has only so many
steps (`AttemptsAreFinite`); that one it can take is taken, and that there is one until it is done, is what TLC checks. Every invariant and action property of a passing run is proved, except `ProceedIsUnambiguous`, which depends on the thresholds
(`RivalsAreListed` is what holds for all of them).
The provers know no fold and no sort: that is why `AgentRules` states a score as a sum written out and a ranking by who is above whom, and
`EventDelivery` a batch by the positions it reads.

## 6. What is not modelled, and why

`ChangeControl` takes a store operation as one atomic step of one process. `StoreIsAtomic` justifies
the step on Postgres; with the JSON file it holds as long as no write fails. `ChangeControl` does not
model an operation that fails for want of the database, nor two processes' restarts
against each other: `recover_interrupted_runs` escalates every run left running, those of another live process too
(`change_control.py:511`). Left out of the stores: the tables' creation at a process's first use, `get_change`
and `list_changes`, which change nothing but the process's own copy of the rows (every write on
Postgres reads its row again), and clocks that disagree between processes. `record_pr_preparation` writes
fields that none of the properties read.

`AgentRuntime` leaves out git itself, path resolution in the sandbox, the simulated metric values, and LangGraph's own recursion limit
(25 by default), which the at most 22 nodes of five attempts, the most `config.py` accepts, do not reach for a run that is alone on its change (`RunsGoForward`); a run with
another beside it may exceed its count, when the other's release gives back the budget its retry node found spent. `JenkinsDeployTarget.deploy_dev` ignores the ref it is asked to deploy; the model is of
the simulated environment, which does not. `canary` and `rollback` are called by nothing. `AgentRules` leaves out
evidence about other services, which no signal reads, and the values behind a threshold.

`AlertIntake` is on the JSON backend, and takes any open change of the service where the code takes the
one touched last. `EventDelivery` has one topic partition and one process that learns: the rebalances of a consumer group,
and the copies of incident memory that other learners keep in their own processes, are not modelled. The JSON store
that publishes to Kafka directly (`main.py:90`) is not a transport of its own.

Not modelled at all: PR preparation (one request runs git, tests and an HTTP call in sequence and ends in one write that leaves the
lifecycle alone); post-mortem, metrics, the shadow report, triage and planning (stateless
summaries and text functions); authentication and configuration (their guarantees are the assumptions above); the external clients;
replay tools, scripts, dashboard and demos. The states `monitoring`, `resolved` and `rolled_back` are reserved in the
code: the table has them and no operation moves a change there.

## 7. Plan

Done: change control with its release gate, its screen and the proofs of its safety properties; both
stores; the agents' runtime and rules; intake and delivery; and the proofs of their safety properties.
What is left, in order:

1. **Several processes**: the recovery at one process's start while another's runs go on; several learners.
2. **PR preparation**, as far as its checks against the record go.
