# Verification of the incident diagnosis agent

This directory holds TLA+ models of the program in `src/`, the TLC
configurations that check them on small instances, and TLAPS proofs for every
value of the constants. `PROJECT.json` maps each definition to the lines it
models, and lists the runs, the seeded faults that show each property can fail,
the hazards and the findings.

To check a run: `tlc -config QueueCrash.cfg MCTaskQueue.tla`. To check the
proofs: `tlapm` on each `*Proofs.tla`.

- [1 The system](#1-the-system)
- [2 Inventory](#2-inventory)
- [3 Plan](#3-plan)
- [4 The Redis task queue](#4-the-redis-task-queue-taskqueue)
- [5 The asynchronous API and its streams](#5-the-asynchronous-api-and-its-streams-ssemanager-asyncdiagnosis)
- [6 The diagnosis agents](#6-the-diagnosis-agents-evidencegovernance-evidencecollection-diagnosispipeline-llmpipeline)
- [7 The evaluation](#7-the-evaluation-evaluation)
- [8 The runbooks](#8-the-runbooks-runbookstore-runbooksearch)
- [9 The fault toggles](#9-the-fault-toggles-faultinjection)
- [10 Proofs](#10-proofs)
- [11 Findings](#11-findings)
- [12 What is not modelled](#12-what-is-not-modelled)

## 1 The system

The program diagnoses production incidents. A FastAPI service
(`src/python/app`) receives an alert, and an agent turns it into a report: it
classifies the alert, looks at the service topology, collects evidence with
tools (logs, metrics, deployments, runbooks), builds and ranks hypotheses,
verifies them, and decides a status (DIAGNOSED, INCONCLUSIVE, FAILED). The
agent is rule based (`agent/graph.py`) or driven by a language model with
rule-based guards (`agent/llm_graph.py`).

A diagnosis runs in one of three ways.

1. *Synchronously*, inside the request (`POST /diagnose`): no shared state.
2. *In the API process*: `POST /diagnose/async` stores the task in an
   `InMemoryTaskQueue` and starts a coroutine `_run_async_task`, which calls
   `DiagnosisWorker._run_diagnosis`. Clients follow it over server-sent events
   (`SSEManager`) and may cancel it.
3. *In worker processes*: `DiagnosisWorker.start()` loops over `TaskQueue`, a
   Redis stream with a consumer group, a state hash and a claim key for each
   task, and a dead-letter stream. Callers publish and cancel through the same
   class.

Three Java services (`src/java`) generate incidents: each has a fault injector
with toggles that a controller activates and resets.

Shared state, and who touches it:

| State | Written by | Read by |
| --- | --- | --- |
| Redis stream, consumer group, dead letters | `TaskQueue.publish`, `claim`, `ack`, `fail` | `claim` of every worker |
| Redis hash `diagnosis:task:<t>` | `publish`, `claim`, `cancel`, `complete`, `fail` | `is_cancelled`, `get_state`, `fail` |
| Redis key `diagnosis:claim:<t>` | `claim`; deleted by `cancel`, `complete`, `fail` | nobody |
| `InMemoryTaskQueue._states`, `_cancelled`, `_queue` | the API handlers, the background runs | both |
| `SSEManager._queues` and one `asyncio.Queue` per stream | `subscribe`, `publish`, `event_stream` | `event_stream` |
| Checkpoint `diagnosis:checkpoint:<t>` | `delete` only (nobody calls `save`) | the worker |
| `RunbookStore._runbooks`, and the `Runbook` objects it hands out | `add`, `verify`, `mark_pending_verification`, `mark_service_pending` | the search provider |
| `FaultConfig.toggles` of a Java service | the controller's threads | the threads of its endpoints |

## 2 Inventory

What each component keeps, does and must guarantee. "Hard" names what tests
hardly reach; the lines are in `hazards`.

| Component | State | Operations | Hard | Correct when | Status |
| --- | --- | --- | --- | --- | --- |
| Redis task queue (`task_queue.py`, `TaskQueue`) | stream, group, hash, claim key, dead letters | publish, claim, ack, cancel, complete, fail | several commands per operation, any interleaving, worker death between two commands, Redis errors, deadlines | one owner per task; bounded, ordered attempts; final verdicts and dead letters; nothing lost without a trace | modelled; safety proved |
| Diagnosis worker (`diagnosis_worker.py`) | current task, running flag | start, stop, _process_one, _run_diagnosis | exception paths that call `fail()` again; cancellation seen at two points only; a loop that never suspends | every message read is finished, failed or still pending; every task comes to rest | Redis loop and `_run_diagnosis` modelled; the loop over an in-memory queue not (nothing publishes to it) |
| In-memory queue (`InMemoryTaskQueue`) | states, cancelled set, list | publish, claim, ack, cancel, complete, fail | order of cancel and completion; two stores of a cancellation | a cancel before the diagnosis begins holds | as the API uses it |
| API router (`router.py`) | the three singletons | diagnose, async, stream, cancel, status | background coroutine not tied to the client | execution independent of clients | modelled |
| SSE manager (`sse_manager.py`) | queues by task | subscribe, unsubscribe, publish, event_stream | clients that come late or go early | registry exact; terminal event stops the stream | modelled |
| Checkpointer (`checkpointer.py`) | checkpoint by task | save, load, delete, resume order | never saved | resume skips exactly the finished nodes | load/delete are worker steps |
| Rule-based agent (`graph.py`, `evidence_governance.py`) | `AgentState` of one diagnosis | the node sequence of `diagnose` | shared tool budget; ranking changed after sorting; merge and swap of hypotheses | budget never exceeded and exhaustion reported; status matches evidence and confidence | modelled; safety proved |
| LLM agent (`llm_graph.py`, `service.py`, `llm/client.py`) | the same | plan, collect, build, validate, report | free-form answers; status override | no conclusion without evidence | modelled; safety proved |
| Tool executor (`tool_executor.py`, `tool_definitions.py`) | none | validate, execute with timeout | timeout and error paths | every call yields one result | modelled |
| Runbook store and search (`runbook_*.py`) | versions by id; index | add, verify, mark pending, search | index built once; versions are shared objects; several readings of the clock in one search | nothing superseded is served, nothing unverified is called evidence, nothing indexed is lost | modelled; safety proved; retrieval metrics not |
| Evaluation (`evaluation/*.py`) | scores so far | run every case, score, publish | disturbances that add up | the published numbers; no case misled | modelled; safety proved; comparison of result files not |
| Evidence providers | none | fake tools, log files, Prometheus | outages, wrong or unrelated evidence | - | fake tools modelled; the others are arbitrary inputs |
| Fault injection (Java) | toggles in a map | activate, deactivate, reset, inject | unsynchronised map, request threads | a reset is complete; a request gets what was asked for | modelled; safety proved |
| Log processing (`log_processor.py`), agent trace (`agent_trace.py`) | none; spans | filter, trim; record | - | - | not modelled: only tests call them |
| Database schema, deployment, demos | - | - | - | - | not modelled |
| Team scripts (`.ai-team`) | run registry file | update, sync | - | - | not modelled: development tooling |

## 3 Plan

Order: what runs concurrently and survives failures first, then the logic of
one diagnosis, then the auxiliary stores.

| # | Module(s) | Of | Composed with | Theorems |
| --- | --- | --- | --- | --- |
| 1 | `TaskQueue` | Redis queue, worker loop, callers | - | type correctness, single owner, ordered attempts, claims (`TaskQueueProofs`) |
| 2 | `TaskLifecycle` | what the queue promises of its tasks | refined by `TaskQueue` (`INSTANCE ... WITH`) | the refinement, dead letters, verdicts and acknowledgements (`TaskQueueProofs`) |
| 3 | `SSEManager`, `AsyncDiagnosis` | streams; router, in-memory queue, background run | `AsyncDiagnosis` extends `SSEManager` | type correctness, `RegistryIsExact`, `EarlyCancelHolds`, `OneTerminalEvent` (`AsyncProofs`) |
| 4 | `Ordering`, `EvidenceGovernance`, `EvidenceCollection`, `DiagnosisPipeline` | lists; governance operators; the state of a diagnosis and its tool calls; nodes of `graph.py` | each extends the one before | lists (`OrderingProofs`); merging, cutting, filtering (`GovernanceProofs`); every invariant of the run (`PipelineProofs`) |
| 5 | `LLMPipeline` | nodes of `llm_graph.py`, model answers nondeterministic | extends `DiagnosisPipeline`, its fallback | every invariant of the run (`PipelineProofs`) |
| 6 | `Evaluation` | the cases, the fake tools, the scores | extends `DiagnosisPipeline`, which it runs case after case | every invariant of the run (`EvaluationProofs`) |
| 7 | `RunbookStore`, `RunbookSearch` | versions and lifecycle; index and provider | `RunbookSearch` extends `RunbookStore` | every invariant of the run (`RunbookProofs`) |
| 8 | `FaultInjection` | toggles under request threads and the controller | - | both invariants of the run (`FaultProofs`) |

All modules are written, and every safety invariant and action property of the
passing runs is proved, for every value of the constants. What the proofs cannot
reach, liveness, stays with TLC (end of section 10).

## 4 The Redis task queue (`TaskQueue`)

**State.** `status` and `retry` are the fields of the task's hash, `claim` the
claim key, `stream` the tasks stream, `delivered` the last-delivered index of
the consumer group (XREADGROUP with `>` reads only beyond it), `acked` the
acknowledged indices (the pending entries are the delivered ones outside it),
`dlq` the dead letters. `publisher` and `canceller` say where the callers
stand. A worker has a program counter `pc`, the message it handles `msg`, the
`retry_count` it read in `fail()` `seen`, and `inTry`, which tells a `fail()`
called inside the `try` block (the deadline check) from the exception handler's.

**Steps.** Every Redis command is one atomic step, since other processes run
between any two. A pipeline-free operation of n commands is n actions:

| Code | Actions |
| --- | --- |
| `publish` | `PublishState`, `PublishSend` |
| `cancel` | `CancelMark`, `CancelRelease` |
| `claim` | `ClaimRead`, `ClaimExpired` + `ClaimDrop`, `ClaimKey`, `ClaimMark` |
| `_process_one` | `CheckCancelled`, `AckCancelled`, `DeadlineExceeded`, `Prepare`, `Gate`, `Diagnose`, `Ack`, `ForgetCheckpoint` |
| `complete` | `Complete`, `CompleteRelease` |
| `fail` | `FailRead`, `FailMark`, `FailSend`, `FailRelease` |
| worker or caller dies | `Crash`, `Restart`, `PublisherDies`, `CancellerDies` |
| a command raises | `ErrorOutsideTry`, `ErrorInTry`, `ErrorInNestedFail` |

**Abstractions.** A deadline is not a clock: each of the two checks may find it
passed. Commands without an effect on this state are merged with their
neighbour (EXPIRE; the PUBLISH of `cancel`, which nobody subscribes to). The
EXISTS and HSET of `cancel` are one step because no command deletes the hash.
The payload is abstract; whether it parses and whether the diagnosis raises are
choices. An error of a command means it was not executed; a stored deadline
without a time zone, whose comparison raises `TypeError` out of `claim()`
(`task_queue.py:160-168` catches `ValueError`), has the effect of such an error
at this place and is counted as one. A worker's event
streams do not appear: `sse_manager` is local to the process, so what a Redis
worker publishes there has no listener.

**Specifications.** `Spec` has crashes; `FaultSpec` adds Redis errors at every
command but one, the last command of a `fail()` nested in the `try` block;
`LossySpec` adds that one too. `FairCrashSpec` and `FairFaultSpec` add fairness
to the first two. The split is where the guarantees of the code end: with the
one error of `LossySpec` a task is published twice (section 11).

`Crash`, `Restart` and `Goto` are no code: a crash is what the loop of `start()`
is exposed to, and nothing in the repository starts a dead worker again, so
`Restart` is the environment's. It may happen and is never assumed to.

**Abstract specification.** `TaskLifecycle` says in four actions what the queue
amounts to: messages wait and are delivered first in, first out, each to one
worker; a worker that holds a message sends its task again under a higher
number, or closes it; how a task ended never changes. Under the mapping at the
end of `TaskQueue` the undelivered messages wait, the messages of workers that
can still decide are held, and a task's fate is read off its publisher, the
dead letters and the acknowledgements. So `publish` is `Submit` at its second
command, `claim` is `Deliver` at XREADGROUP, `fail` is `Retry` or `Close` at its
XADD, and a crash is `Close`, of a task that is lost, or nothing. Whatever else
a command changes, it stutters.

**Runs.**

| Run | Bounds | Shows |
| --- | --- | --- |
| `queue_crash` | 2 tasks, 2 workers, 1 retry, crashes | the safety properties below without Redis errors, and the refinement |
| `queue_faults` | 1 task, 2 workers, 3 retries (the code's), 2 Redis errors, crashes, fairness | those that survive Redis errors, the refinement, and progress |
| `queue_cancel`, `queue_recovery` | smallest that fails | findings, see section 11 |

- `SingleOwner`: a task is never both on the stream and with a worker, nor with
  two workers. This is not by construction: `fail()` puts the task back while
  its own message stays pending and while it still has a command to send.
- `AttemptsInOrder`: retry counts increase strictly along the stream and stay
  within the budget, although `fail()` reads the count in one command and
  stores it in another.
- `AckedIsLast`, `StuckIsPending`: an acknowledgement is never followed by a
  retry, and a task nobody will process again has a verdict or a pending entry.
  So the group's pending list is a complete list of what crashes lost.
- `DeadLetterIsFinal`: a dead-lettered task is never processed again.
- `ClaimNamesHolder`: the claim key names the worker that has the task, or is
  gone. A slow worker never leaves its own name on another's task.
- `VerdictIsKept`: only a cancel changes COMPLETED or FAILED.
- `ImplementsLifecycle`: the refinement.
- `EveryTaskRests`: as long as some worker is up again and again (`SomeWorker`),
  every published task comes to rest for good, whatever crashes and whatever
  Redis refuses; when only crashes disturbed it, with a verdict or with a
  message still pending. `EveryTaskSettles`: when nothing
  disturbed it at all, with a verdict.

`AckedIsLast`, `StuckIsPending` and `VerdictIsKept` are not claimed with Redis
errors: an error in `ack()` after `complete()`, or in the deletion of the
checkpoint after `ack()`, takes the exception path, and `fail()` puts the
COMPLETED task back on the stream. In the second case a crash in that `fail()`
leaves the task RETRYING with nothing pending.

**Why the bounds are enough.** Two workers are the interleavings of a task with
its own retry: a third can hold the task only after one of the two has let go,
by `SingleOwner`. Two tasks show that workers do not confuse them and let a
worker leave one task for another. One retry gives a first and a last attempt;
`queue_faults` has the code's three. `MaxFaults` bounds the Redis errors: two
reach the double `fail()` followed by another error. Crashes, cancels and
deadlines are not bounded. All of these but progress is also proved for all
values of the constants (section 10).

**Fairness.** Weak fairness of each worker (the loop of `start()` runs until
`stop()`, and the tools and the model have timeouts, so `Diagnose` ends) and of
a caller that began a call. Publishing and cancelling are never required, and
neither is the restart of a dead worker: `EveryTaskRests` and
`CrashedTaskRecovers` have `SomeWorker` as a premise instead, since without any
worker nothing is read. One worker that stays up fulfils it, and so do workers
that crash and restart in turn. Deadlock checking is off: a system without tasks
may stop.

## 5 The asynchronous API and its streams (`SSEManager`, `AsyncDiagnosis`)

**Steps.** Everything runs on one event loop, so a step is what a coroutine
does between two suspensions. An `asyncio.Lock` that is free does not suspend,
and `SSEManager` never suspends while it holds its lock: `subscribe`,
`unsubscribe` and `publish` are single steps. The run of a task suspends in
`agent.diagnose` only, so the terminal event and `complete()` are one step.

**State.** `queues` is `_queues`, the registered streams of each task;
`stream`, `inbox`, `handed` describe the stream of each client: its task, its
`asyncio.Queue`, and the event it is suspended on while the client takes it.
`status`, `cancelled` and `backlog` are the fields of `InMemoryTaskQueue`, and
`run` is where the background coroutine stands. `CancelledError` is not an
`Exception`: a run whose task was cancelled before it began ends `skipped`,
neither completed nor failed.

**Runs.** `async_runs`: two tasks, two clients that subscribe, disconnect and
come back, cancels at any time. `RegistryIsExact`: a queue is registered exactly
while its stream is open. `EarlyCancelHolds`: a task that reads CANCELLED before
its run has looked is never diagnosed, completed or failed, and reads CANCELLED
ever after, although the status that clients read and the set that the run asks
are two stores. `OneTerminalEvent`: a stream is given one event at most, from a
run that completed. `EveryRunEnds` (clients never keep
a run from ending) and `ListenersAreServed` (a stream open before the run
completes ends by itself) are its liveness properties. `async_end_states` (a
cancel during the diagnosis, or after it) and `async_streams` are findings, see
section 11. Cancelling an id that was never
published adds it to `_cancelled` and is left out: the server draws the ids, so
none ever is. Two tasks and two clients cover two streams of one
task, streams of different tasks, and a client that changes tasks; there are no
counters to bound, and each run's state space is complete.

**Fairness.** The event loop runs every ready coroutine (`RunStep`,
`StreamStep`), a diagnosis ends by its timeouts, and a connected client reads.

## 6 The diagnosis agents (`EvidenceGovernance`, `EvidenceCollection`, `DiagnosisPipeline`, `LLMPipeline`)

One diagnosis runs alone: its state is a local object. What makes it hard is the
number of ways in which evidence, failures and budget combine before the ranking
decides.

**Lists.** Filtering, sorting and concatenating are defined in `Ordering` by the
place that each element takes, not by recursion, so that proofs can expand them:
`At` keeps some places of a list, `SortedBy` is Python's stable sort by a key,
`Flattened` appends lists.

**State.** `EvidenceCollection` holds the fields of `AgentState` (and
`LLMAgentState`): plan, evidence, failures, hypotheses, calls used, and the
incident's and the report's status; `node` is the node that runs next. A piece
of evidence is the number of its tool call (the code draws a random id) and what
the rules read in it: the kinds of messages in the logs, the level of a metric
against its rule, the age and kind of the last deployment. A plan step is its
tool, its metric, and whether it asks about the incident's own service.

**Steps.** One action per node of `diagnose()`, one per tool call. A call
returns anything the tool can return, or fails by validation, timeout or
exception; the executor keeps no state. A metric baseline of zero, by which
`graph.py:347` divides, is left out: the diagnosis would end in an exception.

| Code | Definitions |
| --- | --- |
| `_load_incident`, `_load_topology`, `_create_plan` | `LoadIncident`, `LoadTopology`, `CreatePlan` |
| `_collect_initial_evidence`, `_collect_evidence`, `execute` | `CallTool`, `StopCollecting`, `Results` |
| `_build_hypotheses` | `BuildHypotheses`: `Suggested` by each piece of evidence, `MergeCauses`, `RemoveMetricContradicted`, `SortThenCut`, `BackedFirst` |
| `_verify_hypotheses` | `VerifyHypotheses`; it reads the clock again, so a deployment may have aged out of the window since |
| `_validate_evidence`, `evidence_governance.py` | `ValidateEvidence`, `FilterWithoutEvidence`, `FullyTraceable`, `DetermineStatus` |
| `_generate_report` | `GenerateReport` |
| `_llm_create_plan`, `_merge_required_steps` | `LLMCreatePlan`, `MergeRequiredSteps` |
| `_llm_build_hypotheses`, `_rule_based_hypotheses` | `LLMBuildHypotheses`, `Guardrails`, `RankGuardrailsFirst` |
| `_llm_generate_report` | `LLMGenerateReport`, `StatusFor` |
| a request that raises | `LLMRaises` |

`LLMPipeline` extends `DiagnosisPipeline`: without an API key its steps are the
rule-based agent's. The model's answers are arbitrary: steps from `Proposals`,
claims from `Claims` that cite nothing, invented evidence or collected evidence,
and any status.

**Runs.**

| Run | Bounds | Shows |
| --- | --- | --- |
| `pipeline_rules` | every alert and kind of service; budgets 0, 3, 4, 5; at most 2 of the 8 kinds of messages in one log query | the properties below, of the rule-based agent |
| `llm_agent` | two alerts, budgets 1, 3 and 5; at most 2 proposals of 5 and 2 claims of 5 | what proposals, claims and proposed statuses can and cannot do |

- `DiagnosisIsSupported`: a diagnosis names a cause that collected evidence
  supports with a medium confidence at least and that no evidence refutes,
  through merging, sorting, cutting, demotion and the two filters.
- `StrongestAreListed`: a cause the evidence speaks for is missing only when it
  is refuted or three causes as strong are there.
- `StrongestLeads`: the first cause of a report is as strong as any that the
  evidence speaks for, a refuted pool excepted, whatever was swapped, demoted or
  filtered after the ranking.
- `InconclusiveHasReason`: a report is inconclusive only without a usable cause,
  or behind a refuted regression, which stays first when the verification
  demotes it (section 11).
- `ReportIsRanked`: ranks are the order, causes distinct, backed ones first.
- `BudgetIsKept`, `ShortfallIsReported`: the calls stay within the budget, and
  each planned step left evidence, a failure, or the note that the budget ran
  out.
- `EvidentCauseIsDiagnosed`: what the agent's required steps show is diagnosed
  with a high confidence, whatever the model proposes, claims or leaves out,
  except the pool when a low pool was measured anywhere (section 11).
- `RequiredStepsTaken`: proposals never displace required steps.
- `ReferencesAreReal`: invented evidence never reaches a report.
- `StrongDiagnosisStands`: a proposed status never takes back a report whose
  leading cause is backed and highly confident. The other direction, a weak
  report that is called a diagnosis, is possible (section 11).

**Why the bounds are enough.** The plans have four steps at most, so budget 5
covers them with the topology call, 4 and 3 cut them, 0 forbids every call. Two
kinds of messages with the other steps' evidence give five causes, two more than
the report keeps. In `llm_agent` two guardrail causes and two claims overflow
the three places; the further claim and proposals that the code would read add
no new kind. Which collected evidence a claim cites does not matter to the code,
so claims cite the first. The patterns are reduced to the two that the guardrails
read, and the service to one, since this agent's rules ignore it; the fallback is
checked in full by `pipeline_rules`. Deadlock checking is off: a diagnosis ends.
There is no liveness property: each action moves to the next node or makes one
call of a finite plan.

## 7 The evaluation (`Evaluation`)

`run_evaluation` and the four experiments diagnose the cases of a dataset, one
after the other, and publish counts. `Evaluation` extends `DiagnosisPipeline`
and runs its nodes as they are, over the fake tools of each case.

**State.** `cases` is the list that is iterated over, `scores` holds for each
diagnosis what `score_report` reads (causes in order, status), `summary` the
published numbers. A case is one of the twelve fault templates with what
disturbs it: noise, an unrelated deployment, a wrong runbook, a tool that is
out.

| Code | Definitions |
| --- | --- |
| `dataset.py` | `Templates`, `Dataset`, `CaseSet`, `Disturbance` |
| `fake_tools.py` | `LogScenario`, `MessagesIn`, `MetricsScenario`, `LevelIn`, `ReleaseIn`, `Answer` |
| `create_agent_for_case`, the loop of `run_evaluation` | `CreateAgent`, `CallFakeTool`, `VerifyFresh`, `RunNode`, `ScoreReport` |
| `score_report`, `compute_metrics` | `Top1`, `Top3`, `Violates`, `SymptomAsCause`, `Rates` |
| `experiments.py` | `Agents`, `WithoutRunbook`, `WithoutVerification`, `FullLogs` (the first variants), `Summarize` |

The fake answers are given by what the rules read in them; runbooks are read by
no rule. A fake deployment is dated at the moment of the call, so it is still
recent when the verification reads the clock again. Rates are counts; the code
divides each by the number of cases.

**Runs.** `evaluation` runs the 48 cases, the experiments' twelve, and for every
template and every combination of disturbances a list of three: the disturbed
case, a case of another fault, and the clean case. Every property is checked
after every diagnosis. `CaseLists` are the lists that the experiments are called
with. `EvaluationAssumption` says what the proofs need of the constants: the
lists are not empty and hold cases of the twelve templates, disturbed in any
way; the alerts and services of the templates are among those of the model; and
budgets are at least five calls, since the agents are created with the default,
ten, and no plan needs more than four and the topology.

- `NumbersAsReported`: the numbers in `docs/evaluation-report.md`.
- `DisturbanceNeverMisleads`: under any disturbance the forbidden cause is not
  listed, and a wrong diagnosis is one that the report's own measure, symptom
  taken for the cause, flags. The dataset never disturbs a case in two ways at
  once; the run does.

Each case gets an agent of its own and each `diagnose()` a state of its own
(`CreateAgent`), so that cases do not influence each other holds by construction
and is not claimed. The scores of `run_evaluation(use_llm=True)` without a model
are computed by the run, too, but not as documented (section 11).

## 8 The runbooks (`RunbookStore`, `RunbookSearch`)

**State.** The store's versions are references to mutable objects which `get()`
and `get_all_versions()` hand out, so `objects` are the objects and `versions[r]` the positions in
`objects` of the versions of `r`. `now` is the clock. `RunbookSearch` adds the
index, which `RunbookSearchProvider` builds once, and the search that runs.

| Code | Definitions |
| --- | --- |
| `RunbookStore.add` | `Add`, `AddAgain` (an old object that the caller got from the store) |
| `verify`, `mark_pending_verification`, `mark_service_pending` | `Verify`, `MarkPending`, `MarkServicePending` |
| `get`, `get_all_versions`, `get_active`, `is_active` | `VersionsOf`, `Active`, `Usable` |
| `_rebuild_index` | `BuildIndex` |
| `search` | `Score`; `Best`; `Read`, once for each hit |
| `RunbookSearchProvider.execute` | `Report` with `InService`, once for each result; `Respond` |

**Abstractions.** A text stands for the fields that the content hash covers. A
query is the set of texts that share a word with it, and the BM25 scores of
those are positive and in any order. A search reads the clock when it scores
(the readings for the single runbooks are taken as one), again for each hit that
it looks up, and again for each result that it reports, so a version can expire
between any two; nothing but time interrupts it, since the store has no
asynchronous operation. A version is usable up to and including the instant of
its `effective_to`, as the code compares. The call of `mark_service_pending` is
the one that follows a service upgrade: `checked` is history, whether a runbook
was added or verified since.

**Run.** `runbooks`: two runbooks, two services, two texts, three objects, three
versions of each, two instants. Three versions are the least with an old version
put back after its replacement; two instants separate before and after.

- `SupersededStaysOut`: once replaced, a version is never usable after that
  instant, although `verify` makes it VALID again, and although an old object
  that is put back is at two places of the history.
- `UpgradeIsHonoured`: a runbook that is usable after its service was marked was
  added or verified since.
- `ServedAreCurrent`: what a search reports is the newest usable version of its
  runbook still when the answer holds it, although the index is old, and what it
  calls valid evidence was checked since its service was last marked.
- `IndexedAreFound`: a search that is not cut finds every runbook which still
  says what was indexed and is active to the end, in the version that is active
  then, and calls it valid evidence: no reading of the clock in between loses it.

A runbook added or revised after the index was built is searched by its old text
or not at all; no sentence of the repository says otherwise, so `IndexedAreFound`
leaves it out.

## 9 The fault toggles (`FaultInjection`)

**State.** `toggles` are the `FaultToggle` objects and `entry` is the `HashMap`
from fault ids to them. A controller call and an endpoint's request stand at a
step each. `asked`, `armed` and `spoiled` are history, for the properties only.

**Steps.** Nothing is synchronised: a step is what a thread does to one toggle
or one entry. `computeIfAbsent` is `Lookup` and `Insert`; `activateFault` sets
the flag (`SetActive`) and then the parameters (`SetParameters`); `resetAll`
visits the toggles one by one (`VisitToggle`); `simulateSlowResponse` looks the
toggle up twice (`Enter`, `GetParameters`).

**The map.** Java promises nothing of a `HashMap` that several threads change.
The model takes what its implementation does with fewer entries than its resize
threshold, 12 (a service has at most five faults): of two insertions at the
same time either may lose the entry of the other, or raise
`ConcurrentModificationException` (`InsertRaises`); entries are otherwise found
while they are there. `forEach` raises at its end, with every toggle visited.
Fields of a toggle are plain; each write is taken to be visible to the next
request. `enabled` is constant, since nothing sets it. A `delay_ms` that is no
number makes `simulateSlowResponse` raise (`FaultInjector.java:36-37`) and is
left out, as is the GET that only shows the toggles.

**Run.** `fault_toggles`: two faults, one that delays and one that raises, two
controller threads, one endpoint thread, three toggles ever created (one more
than there are faults, so that a lost entry is created again).

- `ResetIsComplete`: after a reset a fault is inactive unless its activation
  began later or was under way when the reset began.
- `QuietRequestIsServed`: a request during which nobody calls for its fault gets
  what the last call for it asked, whatever happens to other faults at the same
  time; except a fault whose entry was lost to an insertion of another one, or
  that had two calls at once (`spoiled`).

Without the exception for lost entries the second property fails, so the data
race is real; with two calls for one fault at once a request can be delayed by
the parameters of an earlier activation, because the flag is set before the
parameters and `reset` leaves the parameters in place.

## 10 Proofs

`TaskQueueProofs` extends `TaskQueue`. All theorems hold for any sets of tasks
and workers, and any `MaxRetries` and `MaxFaults` in `Nat` (`ConstantsAssumption`,
which TLC evaluates in the queue runs).

- `TypeCorrect`: `LossySpec => []TypeOK`. `TypeOK` is inductive as it stands.
- `OwnerCorrect`: `FaultSpec => []SingleOwner`. `SingleOwner` alone is not
  inductive: a worker at `failSend` puts its own task on the stream, which keeps
  the owner single only because that worker stops deciding the task in the same
  step; and a second `publish` would break it. The invariant `OwnerInv` adds
  `SentOnce`: a task whose publication is not sent has no message and no worker.
  The proof has one step per action; those that move no message and widen no
  worker's steps follow from one lemma on what they leave alone.
- `AttemptsCorrect`: `FaultSpec => []AttemptsInOrder`. The invariant `CountInv`
  says what relates the stream to the stored count: no message of a task carries
  more than the hash holds; a worker about to mark a failure has read the
  current count; and a worker about to send a retry has stored one more than it
  read, which no message on the stream exceeds. It is inductive together with
  `OwnerInv`: with two owners, two `fail()` calls could read one count.

- `ClaimCorrect`: `FaultSpec => []ClaimNamesHolder`. Inductive together with
  `OwnerInv`: two workers past their claims, or one past it and one claiming,
  have messages of different tasks.

`FaultSpec` is weaker than `Spec`, so the theorems hold of that as well.
`LossySpec` is where `SingleOwner` fails (section 4).

Its second part proves the refinement, under the same assumption.

- `LifecycleCorrect`: `FaultSpec => ImplementsLifecycle`, the refinement. Each
  step of the queue is classified: `PublishSend` is `Submit`, `ClaimRead` is
  `Deliver`, `FailSend` with retries left is `Retry`; every step by which a
  worker stops deciding its message otherwise (a dead letter, the last call
  after `ack`, a cancelled task, a crash, an error outside try) is `Close`; the
  rest stutters. Besides `OwnerInv` (a closed task is in no other hand) and
  `CountInv` (retries are numbered upwards) it needs `DropIsDead`: the message
  that `claim` drops is a dead letter already, so acknowledging it changes no
  fate.
- `DeadLetterCorrect`: `FaultSpec => []DeadLetterIsFinal`, read off the
  refinement: no action of `TaskLifecycle` changes the fate "dead", and only a
  worker that was deciding the task adds its letter.

The last part of `TaskQueueProofs` is about `Spec`, where only crashes disturb
the queue. Each of its properties fails under `FaultSpec`: a Redis
error between `ack` and the end of the try block makes the handler call `fail`
for a task that is COMPLETED and acknowledged (section 4).

- `VerdictCorrect`: `Spec => VerdictIsKept`. The invariant `VerdictHeld` says
  that from the verdict on, nobody has a message of the task but the worker that
  gave it, and that one is past every step that marks the hash.
- `StuckCorrect`: `Spec => []StuckIsPending`. `AckInv` says who may acknowledge:
  busy workers hold different messages, none of them acknowledged before its
  holder does, and that comes after a verdict; so a published task has a verdict
  or an unacknowledged message (`NotForgotten`), which is pending once nobody
  will act on it.
- `AckedCorrect`: `Spec => []AckedIsLast`. `HeldLast` adds that a worker that may
  still acknowledge holds the last message of its task; that nobody sends another
  behind its back follows from `SingleOwner`, `DeadLetterIsFinal` and `AckInv`.

`OrderingProofs` proves what the operators of `Ordering` return for any list:
the elements at the chosen places, each once, in the order of the places or of
the keys. Recursive definitions would need induction over data, which the
provers cannot do; these need only that a finite strict order can be numbered
(`OrderListed`). `GovernanceProofs` builds on it what merging, refuting, cutting
and filtering do to any list of hypotheses: merged causes are distinct and as
strong as their strongest part (`MergedOf`, `MergedCauses`), the three kept
precede all that is cut (`LeastThree`), filtered hypotheses keep causes and only
lose what is unknown or unbacked (`FilteredOf`, `ValidatedOf`).

`PipelineProofs` extends `LLMPipeline` and `GovernanceProofs`; its theorems hold for any
alerts, services, patterns, budgets, proposals and claims allowed by
`CollectionAssumption` and `LLMAssumption`, which TLC evaluates in the runs.

- `BudgetCorrect`, `LLMBudgetCorrect`: `BudgetIsKept` under `Spec` and under
  `LLMSpec`. With the type of the two counters it is inductive: two actions
  call a tool, each below the budget; the others leave both counters alone.
- `ShortfallCorrect`: `Spec => []ShortfallIsReported`. It is not inductive: it
  says nothing before the report. `ShortfallInv` adds that no report exists
  until the collection has ended, and that from then on the account of the
  plan's steps is complete; it needs the types of plan, evidence and failures,
  since the account counts them.
- `TypeCorrect`, `LLMTypeCorrect`, `LLMShortfallCorrect`, `RankedCorrect`,
  `ReferencesCorrect`, `StrongDiagnosisCorrect`: by `ReportInv`, which both
  agents keep. No property of reports says anything before the report, so it
  says what each node owes the next: the hypotheses always have distinct causes,
  and from the validation on they are ranked and cite collected evidence only.
- `DiagnosisCorrect`, `ListedCorrect`, `InconclusiveCorrect` under `Spec`: by
  `RuleInv`. From the verification on, the list is `Argued`: each hypothesis is
  grounded in evidence that speaks for its cause, a cause that the evidence
  proposes is listed or three as strong are, and a strong proposal puts a strong
  cause first. All three are needed of the same list, because the cut, the
  demotion of a refuted regression and the swap of an unbacked first cause each
  preserve one only with the help of the others. The clock is read again in the
  verification, so the confidence of a regression is tied to that second reading.
- `LeaderCorrect`: `Spec => []StrongestLeads`, by `HeadInv`. A list is `Headed`
  when its first cause is backed and as strong as any proposed one, and is the
  first that the evidence suggested when that is as strong as any: the sort is
  stable. The demotion lowers the first hypothesis in place and the filters drop
  others, so what survives is a statement on the evidence, not on the confidence
  written in the list. It is inductive together with `RuleInv`, which says that
  the first one keeps its evidence.
- `RequiredStepsCorrect`: by `RequiredInv`: while calls are made, the k-th call
  belongs to the k-th step of the plan, which starts with the required ones.
- `EvidentCauseCorrect`: by `EvidentInv`. What the required steps show becomes a
  guardrail of high confidence; guardrails come first in the ranking, a claim
  merged into one cannot weaken it, and the required evidence comes first and
  shows so few causes that they are among the first three findings, which
  nothing cuts.

`RunbookProofs` extends `RunbookSearch` and `OrderingProofs`, under
`StoreAssumption` and `SearchAssumption`: any runbooks, services, texts and
labels, and any bounds; a search asks for at least one result.

- `StoreTypeCorrect`, `SupersededCorrect`, `UpgradeCorrect`: the three
  properties of the store under `StoreSpec`. The invariant `IInv` adds to the
  types that every object is a version of some runbook (`AllStored`), that a
  superseded version has an `effective_to` that has been reached
  (`SupersededIsOver`), which is what survives `verify` and putting an old
  version back, and that every object in status VALID is checked
  (`ValidIsChecked`), which needs `AllStored`: `mark_service_pending` reaches
  stored objects only. `SearchUsesStore` carries them over to `SearchSpec`.
- `ServedCorrect`, `FoundCorrect`: `SearchSpec => []ServedAreCurrent` and
  `[]IndexedAreFound`, by `SearchInv`, inductive together with `IInv`. While a
  search runs only the clock moves, and a version that is active after a tick was
  active before (`TickActive`): had another version been in its place, it would
  be a later one, by which the first is superseded, and `SupersededIsOver` says
  that it is over. So the hits keep holding every match that is still active
  (`HitsAreComplete`), the results every such hit that was read in the version
  active now (`ReadIsKept`), and the answer every usable result that was reported
  (`ToldIsKept`); and no result has a newer usable version (`ResultsAreCurrent`).
  That valid evidence is checked is `ValidIsChecked`, read at a later instant.
  That all matches can be hits needs the runbooks in the store to be finitely
  many (`FewKnown`), an invariant and not an assumption on the set of ids.

`AsyncProofs` extends `AsyncDiagnosis`, for any tasks and clients, under
`SSEAssumption` (no task is `NoTask`).

- `AsyncTypeCorrect`, `RegistryCorrect`: `TypeOK` and `RegistryIsExact` under
  `Spec`. With the types, `RegistryIsExact` is inductive: `Close` takes the queue
  out of the one entry it can be in.
- `EarlyCancelCorrect`: `Spec => EarlyCancelHolds`, by the invariant
  `CancelKnown`, which ties the two stores: a task that reads CANCELLED before
  its run begins is in the set that the run will ask, since nothing else writes
  that status and nothing empties the set.
- `OneEventCorrect`: `Spec => []OneTerminalEvent`. `OneEvent` says that a stream
  has an event only when the run of its task is over; a run ends once, and needs
  `RegistryIsExact` to reach the streams of its own task only.

`FaultProofs` extends `FaultInjection`, for any faults, slow or not, operators,
requests, and number of toggles.

- `ResetCorrect`: `Spec => []ResetIsComplete`. `ToBeVisited` says more than the
  property while a reset runs: a fault that is active though nothing activated it
  since the reset began is still among those that this reset visits. It needs
  `Owned`: no toggle belongs to two faults, not even one that a call has found
  and not yet changed.
- `ServedCorrect`: `Spec => []QuietRequestIsServed`. For every fault not spoiled,
  `Exclusive` says that its calls do not overlap, and `AsAsked` that its toggle
  is what the last call asked for, except for what a running activation or reset
  has yet to write; `Served` carries that from the first look of a request to
  its second.

`EvaluationProofs` extends `Evaluation` and `PipelineProofs`, under
`CollectionAssumption` and `EvaluationAssumption`: for any lists of cases, each
disturbed in any way, and any budgets of at least five.

Both theorems rest on `EvalInv`: every score is a function of its turn
(`Scored`), and until a score is written the diagnosis `Tracks` its turn: alert
and service are the case's, the evidence is what the tools of the case answer to
the first steps of the plan, and the hypotheses are the functions of service and
evidence that the nodes so far compute.

- `DisturbanceCorrect`: `EvalSpec => []DisturbanceNeverMisleads`. `Speaks` says
  for which causes, and how loudly, the rules speak in a turn, step by step of
  its plan. They never speak for the forbidden cause of a template, and with
  more than a low confidence for the expected one, the spike and, in two faults,
  one more (`OnlyVoices`). `HeadInv` keeps that one from the top: the pool of a
  slow query is refuted or suggested after it (`SlowLeadsPool`), the failing
  service is weaker than the exhausted connections (`ResourceLeads`).
- `NumbersCorrect`: `EvalSpec => []NumbersAsReported`. With the tool that shows
  its fault, a case is diagnosed right (`ScoreRight`), and none of the dataset is
  without it (`DatasetShows`), so every score of the dataset is right
  (`RightScores`). `Published` says that the numbers are those of all the turns;
  the turns of an agent are then counted (`OneAgent`, `TwoAgents`).

Only model-checked: liveness (`EveryTaskRests` and the other temporal
properties, since the prover does not do fairness or ENABLED). The properties of
the runs that fail (section 11) are refuted, so there is nothing to prove of
them.

## 11 Findings

Each is a run that TLC finds violated, for a sentence of the repository that
the code does not keep.

| Run | The repository says | The code does |
| --- | --- | --- |
| `queue_cancel` | a cancelled task is not processed (`test_phase5.py:206`) | `claim()` writes CLAIMED over CANCELLED before the worker reads it |
| `queue_recovery` | after a crash, recovery through pending claim (development document, line 824) | no code reads pending entries |
| `async_streams` | "Stop stream on terminal events" (`sse_manager.py:106`) | failed and skipped runs publish none, and late clients get none |
| `async_end_states` | no way leads out of COMPLETED or CANCELLED (`agent-state-diagram.md:126-139`); cancelling answers "Task not found or already completed" (`router.py:219`) | a cancel during the diagnosis is acknowledged, and the end of the diagnosis overwrites it; a completed task can be cancelled, and then reads CANCELLED |

The modules state five more sentences as properties that the code does not keep.
No run is kept for them, but TLC finds each violated within two minutes when it is
added as an invariant to the configuration named here, or checked under the
specification named.

| Property, and where to add it | The repository says | The code does |
| --- | --- | --- |
| `DeadLetterIsFinal` under `LossySpec`, 1 task and 1 Redis error in `QueueFaults.cfg` | dead letters are "permanent failures" (`task_queue.py:6`) | an error in the last command of `fail()` inside the `try` block leads to a second `fail()`: another worker has dead-lettered the task, and this one is about to re-publish it |
| `InconclusiveMeansWeak`, `PipelineRules.cfg` | DIAGNOSED: "has evidence-backed hypothesis with HIGH/MEDIUM confidence" (`evidence_governance.py:142`) | the status is read off the first hypothesis; a demoted regression there hides such a hypothesis in second place |
| `DiagnosisHasEvidence`, `LLMAgent.cfg` | "LLM is not allowed to diagnose without evidence." (`final-acceptance.md:112`) | a proposed DIAGNOSED replaces the governed status, also of an unknown cause without evidence |
| `EvidentCauseIsListed`, `LLMAgent.cfg` | "an LLM cannot miss obvious root-cause evidence collected by mandatory tool calls" (`llm_graph.py:273-274`) | a low pool of another service, which only the model asked to measure, removes the exhausted pool that the required logs show |
| `FallbackIsBaseline`, `Evaluation.cfg` | "The fallback produces the deterministic baseline result." (`evaluation-report.md:75`) | the fallback agent is built over one fixed scenario: 4 of 48 cases right instead of 48, and 28 list the forbidden cause |

Also met while modelling, and visible in the models' actions, but without a run
of their own:

- "Create a new version when the content hash changes" (`runbook_store.py:11`),
  but putting an old version back adds the same, deprecated object to the
  history again, and no version is active (`AddAgain`).
- "Lower trust for stale runbooks until they are re-verified."
  (`runbook_store.py:14`), but nothing on the path of a search reads
  `needs_verification`: a stale runbook is served like any other.
- Network errors delegate to the rule-based agent (`evaluation-report.md:71-74`),
  but only a missing API key does (`LLMRaises`).
- The experiments take "12 base cases (one per fault)" (`experiments.py:241`), but
  the first twelve of the dataset are four variants of three faults; and variant
  A of the last three experiments is computed from variant B (`WithoutRunbook`,
  `WithoutVerification`, `FullLogs`).
- `docs/fault-inventory.md` names `mysql-connection-pool`, `http-connection-pool`
  and `thread-pool-full`; the endpoints ask for `mysql-connection-pool-exhausted`
  and the like, so activating the documented ids does nothing, as any id is
  accepted (`Insert`).

## 12 What is not modelled

Expiry of Redis keys (24 h for the hash, 10 min for the claim; it takes a task
that moves a day after its publication, or a claim key that no code reads);
wall-clock time; payloads and report contents; the synchronous endpoint, which
keeps no state; keep-alives; reconnection to Redis; the worker loop over an
in-memory queue and `InMemoryTaskQueue.claim`, which in the program meet only an
empty queue; saving and resuming checkpoints, which nothing calls; the retrieval
metrics and the BM25 arithmetic; the comparison of result files; the log files
and Prometheus; log processing and traces, which only tests call. Out of scope:
generated data, dashboards, schema, demos and the team's scripts, which have no
behaviour of their own or are no part of the service.
