# TLA+ verification of the benchmark pipeline

This project models the control logic of the benchmark repository in TLA+, checks
it with TLC on small instances, and proves part of it with TLAPS for every
instance. Paths below are relative to the repository root (`src/` in
`PROJECT.json`); line numbers are those of the modelled commit.

- `PROJECT.json`: components, runs, mutants, the definition-to-source map,
  hazards, findings, theorems.
- `*.tla`: `X` is a component, `MCX` gives it values for TLC, `XProofs` holds its
  theorems.
- `*.cfg`: one per run.

Contents: 1 Inventory - 2 Modules and the code - 3 Runs - 4 Bounds and fairness -
5 Proofs - 6 Findings - 7 What is not modelled - 8 Plan.

## 1. Inventory

The repository runs coding agents against public benchmarks and publishes
results only when the evidence for them is complete. Its own logic is in
`scripts/` (Node) and `.github/workflows/`; `tools/` holds Python adapters.

### 1.1 SWE-bench generation (`scripts/swe-bench-harness.mjs`, `scripts/swe-ci-worker.mjs`)

*State.* Per task: a temporary directory (work tree, copied provider
credentials), an artifact directory (claim, logs, `attempt-evidence.jsonl`,
process receipt, frozen prediction, `receipt.json`), one child process at a time
under the account `benchworker`. Per run: the batch position and the report.

*Operations.* `main` runs batches of `--concurrency` tasks with `Promise.all`;
`runTask` clones, isolates, prepares and probes the worktree, runs the CLI under
`runCliProcess`, stops the account, collects evidence, captures the patch,
decides the disposition and writes the receipt; `runTaskSafe` turns any failure
into a record; `stopWorkerProcesses` is `pkill -KILL -u benchworker`.

*Interaction.* Tasks of one batch share the event loop, the disk and the
account. Everything later in the chain reads only the artifacts.

*Hard behaviours.* The kill is account-wide; every write can fail before, in the
middle of, or after the bytes; the `finally` clause replaces return values; the
watchdog and the CLI's own shutdown race; descendants outlive the CLI.

*Correct means.* What is reported is what the durable receipt says; a conclusive
disposition is earned by a complete attempt nobody disturbed; the patch is
captured on a quiet worktree; no receipt is ever rewritten; one task's failure
does not take the others with it.

### 1.2 Process watchdog (`runCliProcess`, lines 767-888)

*State.* The promise, three timers (deadline, 25 ms closure poll, 5 s force), the
flags `timedOut`, `forceUsed`, `cleanupError`, the direct closure, the process
tree. *Operations.* `settle`, `finishTimedOutClosure`, the timer callbacks, the
`error` and `close` events. *Hard behaviours.* Any order of callbacks, `EPERM` on
a sudo child, a pipe held by a descendant outside the group. *Correct means.* It
resolves once and at all, says "graceful" only of a shutdown nobody forced, and
leaves no timer behind (a late kill would hit the next task).

### 1.3 Attempt evidence (`inspectAttemptEvidence`, lines 998-1165)

A grammar over the JSONL log a CLI leaves: one root run, requests matched with
results, final status. It decides whether an attempt is complete. *Hard.* The log
may be cut anywhere. *Correct means.* No prefix of an incomplete attempt's log
passes as complete.

### 1.4 Formal run (`.github/workflows/bench.yml`, `scripts/plan-recovery.mjs`, `scripts/admit-generation.mjs`)

*State.* Jobs and their conclusions in the GitHub listing, one report artifact
per batch, the recovery manifest, recovery reports, the admission. *Operations.*
Generation jobs, planner (`buildFormalRecovery`), recovery jobs, admission
(`inspectFormalGeneration`, `applyFormalRecovery`), "re-run failed jobs".
*Interaction.* Only artifacts and the jobs listing; downloads are
`continue-on-error`. *Hard behaviours.* Lost jobs, lost downloads, different
views of planner and admission, a re-run that repeats model attempts. *Correct
means.* An accepted population is exactly the plan, made of first attempts and of
at most one evidenced recovery, and a recoverable run is in fact accepted.

### 1.5 Official evaluator (`scripts/swe-bench-official-evaluator.mjs`, `scripts/evaluate-official.mjs`)

*State.* Frozen predictions, the image manifest, container runs, evaluation
records. *Operations.* `createFrozenPrediction`, `writeFrozenPrediction`,
`freezeOfficialImageManifest`, `evaluateFrozenPrediction`, `runBoundedCommand`,
`cleanupEvaluationContainers`, `admitOfficialEvaluationRecord`, and in
`evaluate-official` `evaluateTask`, `verifyOfficialTask`,
`verifyOfficialEvaluationReport`. *Hard behaviours.* Container cleanup by a
substring of the name, run identifiers cut to 80 characters, re-use of a record
of an earlier attempt, a bounded command racing its own exit. *Correct means.* A
verdict belongs to the prediction it names and to one evaluation of it.

### 1.6 Node bundle (`scripts/node-bundle-*.mjs`, `scripts/*-node-bundle-one.mjs`, `scripts/swe-node-bundle-preflight.mjs`)

*State.* Per job: the write-once evidence directory (claims, receipts, exports,
prediction, summary, audit, record, closure), the shared `active-operation.lock`, the
model, capture and evaluator containers, the corpus file. Per batch (ten, each with a
workflow of its own, some with tasks in common): its frozen configuration and the runs
GitHub lists of its workflow. *Operations.* `prepare` (with
`prepareWithTransportRetry`), `generate` (`generateNodeBundleTask`), `evaluate`
(`evaluateNodeBundleTask`), `publish`; `validateBatchConfig`, `admitBatchRun`,
`generateEvalOnlyRecovery` decide whether a job may start at all. *Interaction.* The
four commands are steps of one workflow job and share only the disk and Docker; the
next run sees the previous one through GitHub's API and its artifact. *Hard
behaviours.* Docker commands that fail after taking effect; a finally clause that can
itself fail; an agent that survives the client that is killed; jobs killed between any
two steps; retries over write-once files. *Correct means.* Evidence is safe before its
container goes; a prediction is earned by one undisturbed attempt; the lock covers
what is left; a retry never fails on, or consumes, what the previous attempt left; no
workflow repeats a model attempt it has not declared as over.

### 1.7 Progress ledger (`scripts/reconcile-progress.mjs`)

*State.* Records of many runs, merged by task. *Hard behaviours.* Ties and
missing timestamps, states spelled in two ways. *Correct means.* The merge does
not depend on the order of the directories and never loses a terminal result.

### 1.8 Frontier Harness (`scripts/frontier-harness-harness.mjs`) and Terminal-Bench (`scripts/terminal-bench-harness.mjs`)

*State.* One job per task: the staged task directory, the jobs directory in which
the runner (Pier, Harbor) leaves a trial with its `result.json` and the log of the CLI,
and the record. *Operations.* `main` verifies corpus, commits and the frozen
identity, starts the runner, and projects the trial into a disposition:
`classifyTrialOutcome` from the exception, the rewards of the verifier and
`summarizeAttemptEvidence`; `projectTrialResult` from exception and rewards.
*Hard behaviours.* Evidence that outgrows a string, is cut, or belongs to a child
run; an outage that the agent survived; a trial directory left half written.
*Correct means.* A pass or a failure only from the verifier of an attempt that had
answers of the model; everything else is recorded as an error or as inconclusive.

### 1.9 iBench (`scripts/ibench-run.mjs`, `scripts/ibench-aggregate.mjs`)

*State.* An output directory per batch: `results.json` (written by `ibench`), the
report, the copies of earlier ones; the aggregate. *Operations.* `main` solves and
scores, `scoreExistingRun` grades the same patches again in place, `computeReport`
makes a row per task, `aggregateReports` merges the reports of one composition.
*Hard behaviours.* `ibench` fails and leaves results of any age; a process dies
between the results and the report. *Correct means.* No row gives a task a verdict
the scorer did not give in the grading the row is of.

### 1.10 Provider credentials

`scripts/refresh-dimcode-token.mjs`, `scripts/sync-secrets*`: short scripts of
network and file I/O. *Hard.* The token file is rewritten in place after the old
refresh token was spent.

### 1.11 Reports, charts, history

Rendering of finished data; no state that a behaviour of 1.1-1.9 depends on.

## 2. Modules and the code

| module | models | extends / uses |
| --- | --- | --- |
| `CliOutcome` | the values `runCliProcess` resolves with | - |
| `OnePromise` | abstract: what a caller of `runCliProcess` may rely on | `CliOutcome` |
| `Watchdog` | one call of `runCliProcess` | `CliOutcome`, implements `OnePromise` |
| `Generation` | `main`, `runTaskSafe`, `runTask` and the worker account | `CliOutcome` |
| `FormalRun` | the workflow's jobs, the planner and the admission | - |
| `Evidence` | the evidence log, its recorder (external), `inspectAttemptEvidence` | - |
| `OfficialRecords` | frozen predictions and evaluation records, and what the evaluator admits as one | - |
| `OfficialBatch` | `evaluate-official` over one admitted generation, and `--verify-report` | `OfficialRecords` |
| `NodeTask` | one hosted job of the Node bundle: prepare, generate, evaluate, publish | - |
| `NodeRuns` | all dispatches of the single-task, recovery and batch workflows of the Node bundle | - |
| `EarnedVerdict` | abstract: a recorded verdict is earned from a grader outside | - |
| `FrozenEvaluation` | freezing of dataset and images, and concurrent evaluations on one Docker daemon | `OfficialRecords` |
| `TrialHarness` | one trial of Frontier Harness or Terminal-Bench | - |
| `IBench` | the batches of iBench, their re-grading, the aggregate | - |
| `Verdicts` | the three above, one at a time | implements `EarnedVerdict` |

`Watchdog` and `Generation` meet in `CliOutcome`: `Watchdog` is shown to resolve
once with a member of `CliOutcomes` (`ResolvesOnce`), and in `Generation` an
awaited worker resolves with such a member. `Evidence` is about the verdict that
`Generation` draws from `EvidenceKinds` and `FormalRun` from its outcomes.
`OfficialBatch` begins with what `FormalRun` accepted. `NodeTask` is the other chain,
in which one job holds a task from its preparation to its official record; in
`NodeRuns` such a job is what other runs can see of it. `FrozenEvaluation` is the one
step `OfficialBatch` and `NodeTask` take an evaluation for.

### 2.1 Watchdog

| state | code |
| --- | --- |
| `promise` | the returned promise; `settle` is the only writer but one (the `error` event) |
| `living`, `holds`, `exitKind` | the process tree, who holds the stdio pipes, how the direct child ended |
| `closed` | `directClosure` is defined |
| `timedOut`, `forceUsed`, `cleanupError` | the variables of those names |
| `force`, `polling` | `forceTimer`, `closurePollTimer` |
| `hasCleanup` | `options.forceCleanup` was passed |

Actions: `Deadline`, `Poll`, `ForceFires` are the timer callbacks, `Close` and
`SpawnError` the child events, `Fork`, `DescendantExits`, `LeaderExits` the
environment. Time is not modelled: timers and tree run at any relative speed. A
descendant may leave the process group (`"outside"`), where `SIGKILL` to the
group does not reach it but the account-wide cleanup does.

### 2.2 Generation

The controller is one event loop. `loop` is the task whose synchronous section is
executing; a step that reaches an `await` sets it to 0. This is exactly the
interleaving JavaScript allows: other tasks run only at awaits, worker processes
run all the time. `pc[t]` is the place in `runTask` / `runTaskSafe`:

| `pc` | code (swe-bench-harness.mjs) | action |
| --- | --- | --- |
| `idle` | before `runTaskSafe` is called | `Start` |
| `cloning` | clone, fetch, checkout, rev-parse, isolation | `Checkout` |
| `prepare`, `preparing`, `checking` | preparation of the task environment and its git checks | `Prepare`, `Prepared`, `Checked` |
| `probe`, `probing` | worker probe | `Probe`, `Probed` |
| `launch`, `running` | provider environment, `runCliProcess` of the model | `Launch` |
| `running` (resolved) | `stopWorkerProcesses`, evidence collected | `Collect` |
| `decide`, `predict` | capture of the patch, disposition, frozen prediction | `Decide`, `Predict` |
| `finish` / `catch` | `finish()` of the try block / of the catch clause | `WriteReceipt` / `CatchReceipt` |
| `cleanup` / `unwind` | the `finally` clause after a return / with an exception under way | `Cleanup` |
| `safe` | the catch clause of `runTaskSafe` | `Safe` |
| `done`, `rejected` | the promise of `runTaskSafe` | `NextBatch`, `Report`, `Abort` |

A write can fail without a trace, leave a torn file, or fail after the bytes are
there (`ReceiptFaults`). There is no crash action: the controller keeps nothing
that survives it except files, so a crash leaves exactly the files of the state
it hits, and every invariant about artifacts holds of every crash.

History variables: `ran` (the CLI was started for the task), `victim` (another
task's call killed this task's worker).

### 2.3 FormalRun

The unit is the job. A generation job fails before the model (`SourceFailsEarly`),
reports (`SourceReports`), or makes attempts without a usable report
(`SourceLost`). The planner and the admission each see any subset of the uploaded
reports (`seen`, `seenRec`). `Reasons(seen)` is what `inspectFormalGeneration`
holds against the population; `Cleared` is the filter of `applyFormalRecovery`;
`RecoveryPlan` is `buildFormalRecovery`; `Accepts` is the whole admission.
`ReRunFailedJobs` is the operation of that name on the workflow run: failed jobs
and their dependents run again, and the listing may carry the others over as
further executions. `attempts` is history: an upper count of model attempts.
`BatchesAssumption` says that every batch of the plan has a task, as
`scripts/admit-generation.mjs:88` (five tasks each) and the workflow's plan step
(`.github/workflows/bench.yml:147`, at least one) demand.

Receipts are reduced to what the recovery rules tell apart. The shape rules of
the receipts, the hashes and the names of the gate jobs are taken as satisfied,
as `test/admission.test.mjs` builds them: see section 6 on what the current
harness writes.

### 2.4 Evidence

The recorder is the candidate CLI, which is outside the repository: it is modelled
from the records `inspectAttemptEvidence` accepts and the ones
`test/` builds. `events` is what happened, `log` what reached the file, `invocations`
the calls whose requests were written, which the footer lists; a deviation is a record
that was lost (before or after it took its sequence number) or written in another shape.
`Kill` cuts the log at any byte: `tail` says that bytes follow the
last newline. The inspection is a step machine over the lines:

| action | code (swe-bench-harness.mjs, 998-1165) |
| --- | --- |
| `Begin` | size, split at the last newline, `JSON.parse` of every line, sequence numbers, header |
| `Scan` | one turn of the loop over the body: `ScanRequest`, `ScanClosure`, `ScanSnapshot` |
| `Conclude` | after the loop: a missing footer, an invalid one, or `IsComplete` |

Fields that only the shape check reads (times, identities, hashes) are the `form`
of a line.

### 2.5 OfficialBatch

Any number of invocations of the script share a disk; each is at a place `pc`, with
the index `next` of its loop over batches and a `tpc` per task of the current one.
Within one invocation the tasks of a batch interleave at the awaits.

| action | code (evaluate-official.mjs) |
| --- | --- |
| `Admit` | 46-58: the report and the directory do not exist, the receipt verifies |
| `MakeDirectory`, `WriteBatchClaim` | 59-60, 61-68 |
| `FreezeImages` | 70-99: the image manifest, or every task inconclusive |
| `Claim`, `Call`, `Receive` | 471-497, 498-504, 505-530: `evaluateTask` between its awaits |
| `NextBatch`, `WriteReport` | 101-115, 117-141 |
| `Reject`, `Crash` | the exception that ends the script; the process dies |

`Verifies` is `verifyOfficialEvaluationReport` on the report and the disk. The
values are in `OfficialRecords`: a prediction is the record of its keys, because
`createFrozenPrediction` looks at exactly those, and the digest of a patch is the
set of it, so that different patches differ and the empty digest is none of theirs.
What Docker does inside `evaluateFrozenPrediction` is a choice among its outcomes.
At the modelled commit no invocation reaches that choice (finding 3). With the key
test of `IsPredictionInput` weakened to "has these keys" it does, and the same
properties and `ReportVerifies` hold over the same instance, so the extra key is
the only cause; the theorems of section 5 do not depend on it either, they hold
for any set of outcomes.

### 2.6 NodeTask

The job is sequential; what interferes are the containers (`ContainerDies`), the
agent, which outlives the docker client that started it, and the end of the job at
any place (`Killed`). `pc` is the place:

| `pc` | code | action |
| --- | --- | --- |
| `prepare` | `prepare`, `prepareWithTransportRetry` (controller, 36-71, 377-456) | `PrepareRejected`, `PrepareAttempt` |
| `admit` ... `predict` | the try block of `generateNodeBundleTask` (155-301) | `Admit` ... `Predict`, one action per command or write whose failure differs |
| `probe` ... `summary` | its finally clause (303-330) | `PartialProbe` ... `WriteSummary` |
| `settle`, `audit` | `generate` of the controller (503-522) | `Settle`, `AuditEvidence` |
| `evaluate` ... `closure` | `evaluateNodeBundleTask` | `EvaluateRefuses` ... `ProveClosure` |
| `publish` | `publish` of the controller, `if: always()` in the workflow | `Publish` |

A docker command that fails may have taken effect (`Failing`); a write with flag
"wx" that fails may leave a torn file, which stays (`Write`). `sum` is the
`summary` object, what the code believes; `box` and `agent` are what is the case.
`PredictionIsEarned`, `EvidenceOutlivesModel` and `LockCoversContainers` relate the
two. History variables: `calls` (how often model and evaluator were started),
`exported` (the state the model container was in when its files were last taken).

The steps between two places at which a failure has the same consequences are one
action: the fourteen commands of `Ready`, the trusted capture, the hundred
assertions of `EvaluateAdmits`, of which the model keeps those on state it has. A
job that only evaluates a frozen prediction of an earlier run is in `NodeRuns`; the
download of the candidate before `prepare` is not modelled.

### 2.7 NodeRuns

A run has what GitHub lists of it (status, conclusion, `run_attempt`, the state of
each job) and `config`, what the commit it was dispatched at declares of earlier runs.
The owner declares after the fact and truthfully (`Shapes`, `Declarable`); they may
dispatch, cancel and re-run at any time. The workflows share a concurrency group: one run
in progress, one pending, which a newer one cancels (external).

`Batch` gives each batch workflow its tasks, an interval of the selection, as all ten of
the repository have. Batches may overlap. A run of a batch is admitted against the runs of
its own workflow only (385-390, 417), and its commit may leave out `firstTaskProvenance`
(101, 404): in the model, `first` is `NoRun` then and `FirstTaskIsJudged` demands nothing.

| action | code |
| --- | --- |
| `Dispatch`, `Cancel`, `ReRun` | the owner and GitHub |
| `Start` | the concurrency group and `needs` between the jobs of `node-bundle-batch2.yml` |
| `Prepare` | `prepare`: `Admits` is `admitBatchRun`, the provenance of the first task, or the rules of the two single workflows |
| `StartModel`, `ModelEnds`, `GenerateFails` | `generate` without and with a model call |
| `RecoverPrediction` | `generateEvalOnlyRecovery` (`frozenPredictionPrior`) |
| `CapturePrediction` | the capture of `node-bundle-recovery.mjs` |
| `Evaluate`, `Publish` | `evaluate` with the run id of `SourceOf`, `publish` |

### 2.8 FrozenEvaluation

Each prediction is at the command its `evaluateFrozenPrediction` awaits (`stage`); the
evaluations of a batch interleave there and share one Docker daemon. The
evaluator's process and its container live on their own. A container is found for
clean-up as `docker ps --filter name=` finds it: `OfficialRunIdFor` is `sanitize`
and `slice(0, 80)` on sequences of characters, `NameFilter` the substring. The
instance of the run makes both collide: the ids of the two runs are the same after
the cut. What is assumed of the harness: it does not grade an instance
whose container disappeared before its tests ended. `disturbed` is the history of such
containers. Digests are not carried: whether one matches is a choice.

Evaluations reach this module from `evaluate-node-bundle-one.mjs:205` by path. From
`evaluate-official` they are refused before it (finding 3), so several at a time occur
only once that is repaired; `Begin` has both ends.

### 2.9 TrialHarness

One module for the two harnesses, which share their shape: `suite` says which.
`PrepareFrontier`, `StagePierTask`, `PrepareTerminal` and `VerifyFrozenIdentity` may
throw; `RunnerCloses` chooses what the runner leaves; `RecordFrontier` and
`RecordTerminal` read, classify and write, in one turn. The log is a sequence of the
entries Frontier's summary reads, with the run each belongs to, or without a header (a
log of an older CLI). `summary` is what the reducer of `createEvidenceSummary` holds:
`FeedLine` is one turn of the loop of `summarizeAttemptEvidence` (`Feed` its `feed`), and
`RecordFrontier` waits for the last. The loop has no await, so nothing but `Dies` can come
between two turns. The verifier's rewards are counted in halves, so that a reward of
one half exists. `Oracle` states independently of the code what the verifier of
the trial said: it is silent if the run ended in an outage (`Outage`) or had no answer
(`Unanswered`).

### 2.10 IBench

`Launch`, `IbenchRuns`, `ReportRun` are `main`; `Regrade`, `IbenchScores`,
`ReportRegrade` are `scoreExistingRun`, which copies the report to `prior-scores`
before it grades. `Dies` ends a process at any of its places, in the middle of a report
with part of it. `graded` counts how often the results of a batch were replaced; a row
carries, as history, the count its results had.

### 2.11 EarnedVerdict and Verdicts

`EarnedVerdict` has, per task, the number of the grading, what the grader said in it
and what is recorded of it: the grader speaks at most once, a record is made once, as
passed or failed only if the grader said so. `Verdicts` is the disjoint sum of the three
modules (`program` says which one runs) with one refinement mapping:

| `EarnedVerdict` | official evaluator | trial | iBench |
| --- | --- | --- | --- |
| `grading` | 0 | 0 | `graded` of the batch |
| `oracle` | `tests`, what they said while the harness listened | `Oracle` | the reward in `results.json` |
| `verdict` | `reason` of the record | `disposition` | the rows of the current grading, in the report, its copy and the aggregate, which must agree |

## 3. Runs

| run | instance | shows |
| --- | --- | --- |
| `watchdog` | no constants: the full state space | one call resolves once and, unless a process survives every kill, at all; "graceful" is never said of a forced shutdown; no timer outlives the call |
| `generation_parallel` | 2 tasks in one batch, preflight on and off, 1 disk fault | receipts are earned and final and the report agrees with them, though tasks kill each other's workers; quiet capture; nothing outlives its directory |
| `generation_serial` | 2 batches of 1 task, 2 disk faults | with concurrency 1 nobody is a victim; every run reports unless a write failed |
| `formal_run` | 2 batches, 3 tasks, 2 workflow attempts | an accepted population is exact, made of first attempts and one evidenced recovery; the plan behind it was made in sight of every report; a recoverable run is accepted |
| `evidence` | a root run and a child, 5 events, 1 recording error | a log passes as complete only if it tells the whole story, and then it does; a cut log is readable and never complete; the reason of a failure is that of the root's last result |
| `official_batch` | 2 invocations, 3 tasks of which 2 have predictions, batches of 2, 1 failing write | each prediction is evaluated at most once and after its claims; a report says what is on file |
| `node_task` | no constants: the full state space of one job | a prediction is earned; evidence is safe before its container goes; a free lock covers no container the job knows of; a success is accounted for; the job ends |
| `node_runs` | the single-task and recovery workflows, a batch of 2 tasks (2 dispatches of each) and another one of its last task (1 dispatch), 4 dispatches and re-runs in all | within a workflow a task meets the model again only after a declaration that its attempt is over; at most one success per workflow; a verdict names the run of its attempt; a batch whose commit names the recovery of the first task waits for its verdict |
| `verdicts` | 2 evaluations with the same cut run id; a log of 3 entries; 2 iBench batches, 1 re-grading each | all three programs implement `EarnedVerdict`; a conclusive official record is of tests nobody disturbed |
| `batch_survives` (violation) | 1 disk fault | finding 1 |
| `recovery_before_model` (violation) | 1 task, no fault | finding 2 |
| `report_verifies` (violation) | as `official_batch` | finding 3 |

Every property of a passing run has a mutant in `PROJECT.json`: a definition of
the model changed the way a plausible bug would change the code (a timer not
cleared, a guard dropped, a retry that overwrites, a batch not awaited, ...), under
which the property fails. The mutated forms stand in the modules just before the
definitions they change, each with a comment that begins with "Mutant:".

## 4. Bounds and fairness

*Bounds.* `Watchdog` has none. `Generation`: `NTasks`, `Concurrency` and
`MaxFaults` are constants; two tasks suffice for every pairwise interference
(a kill has one author and one victim), one fault for every single failure of the
receipt protocol, and two for a fault in `finish` followed by one in the handler
that answers it. `FormalRun`: two batches make a partly seen population possible,
two tasks in one batch a partly recovered batch; one re-run (`MaxAttempts = 2`)
is enough for both ways a re-run shows (a repeated execution, a carried-over
one); the gates are `TRUE`, because with `FALSE` nothing is accepted. `Evidence`: one
child run, because any resource but the root is treated alike; five events hold two
calls, their results and the end of the root run, so that results can come out of
order and a later failure can follow an earlier one; one recording error, because
the claims are about a log that is wrong somewhere. `OfficialBatch`: two invocations
give any overlap and any succession after a crash; a task without a prediction
between two with one puts all three kinds of neighbours in the batches. `NodeTask` has
no bound but the code's own three attempts at preparing. `NodeRuns`: two runs of a
workflow race with each other, one is declared to the other, and a batch whose commit
names the recovery needs a run of each of the other two workflows before it, which leaves
one request for a race, a re-run or the other batch; that one has the last task of the
first batch and nothing else, so it is the least that overlaps. A re-run shows the second
attempt of a run, which is all the admission looks at. `Verdicts`: two evaluations have
one author and one victim of a clean-up; three entries after the header hold a failure, a later one and an end; two
batches make partial aggregates, one re-grading makes old rows. The theorems of section 5
remove these bounds for what they state.

*Deadlock* is checked in `Generation` (a finished controller stutters in
`Stopped`). A `Watchdog` call, a formal run, an inspection and an invocation of
`evaluate-official`, a hosted job, the runs of the bundle and the programs of `Verdicts`
really end.

*Fairness.* `Watchdog`: weak fairness of the callbacks, since the event loop
delivers due timers and events; none for the process tree, which owes nobody an
exit. `Generation`: weak fairness of the controller and of the end of each
awaited worker. The latter is what `Watchdog!Resolves` gives, except in the case
it names (a process that survives the cleanup and the kill). `FormalRun` assumes
none and has no liveness property: `GapsCloseOnce` is an action property instead.
`OfficialBatch` has none either: a crash may end every invocation. `NodeTask`: weak
fairness of the job's own steps, because every docker command and process it awaits
has a timeout (`recordGenerationProcess`, `runRecordedStep`, the bounded evaluator)
and the workflow bounds the job; none for containers, which need not die, nor for
`Killed`. `NodeRuns` and `Verdicts` assume none: nobody has to dispatch, and
`runBoundedCommand` waits for a "close" that a process outside the group can hold.

## 5. Proofs

Checked by TLAPS, for every value of the constants that satisfies the
assumptions named in the modules.

*`WatchdogProofs`.* `TypeCorrect`, `GracefulIsQuietHolds`,
`NoKillAfterSettleHolds`, `ResolvesOnceHolds`. The inductive invariant `Inv` adds to
the type and to `GracefulIsQuiet`: a settled call has no force timer armed and no
poll; a failed cleanup counts as force; a closed call has no leader and an exit to
show; only a closed call is graceful. Without the second and the third a step of
`Close` or `ForceFires` could call a forced shutdown graceful; without the first a
timer could outlive the call. `TreeInv` shows that the process tree cannot disturb
it (an empty group has nobody to fork into it), `CallbackInv` that no callback
does. The last theorem is the refinement of `OnePromise`: every step resolves the
pending promise with a member of `CliOutcomes` or leaves it alone.

*`GenerationProofs`.* `TypeCorrect`, `RecordIsReceiptHolds`,
`ConclusiveIsEarnedHolds`, `QuietCaptureHolds`, `NothingOutlivesDirectoryHolds`,
`SerialIsolationHolds`, `RecordsAreFinalHolds`. A receipt is right because of what
the frame knew before it wrote it, so none of the invariants is inductive alone. The
inductive invariant `FrameInv` says, for every task and every `pc`, what is known of
its processes (`Processes`: a worker is alive only at an await, nothing is stray from
`decide` to `predict`, both only while the directory exists), of its records
(`Records`: what the pending disposition rests on, that no receipt exists before the
first write of one, what the returned record equals), and of the batch (`Batching`:
tasks before the current batch are done, tasks beyond it idle). The argument has two
halves. A task's own step keeps its part (`OwnStepBefore`, `OwnStepModel`,
`OwnStepAfter`, one case per action). A step of another task leaves it alone or kills
its processes (`StepTouchesOne`), which disturbs nothing, because a task whose worker
is alive has written no receipt yet (`UntouchedKeeps`). Serial isolation follows from
`Batching`: with concurrency 1 every live worker is that of the one task of the batch.

*`FormalRunProofs`.* `TypeCorrect`, `AcceptedIsExactHolds`, `AcceptedAttemptsHolds`,
`AcceptedKeepsSourceHolds`, `GapsCloseOnceHolds`: every property of `FormalRun`, for
every plan, any number of batches, tasks and re-runs, from the assumptions named in the
module. `AcceptsAccounts` shows that an admission without an uncleared reason accounts
for every task; `AcceptingStep` that no step changes what an accepted report rests on:
all jobs are done (`NeedsDone`), so the only step left is a re-run, which withdraws the
admission. That an accepted task had no hidden attempt needs what the admission cannot
see, the history of executions, so the inductive invariant is `History`: attempts never
exceed the executions of the jobs of the task's batch (`CountedAttempts`), a job whose
first execution failed before the model left nothing (`FirstExecutions`), a successful job
or plan had a report (`Reports`), and a first workflow attempt lists no job twice
(`FirstAttempt`). The admission demands one execution of each job, which with `History`
bounds the attempts (`AcceptsPlanned`, `AcceptsAttempts`). `GapsCloseOnce` is proved by
going through the reasons of the inspection one by one (`CompleteIsAccepted`).

*`OfficialBatchProofs`.* `TypeCorrect`, `EvaluatedAtMostOnceHolds`,
`ClaimPrecedesCallHolds`, `ReportIsOnFileHolds`, for any number of invocations,
tasks, batch sizes and failing writes. The directory is the lock: `Exclusive` says
that at most one invocation works behind `MakeDirectory` and that the directory is
then there; since nothing removes it, nobody follows an invocation that died.
`Frame` says what the one at work knows of its tasks: a claimed one has its claim on
disk and no call yet, one done has an entry that agrees with the disk. `Counted` and
`Reported` say what stays true of calls and of the report when nobody works any more.
None of the four properties is inductive without `Exclusive` and `Frame`.

*`NodeTaskProofs`.* `TypeCorrect`, `PredictionSafe`, `EvidenceSafe`, `LockSafe`,
`SuccessSafe`: every safety property of the job, from no assumption. The inductive
invariant is, next to the types, `SummaryIsTrue` (what the summary says of a
container is so: a closed one does not run, safe exports came from one at rest, a
removed one is gone), `Places` (what is settled at each `pc`; in particular that the
lock is held, whole, from `create` to `predict` and throughout an evaluation),
`LockInv` and `Outcome` (what a job that has not failed has to show at each later
place). The three middle parts are proved together, because the lock is right only
while the summary is true, and the summary only by where the job is. Types are split
by variable and steps by action.

*`NodeRunsProofs`.* `TypeCorrect`, `OneSuccessHolds`, `VerdictNamesAttemptHolds`,
`BatchAfterFirstHolds`, `RepeatIsDeclaredHolds`: every property of `NodeRuns`, for any
number of tasks, batches, dispatches and re-runs; batches may overlap, and what the two last
ones leave open (a commit without provenance, a repeat across batches) is in section 6.
No property is inductive, because a run acts on
what it was dispatched with and on what it saw when it prepared, while other runs are
dispatched, cancelled and re-run. The inductive invariant `Inv` has therefore, next to the
types: what a run was dispatched with stays true of the runs it names, since those are over
(`TrueConfigs`, carried over every step by `OlderConfig`; a declaration of failed jobs only
while the run is listed with attempt 1, which is all that admission reads it for); one run
of all is in progress (`OneInProgress`), so what it saw when it prepared is still so
(`Admitted`, `MayCall`); what holds of its jobs at each command (`Chain`, `Command`); and
what each call, win and verdict tells of its run when nobody looks at it any more (`Calls`,
`Wins`, `Verdicts`). `AdmitsSound` is the heart: what the code's admission checks is enough
for `Admitted` and `MayCall`. A failed prior run that called the model did so in a job that
succeeded or failed (`Call`), so `JobsMatch` forces the declaration to say which, and
`BatchConfigIsValid` leaves one pending prediction at most (`OnePending`). The steps are
then one lemma each over three of what a step makes of the listing: `MoveInv` (a job goes
on), `FailInv` and `SucceedInv`.

*`EvidenceProofs`.* `TypeCorrect`, `CompleteIsTheWholeStoryHolds`, `WholeIsCompleteHolds`,
`CutIsReadableHolds`, `TransportIsTheLastWordHolds`: every property of `Evidence`, for any
set of resources and any number of events and of recording errors. The inductive invariant
has a part for each of the three that act. `EventsInv`: what happened obeys an order
(a result is of an earlier call and comes once, nothing of a run follows its end).
`LogInv`: the log is what happened, or some type of record is counted fewer times in it
than it happened (`Kept`); a recording error can change a line or leave one out but
cannot make one up. `ScanInv`: what the inspection has gathered is of the lines it has
read (`Requests`, `Closures`, `Ends`, `Failing`). None is enough alone: the counts of
`inspectAttemptEvidence` are compared with those of the footer and not with what happened,
so that nothing is missing follows only from a footer that counted what happened
(`Sealed`), lines that agree with it, and the second half of `Kept`. Then the log and the
events are equal line by line, and what was gathered of the one is true of the other.

*`VerdictsProofs`.* `ConclusiveIsUndisturbedHolds` and `EarnedVerdictImplemented`: the whole
of `Verdicts`, the refinement of `EarnedVerdict` by all programs included, for any number of
predictions, any names and any length run ids are cut to, a log of any length, and any
batches of iBench. The one assumption is `BatchesAssumption`: no batch is empty and each
frozen task is in exactly one, as `frozenTaskIds` checks
(`scripts/ibench-aggregate.mjs:26-40`). Each program has its own invariant.

- The evaluator (`EvaluatorInv`): a clean-up may remove any container whose name has the run
  id in it, and the names say nothing of whose it is, so the invariant does without them. It
  says of each prediction where its harness may be (`Placed`); that tests which have spoken
  did so in a container that saw them through (`Undisturbed`); that a report is of a harness
  that ended on its own and lists what the tests said (`Reported`); and what a conclusive
  record rests on (`Concluded`).
- A trial (`TrialInv`): what the reducer holds is of the lines it has been fed (`Fed`), one
  conjunct per field, among them that the terminal cause and the failure are those of the
  last line of their kind. At the end of the log this is what `Oracle` asks of the whole of
  it (`SummaryTells`). The induction over the log is that of the loop, one `FeedLine` at a
  time; the reducer as a fold in one step would have needed an induction over data.
- iBench (`InteractionInv`): a row of the current grading, wherever it stands, is of the
  results on file (`RowOf`), so the rows agree; and while one stands in the copy or in the
  aggregate, the report of its batch has it too or is torn (`Kept`), so no step takes the
  last of them away and leaves the verdict to change.

`EvaluatorStep`, `TrialStep` and `InteractionStep` say what a step of each does to one task,
and `NextEarned` that this is a step of `EarnedVerdict` or leaves it as it is.

*Model-checked only.* Liveness (`Resolves`, `Completes`, `Ends`) is out of the prover's
reach. Every other property of a passing run is a theorem. The three claims of the
findings are refuted by TLC and have none. That the modules mean what the code means is
shown by no tool: the map in `PROJECT.json` gives the lines to compare.

## 6. Findings

1. `batch_survives`: `runTaskSafe` parses an existing `receipt.json` inside its
   catch clause (line 899). A receipt whose write was cut short makes it throw,
   the batch's `Promise.all` rejects, and the run ends without a report, against
   the comment at lines 363-365.
2. `recovery_before_model`: an exception of the account-wide kill after the
   deadline is filed as `cli-spawn`, a stage the planner takes for a failure
   before the model although the model ran.
3. `report_verifies`: `evaluateTask` hands the evaluator a prediction with its
   digest, which `createFrozenPrediction` refuses (an extra key). Every evaluation
   returns "invalid-prediction" before Docker is reached, `--verify-report` refuses
   the report, and `inconclusiveTask` throws in every case, so a failed image
   freeze ends the script without a report. Against `README.md:27-28` and `:97-98`.

Not findings, but worth knowing of `NodeTask`: a corpus cut short by a short last page
is not downloaded again, so the remaining attempts at preparing cannot succeed
(`prepare-swe-bench.mjs:43`); and a container whose `docker create` failed after it
took effect has no known id, so the lock is released although it exists, which
`docs/node-bundle-generation-plan.md:52` ("holds the shared lock until proven
removal") does not foresee.

Of `Generation`: with `--concurrency` above 1 the clean-up of one task kills the model of
another, against the comment "fully isolated" at `swe-bench-harness.mjs:363`; `bench.yml`
runs with concurrency 1 only, for which isolation is proved (`SerialIsolation`).

Of `NodeRuns`, what its two narrowed properties leave out because the code does:

- Two batches that share a task repeat it. `RepeatIsDeclared` is about the runs of one
  workflow; without that restriction TLC refutes it in 15 states: a run of the first batch
  gives its last task to the model and is cancelled, and the other batch, whose own history
  is empty, is admitted and gives the task to the model again. Batches 2 and 3 share
  django-10554, and 2, 3 and 4 share django-10999, 11141 and 11400. No script compares
  batches (`recoveryProvenance` in `node-bundle-batch-4.json` is read by tests only), so
  "single attempt per task is absolute" (`docs/node-bundle-generation-plan.md:282`, where
  "batch-2's history does not carry over" is said too) rests on the owner's choice of tasks.
- A batch need not wait for the first task. Only `node-bundle-batch-1.json` has a
  `firstTaskProvenance`; batches 2 to 10 leave it out, as
  `docs/node-bundle-generation-plan.md:245-246` explains, and are admitted whether or not
  the first task has a verdict. `BatchAfterFirst` is about the commits that have one.

Also of `NodeRuns`: `validateBatchConfig` expects the artifact of every declared attempt to
be named `node-bundle-batch1-...` (118), while the other workflows upload theirs under their
own prefix, so a failed job of batches 2 to 10 that called the model cannot be declared as
it was, and no further run of that batch can be admitted. A commit may declare a run whose
jobs succeeded and, in the same batch list, their tasks again; a dispatch then repeats the model call, and may record a second
verdict, which the owner has declared but which `docs/node-bundle-generation-plan.md:282`
("single attempt per task is absolute") does not foresee. And a run that was cancelled
in its model step, or whose jobs ended in different ways, has no shape `admitBatchRun`
accepts: no further run of that batch can be admitted.

Of `FrozenEvaluation`: a process that dies between the two renames of
`acquireOfficialDataset` (321-322) leaves a dataset without a manifest, which can be
neither used nor acquired again. The clean-up of one evaluation does remove the
containers of another whose name contains its run id; it costs that one its record
("evaluator-error" or "evaluator-timeout"), never a wrong one.

Of `TrialHarness`: reading `result.json` (907-909), the log (917, an argument evaluated
before the guarded call) and its digest (944) is outside the guard of
`classifyTrialOutcomeOrDegrade`, so a trial that was left unreadable costs its
record, which the comment at 716-728 wants kept; and the record takes neither
`infraFailure` nor `evidenceSummaryError` over, although the comment says it names the
error.

Of `IBench`: a re-grading that fails before it replaces anything still writes a report,
of the old results under the name of the new scorer and as a scored run
(`ibench-run.mjs:509-540`). After a solver-only run this reads as a measured zero, which
the comment at 207-208 wants to avoid, and the aggregate does not look at exit codes. No
task gets a verdict by it, so `ImplementsEarnedVerdict` holds.

Seen while reading, outside the model: `admit-generation.mjs` requires a job and
gate artifacts the current `bench.yml` does not have (lines 102-107, 516), and its
key lists of accepted receipts (from line 732) lack `taskEnvironment` and
`diagnosticPatch`, which the current harness writes. Module `Admission` of the plan
is to state this.

## 7. What is not modelled

- In the modelled components: the text of prompts, patches, logs and reports;
  hashes and references (taken as matching); selection of tasks; the field-by-field
  shapes of evidence records.
- A second controller on the same host, and a re-run of the harness over an old
  artifact directory: the workflow gives each job a fresh runner.
- Of 1.5: image digests and the field-by-field shape of manifests.
- Of 1.6: the download of the candidate, the field-by-field comparison of frozen files.
- Of 1.8: usage, timing and digests in the record; the second launch of Terminal-Bench
  over an old jobs directory (the workflow gives a fresh one); aggregation and charts.
- Of 1.9: selection of tasks, the materialised provider, the adapter in `tools/`.
- 1.7, for now: see the plan. Reports and charts (1.11) stay out: they keep no state.
  The credentials scripts (1.10) have one hazard and too little control for a module.

## 8. Plan

In the order in which they matter to the trustworthiness of a result:

| # | module | models | properties and theorems |
| --- | --- | --- | --- |
| 1 | `CliOutcome`, `OnePromise`, `Watchdog` | done | `Resolves` stays with TLC |
| 2 | `Generation` | done | `Completes` stays with TLC |
| 3 | `FormalRun` | done | proved |
| 4 | `Evidence` | done | proved |
| 5 | `Admission` | `admitTaskReceipt` and the receipt shapes against the dispositions the harness writes | every disposition of `Generation` is classified once; what is accepted was conclusive |
| 6 | `OfficialRecords`, `OfficialBatch` | done | proved but for `ReportVerifies`, which fails |
| 7 | `NodeTask` | done | `Ends` stays with TLC |
| 8 | `NodeRuns` | done | proved |
| 9 | `FrozenEvaluation` | done | proved |
| 10 | `TrialHarness`, `IBench`, `EarnedVerdict`, `Verdicts` | done | proved |
| 11 | `Ledger` | merge and classification of progress records | order independence; no terminal result is lost |

`Generation`, `Admission` and `FormalRun` are then composed through their receipts:
the outcomes `FormalRun!SourceReports` chooses from are the image of the
receipts of `Generation` under `Admission`'s classification.
