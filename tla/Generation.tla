----------------------------- MODULE Generation -----------------------------
(***************************************************************************)
(* The SWE-bench generation harness (scripts/swe-bench-harness.mjs and     *)
(* scripts/swe-ci-worker.mjs): main's batches of Concurrency tasks, one    *)
(* runTaskSafe(runTask) per task, and the artifacts each leaves on disk.   *)
(*                                                                         *)
(* The controller is one Node event loop.  "loop" is the task whose        *)
(* synchronous section is executing, 0 when every started task is parked   *)
(* at an await; only worker processes make progress while it is not 0.     *)
(* Every state is also what a crash of the controller would leave on disk, *)
(* so an invariant about artifacts is an invariant of every crash.         *)
(*                                                                         *)
(* Worker processes of all tasks run as one account, and                   *)
(* stopWorkerProcesses() kills that account.  The result of an awaited     *)
(* worker is any outcome module Watchdog can produce.                      *)
(***************************************************************************)
EXTENDS Naturals, CliOutcome

CONSTANTS
  NTasks,          \* number of scheduled tasks
  Concurrency,     \* --concurrency
  PreflightModes,  \* the values of --preflight-only the runs consider
  MaxFaults        \* bound: disk write faults (ENOSPC, EIO) in one behaviour

ASSUME NTasksAssumption == NTasks \in Nat \ {0}
ASSUME ConcurrencyAssumption == Concurrency \in Nat \ {0}
ASSUME PreflightAssumption == PreflightModes \subseteq BOOLEAN
ASSUME MaxFaultsAssumption == MaxFaults \in Nat

Task == 1..NTasks

VARIABLES
  preflight,   \* --preflight-only of this run
  phase,       \* main: "running", "reported", "aborted"
  base,        \* main: the first task of the current batch
  loop,        \* the task that holds the event loop, or 0
  pc,          \* where each task's frame is
  pending,     \* the disposition the frame is about to record
  result,      \* the record runTaskSafe resolved with
  cli,         \* the result of the last awaited worker process
  worker,      \* the awaited worker process is alive
  stray,       \* a descendant of an earlier worker process is alive
  taskDir,     \* the temporary directory exists
  artifacts,   \* the artifact directory: "absent", "made", "claimed"
  evidence,    \* attempt-evidence.jsonl in the artifact directory
  prediction,  \* the frozen prediction file exists
  receipt,     \* receipt.json
  faults,      \* disk faults so far
  ran,         \* history: the model CLI was started for the task
  victim       \* history: another task's call killed the task's worker

procVars == <<worker, stray, cli, ran, victim>>
diskVars == <<taskDir, artifacts, evidence, prediction, receipt>>
vars == <<preflight, phase, base, loop, pc, pending, result, procVars, diskVars, faults>>

Dispositions ==
  {"generation-inconclusive", "environment-prepared", "model-timeout", "no-diff",
   "frozen-prediction"}

CheckoutStages == {"clone", "fetch", "checkout", "isolation", "task-admission"}

Stages ==
  CheckoutStages \cup
  {"none", "preparation", "worker-probe", "cli-run", "cli-spawn", "process", "evidence",
   "patch-freeze", "harness"}

Outcome == [disposition : Dispositions, stage : Stages]

\* No record, and a receipt file whose bytes were not all written.
Absent == [disposition |-> "absent", stage |-> "none"]
Torn == [disposition |-> "torn", stage |-> "none"]

Inconclusive(s) == [disposition |-> "generation-inconclusive", stage |-> s]
Conclusive(d) == [disposition |-> d, stage |-> "none"]

\* What inspectAttemptEvidence says of the copied file: "incomplete" covers every
\* reason, "failed" is complete with a root status other than completed.
EvidenceKinds == {"absent", "incomplete", "failed", "completed"}

Complete(e) == e \in {"failed", "completed"}

Awaiting == {"preparing", "checking", "probing", "running"}

Sync == {"cloning", "prepare", "probe", "launch", "decide", "predict", "finish", "catch",
         "cleanup", "unwind", "safe"}

Finished == {"done", "rejected"}

Labels == {"idle"} \cup Awaiting \cup Sync \cup Finished

TypeOK ==
  /\ preflight \in PreflightModes
  /\ phase \in {"running", "reported", "aborted"}
  /\ base \in Nat \ {0}
  /\ loop \in Task \cup {0}
  /\ pc \in [Task -> Labels]
  /\ pending \in [Task -> Outcome \cup {Absent}]
  /\ result \in [Task -> Outcome \cup {Absent}]
  /\ cli \in [Task -> {Pending} \cup CliOutcomes]
  /\ worker \in [Task -> BOOLEAN]
  /\ stray \in [Task -> BOOLEAN]
  /\ taskDir \in [Task -> BOOLEAN]
  /\ artifacts \in [Task -> {"absent", "made", "claimed"}]
  /\ evidence \in [Task -> EvidenceKinds]
  /\ prediction \in [Task -> BOOLEAN]
  /\ receipt \in [Task -> Outcome \cup {Absent, Torn}]
  /\ faults \in 0..MaxFaults
  /\ ran \in [Task -> BOOLEAN]
  /\ victim \in [Task -> BOOLEAN]

Init ==
  /\ preflight \in PreflightModes
  /\ phase = "running"
  /\ base = 1
  /\ loop = 0
  /\ pc = [t \in Task |-> "idle"]
  /\ pending = [t \in Task |-> Absent]
  /\ result = [t \in Task |-> Absent]
  /\ cli = [t \in Task |-> Pending]
  /\ worker = [t \in Task |-> FALSE]
  /\ stray = [t \in Task |-> FALSE]
  /\ taskDir = [t \in Task |-> FALSE]
  /\ artifacts = [t \in Task |-> "absent"]
  /\ evidence = [t \in Task |-> "absent"]
  /\ prediction = [t \in Task |-> FALSE]
  /\ receipt = [t \in Task |-> Absent]
  /\ faults = 0
  /\ ran = [t \in Task |-> FALSE]
  /\ victim = [t \in Task |-> FALSE]

-----------------------------------------------------------------------------
(* The event loop and the frame of one task. *)

Running == phase = "running"

\* t's synchronous section reaches the label "at".
At(t, at) == Running /\ loop = t /\ pc[t] = at

\* t's await resolved and its continuation is the next microtask.
Resumes(t, at) == Running /\ loop = 0 /\ pc[t] = at /\ ~worker[t]

Go(t, to) == loop' = t /\ pc' = [pc EXCEPT ![t] = to]

Yield(t, to) == loop' = 0 /\ pc' = [pc EXCEPT ![t] = to]

\* return finish(...): the receipt is written next.
Finish(t, outcome) == Go(t, "finish") /\ pending' = [pending EXCEPT ![t] = outcome]

\* An exception inside the try block: the catch clause records failureStage.
Throw(t, s) == Go(t, "catch") /\ pending' = [pending EXCEPT ![t] = Inconclusive(s)]

DiskFault == faults < MaxFaults /\ faults' = faults + 1

Batch == {t \in Task : base <= t /\ t < base + Concurrency}

-----------------------------------------------------------------------------
(* Worker processes. *)

\* What a worker killed from outside resolves with: a failed exit before its own
\* deadline, or after it; sudo reports the signal as its own or as a status.
KilledResults == {Closed(FALSE), Graceful(FALSE), Forced(FALSE, FALSE)}

\* stopWorkerProcesses(): pkill -KILL of the account, called on behalf of t, whose
\* own result becomes "own".
KillAccount(t, own) ==
  /\ worker' = [u \in Task |-> FALSE]
  /\ stray' = [u \in Task |-> FALSE]
  /\ victim' = [u \in Task |-> victim[u] \/ (u # t /\ worker[u])]
  /\ \E killed \in [Task -> KilledResults] :
       cli' = [u \in Task |-> IF u = t THEN own ELSE IF worker[u] THEN killed[u] ELSE cli[u]]
  /\ UNCHANGED ran

\* A worker process is started and awaited at "to".
Spawn(t, to) ==
  /\ Yield(t, to)
  /\ worker' = [worker EXCEPT ![t] = TRUE]
  /\ cli' = [cli EXCEPT ![t] = Pending]
  /\ ran' = [ran EXCEPT ![t] = @ \/ to = "running"]
  /\ UNCHANGED <<stray, victim>>

\* The awaited process closes by itself, in time or within the grace; a descendant
\* may survive it.
WorkerExits(t) ==
  /\ Running /\ worker[t]
  /\ worker' = [worker EXCEPT ![t] = FALSE]
  /\ \E c \in BOOLEAN : \E o \in {Closed(c), Graceful(c)} : cli' = [cli EXCEPT ![t] = o]
  /\ \E s \in BOOLEAN : stray' = [stray EXCEPT ![t] = s]
  /\ UNCHANGED <<preflight, phase, base, loop, pc, pending, result, diskVars, faults, ran, victim>>

\* The force timer of t's watchdog: the account is killed, or the pkill fails and
\* the process group ends by SIGKILL or by itself.
ForceFires(t) ==
  /\ Running /\ loop = 0 /\ worker[t]
  /\ \/ \E c \in BOOLEAN : KillAccount(t, Forced(FALSE, c))
     \/ /\ worker' = [worker EXCEPT ![t] = FALSE]
        /\ \E c \in BOOLEAN : cli' = [cli EXCEPT ![t] = Forced(TRUE, c)]
        /\ \E s \in BOOLEAN : stray' = [stray EXCEPT ![t] = s]
        /\ UNCHANGED <<ran, victim>>
  /\ UNCHANGED <<preflight, phase, base, loop, pc, pending, result, diskVars, faults>>

\* The output of a worker cannot be written or synced: an uncaught exception in a
\* stream or timer callback ends the controller.
OutputFault(t) ==
  /\ Running /\ loop = 0 /\ worker[t]
  /\ DiskFault
  /\ phase' = "aborted"
  /\ UNCHANGED <<preflight, base, loop, pc, pending, result, procVars, diskVars>>

-----------------------------------------------------------------------------
(* runTask up to the model. *)

\* main starts the tasks of a batch in order; runTask makes its directories and
\* writes the claim before its try block.
Start(t) ==
  /\ Running /\ loop = 0 /\ t \in Batch /\ pc[t] = "idle"
  /\ \A u \in Batch : u < t => pc[u] # "idle"
  /\ \/ /\ Go(t, "cloning")
        /\ taskDir' = [taskDir EXCEPT ![t] = TRUE]
        /\ artifacts' = [artifacts EXCEPT ![t] = "claimed"]
        /\ UNCHANGED faults
     \/ /\ DiskFault
        /\ Go(t, "safe")
        /\ \/ UNCHANGED <<taskDir, artifacts>>
           \/ /\ taskDir' = [taskDir EXCEPT ![t] = TRUE]
              /\ \E a \in {"absent", "made"} : artifacts' = [artifacts EXCEPT ![t] = a]
  /\ UNCHANGED <<preflight, phase, base, pending, result, procVars, evidence, prediction, receipt>>

\* clone, fetch, checkout, rev-parse and the isolation script, all synchronous.
Checkout(t) ==
  /\ At(t, "cloning")
  /\ \/ Go(t, "prepare") /\ UNCHANGED pending
     \/ \E s \in CheckoutStages : Finish(t, Inconclusive(s))
  /\ UNCHANGED <<preflight, phase, base, result, procVars, diskVars, faults>>

\* prepareWorkerDirectory and publicPreparationPlan may throw; then the
\* environment's commands run as one awaited worker.
Prepare(t) ==
  /\ At(t, "prepare")
  /\ \/ Spawn(t, "preparing") /\ UNCHANGED pending
     \/ Throw(t, "preparation") /\ UNCHANGED procVars
  /\ UNCHANGED <<preflight, phase, base, result, diskVars, faults>>

\* A command that failed or timed out throws; then git checks the worktree.
Prepared(t) ==
  /\ Resumes(t, "preparing")
  /\ \/ cli[t] = Closed(TRUE) /\ Spawn(t, "checking") /\ UNCHANGED pending
     \/ Throw(t, "preparation") /\ UNCHANGED procVars
  /\ UNCHANGED <<preflight, phase, base, result, diskVars, faults>>

\* Of the git commands only the status counts; a changed HEAD or source throws.
Checked(t) ==
  /\ Resumes(t, "checking")
  /\ \/ cli[t].clean /\ Go(t, "probe") /\ UNCHANGED pending
     \/ Throw(t, "preparation")
  /\ UNCHANGED <<preflight, phase, base, result, procVars, diskVars, faults>>

Probe(t) ==
  /\ At(t, "probe")
  /\ \/ Spawn(t, "probing") /\ UNCHANGED pending
     \/ Throw(t, "worker-probe") /\ UNCHANGED procVars
  /\ UNCHANGED <<preflight, phase, base, result, diskVars, faults>>

\* The probe must exit cleanly with complete evidence; a preflight run stops here.
Probed(t) ==
  /\ Resumes(t, "probing")
  /\ \/ /\ cli[t].clean
        /\ IF preflight THEN Finish(t, Conclusive("environment-prepared"))
                        ELSE Go(t, "launch") /\ UNCHANGED pending
     \/ Throw(t, "worker-probe")
  /\ UNCHANGED <<preflight, phase, base, result, procVars, diskVars, faults>>

\* The provider environment is built while failureStage is still "worker-probe";
\* opening the output files or spawn itself (E2BIG) may throw; the CLI is spawned or
\* its spawn reports an error.
Launch(t) ==
  /\ At(t, "launch")
  /\ \/ \E s \in {"worker-probe", "cli-run"} : Throw(t, s) /\ UNCHANGED procVars
     \/ Spawn(t, "running") /\ UNCHANGED pending
     \/ /\ Yield(t, "running")
        /\ cli' = [cli EXCEPT ![t] = SpawnFailed]
        /\ UNCHANGED <<worker, stray, ran, victim, pending>>
  /\ UNCHANGED <<preflight, phase, base, result, diskVars, faults>>

-----------------------------------------------------------------------------
(* runTask after the model. *)

\* Mutant: the worktree is captured without stopping what the CLI left behind.
CollectWithoutStop(t) ==
  /\ Resumes(t, "running")
  /\ Go(t, "decide")
  /\ \E e \in EvidenceKinds : evidence' = [evidence EXCEPT ![t] = e]
  /\ UNCHANGED <<preflight, phase, base, pending, result, procVars, taskDir, artifacts, prediction,
                 receipt, faults>>

\* stopWorkerProcesses, then the staged evidence is copied.  A failed pkill or an
\* evidence file that is not regular throws.
Collect(t) ==
  /\ Resumes(t, "running")
  /\ \/ /\ Throw(t, "cli-run")
        /\ UNCHANGED <<procVars, evidence>>
     \/ /\ KillAccount(t, cli[t])
        /\ \/ Throw(t, "cli-run") /\ UNCHANGED evidence
           \/ /\ Go(t, "decide") /\ UNCHANGED pending
              /\ \E e \in IF ran[t] THEN EvidenceKinds ELSE {"absent"} :
                   evidence' = [evidence EXCEPT ![t] = e]
  /\ UNCHANGED <<preflight, phase, base, result, taskDir, artifacts, prediction, receipt, faults>>

\* The terminal patch is empty, is not, or could not be captured (diagnosticError).
Patches == {"empty", "diff", "error"}

\* Mutant: a watchdog kill is taken for the model's own timeout.
DecisionIgnoresClosure(c, e, p) ==
  CASE c.error                  -> Inconclusive("cli-spawn")
    [] ~c.error /\ c.timedOut   -> IF Complete(e) THEN Conclusive("model-timeout")
                                   ELSE Inconclusive("evidence")
    [] OTHER                    -> IF c.clean /\ e = "completed" /\ p = "diff"
                                   THEN Conclusive("frozen-prediction")
                                   ELSE Inconclusive("process")

\* The decision over the process result c, the evidence e and the patch p.
Decision(c, e, p) ==
  CASE c.error                             -> Inconclusive("cli-spawn")
    [] ~c.error /\ c.timedOut              ->
         IF ~Complete(e)                  THEN Inconclusive("evidence")
         ELSE IF c.closure # "graceful"   THEN Inconclusive("process")
         ELSE Conclusive("model-timeout")
    [] ~c.error /\ ~c.timedOut             ->
         IF ~c.clean                      THEN Inconclusive("process")
         ELSE IF e # "completed"          THEN Inconclusive("evidence")
         ELSE IF p = "error"              THEN Inconclusive("patch-freeze")
         ELSE IF p = "empty"              THEN Conclusive("no-diff")
         ELSE Conclusive("frozen-prediction")

\* The patch is captured, the process receipt written, and the attempt decided.
Decide(t) ==
  /\ At(t, "decide")
  /\ \/ DiskFault /\ Throw(t, "cli-run")
     \/ /\ \E p \in Patches :
             LET outcome == Decision(cli[t], evidence[t], p) IN
             IF outcome = Conclusive("frozen-prediction")
             THEN Go(t, "predict") /\ UNCHANGED pending
             ELSE Finish(t, outcome)
        /\ UNCHANGED faults
  /\ UNCHANGED <<preflight, phase, base, result, procVars, diskVars>>

\* createFrozenPrediction may refuse the patch; writeFrozenPrediction renames a
\* temporary file; a fault after the rename leaves the prediction behind.
Predict(t) ==
  /\ At(t, "predict")
  /\ \/ Throw(t, "patch-freeze") /\ UNCHANGED <<prediction, faults>>
     \/ /\ prediction' = [prediction EXCEPT ![t] = TRUE]
        /\ \/ Finish(t, Conclusive("frozen-prediction")) /\ UNCHANGED faults
           \/ DiskFault /\ Throw(t, "patch-freeze")
  /\ UNCHANGED <<preflight, phase, base, result, procVars, taskDir, artifacts, evidence, receipt>>

\* failureStage of the frame when finish(outcome) fails: not always the stage of
\* the outcome itself.
FrameStage(o) ==
  CASE o.stage = "task-admission"                          -> "clone"
    [] o.disposition = "environment-prepared"              -> "worker-probe"
    [] o.disposition \in {"no-diff", "frozen-prediction"}  -> "patch-freeze"
    [] o.disposition = "model-timeout"                     -> "cli-run"
    [] o.stage \in {"cli-spawn", "process", "evidence"}    -> "cli-run"
    [] OTHER                                               -> o.stage

\* writeJsonExclusive(receipt) refuses an existing file; a fault leaves nothing, a
\* torn file, or (after the write, at fsync) the whole file.
ReceiptFaults(o) == {Absent, Torn, o}

\* Mutant: every failure of finish() is retried in the catch clause.
WriteReceiptRetries(t) ==
  /\ At(t, "finish")
  /\ \/ /\ receipt' = [receipt EXCEPT ![t] = pending[t]]
        /\ result' = [result EXCEPT ![t] = pending[t]]
        /\ Go(t, "cleanup") /\ UNCHANGED <<pending, faults>>
     \/ /\ DiskFault /\ Throw(t, FrameStage(pending[t]))
        /\ \E r \in ReceiptFaults(pending[t]) : receipt' = [receipt EXCEPT ![t] = r]
        /\ UNCHANGED result
  /\ UNCHANGED <<preflight, phase, base, procVars, taskDir, artifacts, evidence, prediction>>

\* finish() of the try block; the catch clause tries again if no file was made.
WriteReceipt(t) ==
  /\ At(t, "finish")
  /\ \/ /\ receipt' = [receipt EXCEPT ![t] = pending[t]]
        /\ result' = [result EXCEPT ![t] = pending[t]]
        /\ Go(t, "cleanup") /\ UNCHANGED <<pending, faults>>
     \/ /\ DiskFault
        /\ \E r \in ReceiptFaults(pending[t]) :
             /\ receipt' = [receipt EXCEPT ![t] = r]
             /\ IF r = Absent THEN Throw(t, FrameStage(pending[t]))
                              ELSE Go(t, "unwind") /\ UNCHANGED pending
        /\ UNCHANGED result
  /\ UNCHANGED <<preflight, phase, base, procVars, taskDir, artifacts, evidence, prediction>>

\* finish() of the catch clause: a failure escapes from runTask.
CatchReceipt(t) ==
  /\ At(t, "catch")
  /\ \/ /\ receipt' = [receipt EXCEPT ![t] = pending[t]]
        /\ result' = [result EXCEPT ![t] = pending[t]]
        /\ Go(t, "cleanup") /\ UNCHANGED faults
     \/ /\ DiskFault /\ Go(t, "unwind")
        /\ \E r \in ReceiptFaults(pending[t]) : receipt' = [receipt EXCEPT ![t] = r]
        /\ UNCHANGED result
  /\ UNCHANGED <<preflight, phase, base, pending, procVars, taskDir, artifacts, evidence, prediction>>

\* Mutant: a failing pkill does not keep the directory from being removed.
CleanupRemovesAnyway(t) ==
  /\ Running /\ loop = t /\ pc[t] \in {"cleanup", "unwind"}
  /\ taskDir' = [taskDir EXCEPT ![t] = FALSE]
  /\ KillAccount(t, cli[t]) \/ UNCHANGED procVars
  /\ IF pc[t] = "cleanup" THEN Yield(t, "done") ELSE Go(t, "safe")
  /\ UNCHANGED <<preflight, phase, base, pending, result, artifacts, evidence, prediction, receipt, faults>>

\* finally: stop the account, then remove the directory; either may throw, which
\* replaces the return value.
Cleanup(t) ==
  /\ Running /\ loop = t /\ pc[t] \in {"cleanup", "unwind"}
  /\ \/ Go(t, "safe") /\ UNCHANGED <<procVars, taskDir>>
     \/ Go(t, "safe") /\ KillAccount(t, cli[t]) /\ UNCHANGED taskDir
     \/ /\ KillAccount(t, cli[t])
        /\ taskDir' = [taskDir EXCEPT ![t] = FALSE]
        /\ IF pc[t] = "cleanup" THEN Yield(t, "done") ELSE Go(t, "safe")
  /\ UNCHANGED <<preflight, phase, base, pending, result, artifacts, evidence, prediction, receipt, faults>>

-----------------------------------------------------------------------------
(* runTaskSafe and main. *)

\* Mutant: the record of a failed frame ignores the receipt it already wrote.
SafeIgnoresReceipt(t) ==
  /\ receipt[t] # Absent
  /\ Yield(t, "done") /\ result' = [result EXCEPT ![t] = Inconclusive("harness")]
  /\ UNCHANGED <<receipt, faults>>

\* Mutant: a receipt whose bytes were not all written is taken as it is.
SafeTrustsTorn(t) ==
  /\ receipt[t] # Absent
  /\ Yield(t, "done") /\ result' = [result EXCEPT ![t] = receipt[t]]
  /\ UNCHANGED <<receipt, faults>>

\* An existing receipt is the record; JSON.parse of a torn one throws.
SafeReadsReceipt(t) ==
  /\ receipt[t] # Absent
  /\ IF receipt[t] = Torn
     THEN Yield(t, "rejected") /\ UNCHANGED result
     ELSE Yield(t, "done") /\ result' = [result EXCEPT ![t] = receipt[t]]
  /\ UNCHANGED <<receipt, faults>>

\* Otherwise the record is a harness failure, with a receipt if there is a
\* directory to hold it.
SafeWritesReceipt(t) ==
  LET failure == Inconclusive("harness") IN
  /\ receipt[t] = Absent
  /\ \/ /\ Yield(t, "done")
        /\ result' = [result EXCEPT ![t] = failure]
        /\ receipt' = [receipt EXCEPT ![t] = IF artifacts[t] = "absent" THEN Absent ELSE failure]
        /\ UNCHANGED faults
     \/ /\ artifacts[t] # "absent" /\ DiskFault
        /\ Yield(t, "rejected")
        /\ \E r \in ReceiptFaults(failure) : receipt' = [receipt EXCEPT ![t] = r]
        /\ UNCHANGED result

\* Mutant: runTaskSafe does not catch.
SafeRethrows(t) ==
  /\ At(t, "safe") /\ Yield(t, "rejected")
  /\ UNCHANGED <<preflight, phase, base, pending, result, procVars, diskVars, faults>>

\* The catch clause of runTaskSafe.
Safe(t) ==
  /\ At(t, "safe")
  /\ SafeReadsReceipt(t) \/ SafeWritesReceipt(t)
  /\ UNCHANGED <<preflight, phase, base, pending, procVars, taskDir, artifacts, evidence, prediction>>

\* Mutant: the next batch starts without awaiting this one.
NextBatchEarly ==
  /\ Running /\ loop = 0 /\ base <= NTasks
  /\ \A t \in Batch : pc[t] # "idle"
  /\ base' = base + Concurrency
  /\ UNCHANGED <<preflight, phase, loop, pc, pending, result, procVars, diskVars, faults>>

\* Promise.all of the batch resolved: the next batch.
NextBatch ==
  /\ Running /\ loop = 0 /\ base <= NTasks
  /\ \A t \in Batch : pc[t] = "done"
  /\ base' = base + Concurrency
  /\ UNCHANGED <<preflight, phase, loop, pc, pending, result, procVars, diskVars, faults>>

\* After the last batch the report is written, or main fails.
Report ==
  /\ Running /\ loop = 0 /\ base > NTasks
  /\ \/ phase' = "reported" /\ UNCHANGED faults
     \/ phase' = "aborted" /\ DiskFault
  /\ UNCHANGED <<preflight, base, loop, pc, pending, result, procVars, diskVars>>

\* Promise.all of the batch rejected: main exits with status 1, at once.
Abort ==
  /\ Running /\ loop = 0
  /\ \E t \in Task : pc[t] = "rejected"
  /\ phase' = "aborted"
  /\ UNCHANGED <<preflight, base, loop, pc, pending, result, procVars, diskVars, faults>>

-----------------------------------------------------------------------------
Frame(t) ==
  \/ Start(t) \/ Checkout(t) \/ Prepare(t) \/ Prepared(t) \/ Checked(t) \/ Probe(t) \/ Probed(t)
  \/ Launch(t) \/ Collect(t) \/ Decide(t) \/ Predict(t) \/ WriteReceipt(t)
  \/ CatchReceipt(t) \/ Cleanup(t) \/ Safe(t)

Controller == (\E t \in Task : Frame(t)) \/ NextBatch \/ Report \/ Abort

WorkerEnds(t) == WorkerExits(t) \/ ForceFires(t)

Stopped == phase # "running" /\ UNCHANGED vars

Next ==
  \/ Controller
  \/ \E t \in Task : WorkerEnds(t) \/ OutputFault(t)
  \/ Stopped

\* The event loop runs what is ready, and every awaited worker ends: the watchdog
\* resolves (Watchdog!Resolves) unless a process survives every kill.
Fairness == WF_vars(Controller) /\ \A t \in Task : WF_vars(WorkerEnds(t))

Spec == Init /\ [][Next]_vars /\ Fairness

-----------------------------------------------------------------------------
(* Properties. *)

\* The record main reports for a task is its durable receipt, whatever failed on the
\* way out of runTask; a record without a receipt is a harness failure of a task that
\* never got a directory (runTaskSafe, 890-919).
RecordIsReceipt ==
  \A t \in Task : pc[t] = "done" =>
    \/ receipt[t] \in Outcome /\ result[t] = receipt[t]
    \/ receipt[t] = Absent /\ artifacts[t] = "absent" /\ result[t] = Inconclusive("harness")

\* A conclusive disposition is earned: the model ran, its evidence is complete, the
\* process closed by itself with status 0 or timed out with a closure the watchdog
\* calls graceful, and a frozen prediction is on disk before the receipt that names it
\* (runTask, 625-704).
ConclusiveIsEarned ==
  \A t \in Task :
    /\ receipt[t].disposition \in {"no-diff", "frozen-prediction"} =>
         ran[t] /\ evidence[t] = "completed" /\ cli[t] = Closed(TRUE)
    /\ receipt[t].disposition = "frozen-prediction" => prediction[t]
    /\ receipt[t].disposition = "model-timeout" =>
         ran[t] /\ Complete(evidence[t]) /\ cli[t] \in {Graceful(c) : c \in BOOLEAN}
    /\ receipt[t].disposition = "environment-prepared" => ~ran[t]

\* While the terminal patch is captured, decided and frozen, no process of the task
\* is left to change its worktree (stopWorkerProcesses before captureTerminalPatch).
QuietCapture ==
  \A t \in Task : pc[t] \in {"decide", "predict"} => ~worker[t] /\ ~stray[t]

\* A task's processes never outlive its temporary directory, which also holds the
\* copied provider credentials (the finally clause of runTask, 711-714).
NothingOutlivesDirectory ==
  \A t \in Task : worker[t] \/ stray[t] => taskDir[t]

\* A receipt file is never rewritten or removed, nor a returned record changed, by any
\* retry, catch clause or wrapper (writeJsonExclusive).
RecordsAreFinal ==
  [][\A t \in Task :
       /\ receipt[t] # Absent => receipt'[t] = receipt[t]
       /\ pc[t] = "done" => result'[t] = result[t] /\ pc'[t] = "done"]_vars

\* With --concurrency 1 no task's worker is ever killed on behalf of another task: the
\* account-wide pkill of a cleanup or a force timer finds only its own processes.
SerialIsolation ==
  Concurrency = 1 => \A t \in Task : ~victim[t]

\* Every run writes its report unless a disk write failed: no failure of git, of the
\* preparation, of a worker, of pkill or of rm stops the batch (main, 361-374).
Completes == <>(phase = "reported" \/ (phase = "aborted" /\ faults > 0))

(* What the code says of itself and does not keep. *)

\* "Wrap every task so an unexpected rejection in one task can never abort the rest of
\* the batch or the whole CI job" (scripts/swe-bench-harness.mjs, main).
RejectionNeverAborts ==
  phase = "aborted" => \A t \in Task : pc[t] # "rejected"

\* The failure stages the recovery planner labels "task-environment-before-model"
\* (scripts/plan-recovery.mjs, 179-180).
RecoveryStages == {"clone", "fetch", "checkout", "isolation", "cli-spawn"}
RecoveryStagesPrecedeModel ==
  \A t \in Task : receipt[t].stage \in RecoveryStages => ~ran[t]

=============================================================================
