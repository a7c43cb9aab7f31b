---------------------------- MODULE OfficialBatch ----------------------------
(***************************************************************************)
(* The official evaluation of one accepted generation:                     *)
(* evaluateAdmittedGeneration, evaluateTask and inconclusiveTask of        *)
(* scripts/evaluate-official.mjs, and the verification of their report.    *)
(*                                                                         *)
(* An invocation is one run of the script.  Invocations may overlap or     *)
(* follow one another, of the same admission receipt and output path; each *)
(* may crash between any two steps.  What they share is the disk: the      *)
(* output directory named by the composite hash of the admission, a        *)
(* directory, a claim and a terminal receipt per task, and the report.     *)
(*                                                                         *)
(* A durable write fails without a trace, leaves a torn file, or fails     *)
(* after the bytes are there ("faults" counts them).                       *)
(***************************************************************************)
EXTENDS Naturals, OfficialRecords

CONSTANTS
  Invocations,   \* runs of the script
  NTasks,        \* the admitted tasks, in the order of the receipt
  Predicted,     \* those with a frozen prediction
  Concurrency,   \* --concurrency
  MaxFaults      \* bound: writes that fail

ASSUME TasksAssumption == NTasks \in Nat /\ Predicted \subseteq 1..NTasks
ASSUME ConcurrencyAssumption == Concurrency \in Nat \ {0}
ASSUME FaultsAssumption == MaxFaults \in Nat

Tasks == 1..NTasks

VARIABLES
  pc,            \* where an invocation is
  next,          \* index of the current batch of Promise.all
  tpc,           \* where evaluateTask is, per invocation and task
  entries,       \* tasks of the report, per invocation and task
  imageError,    \* imageManifestError is set, per invocation
  directory,     \* outputDir exists
  batchClaim,    \* batch-claim.json
  imageManifest, \* image-manifest.json is there
  taskDir,       \* the directory of a task exists
  claim,         \* invocation-claim.json of a task
  receipt,       \* terminal-receipt.json of a task
  report,        \* the report file
  calls,         \* history: evaluations begun, per task
  faults         \* history: writes that failed

invocationVars == <<pc, next, tpc, entries, imageError>>
diskVars == <<directory, batchClaim, imageManifest, taskDir, claim, receipt, report>>
vars == <<invocationVars, diskVars, calls, faults>>

Files == {"none", "torn", "written"}
Absent == [file |-> "none"]
Torn == [file |-> "torn"]

\* The prediction of t as the generation froze it, and as verifyAdmissionReceipt reads it.
FrozenFile(t) ==
  [evaluationBatchId |-> "formal", attemptId |-> t, instanceId |-> t, modelPatch |-> t]
PredictionOf(t) == ReadFrozenPrediction(FrozenFile(t))

NoEntry == [disposition |-> "pending"]
\* { instance_id, disposition }: the task has no prediction.
NotEvaluated == [disposition |-> "not-evaluated"]
\* The references are to files that exist.
Entry(record, error, claimed, terminal) ==
  [disposition |-> "predicted", official |-> record, evaluationError |-> error,
   claim |-> claimed, terminalReceipt |-> terminal]

InvocationStates ==
  {"idle", "admitted", "claiming", "freezing", "evaluating", "reporting",
   "reported", "rejected", "dead"}
Ended == {"reported", "rejected", "dead"}
TaskStates == {"idle", "claimed", "evaluating", "done"}

TypeOK ==
  /\ pc \in [Invocations -> InvocationStates]
  /\ next \in [Invocations -> Nat]
  /\ tpc \in [Invocations -> [Tasks -> TaskStates]]
  /\ imageError \in [Invocations -> BOOLEAN]
  /\ directory \in BOOLEAN /\ imageManifest \in BOOLEAN /\ batchClaim \in Files
  /\ taskDir \in [Tasks -> BOOLEAN] /\ claim \in [Tasks -> Files]
  /\ calls \in [Tasks -> Nat] /\ faults \in 0..MaxFaults

Init ==
  /\ pc = [c \in Invocations |-> "idle"] /\ next = [c \in Invocations |-> 1]
  /\ tpc = [c \in Invocations |-> [t \in Tasks |-> "idle"]]
  /\ entries = [c \in Invocations |-> [t \in Tasks |-> NoEntry]]
  /\ imageError = [c \in Invocations |-> FALSE]
  /\ directory = FALSE /\ batchClaim = "none" /\ imageManifest = FALSE
  /\ taskDir = [t \in Tasks |-> FALSE] /\ claim = [t \in Tasks |-> "none"]
  /\ receipt = [t \in Tasks |-> Absent] /\ report = Absent
  /\ calls = [t \in Tasks |-> 0] /\ faults = 0

-----------------------------------------------------------------------------
(* Helpers. *)

\* Mutant: a directory or file left by an earlier invocation is taken over.
CreatesAnyway(exists) == TRUE

\* mkdirSync without "recursive" and openSync with "wx" succeed.
Creates(exists) == ~exists

Goto(c, place) == pc' = [pc EXCEPT ![c] = place]

\* The main program's catch: the process exits.
Reject(c) == Goto(c, "rejected") /\ UNCHANGED <<next, tpc, entries, imageError>>

Fault == faults < MaxFaults /\ faults' = faults + 1

\* What a failed durable write of a new file leaves.
Remains(content) == {Absent, Torn, [file |-> "written", content |-> content]}

\* evaluateTask of t resolves with the entry e.
Resolve(c, t, e) ==
  /\ entries' = [entries EXCEPT ![c][t] = e]
  /\ tpc' = [tpc EXCEPT ![c][t] = "done"]
  /\ UNCHANGED <<pc, next, imageError>>

\* The record of inconclusiveTask: the one of an evaluation without a manifest, with
\* its own reason.
Fallback(t, why) ==
  LET fallback == CHOOSE r \in EvaluateFrozenPrediction(PredictionOf(t), FALSE) : TRUE IN
  [fallback EXCEPT !.reason = why]

\* Mutant: a task that throws is left rejected and its batch goes on.
InconclusiveSettled(c, t, claimed) ==
  LET record == Fallback(t, "uncertain-external-effect") IN
  IF IsOfficialRecord(record)
  THEN Resolve(c, t, Entry(record, TRUE, claimed, FALSE))
  ELSE tpc' = [tpc EXCEPT ![c][t] = "rejected"] /\ UNCHANGED <<pc, next, entries, imageError>>

\* inconclusiveTask: throws if the record is not admitted, which rejects the batch.
Inconclusive(c, t, claimed) ==
  LET record == Fallback(t, "uncertain-external-effect") IN
  IF IsOfficialRecord(record) THEN Resolve(c, t, Entry(record, TRUE, claimed, FALSE))
                              ELSE Reject(c)

-----------------------------------------------------------------------------
(* The invocation. *)

\* existsSync of the report and of the directory, and the verification of the receipt
\* between them, which may refuse.
Admit(c) ==
  /\ pc[c] = "idle"
  /\ \/ report = Absent /\ ~directory /\ Goto(c, "admitted")
        /\ UNCHANGED <<next, tpc, entries, imageError>>
     \/ Reject(c)
  /\ UNCHANGED <<diskVars, calls, faults>>

MakeDirectory(c) ==
  /\ pc[c] = "admitted"
  /\ IF Creates(directory)
     THEN /\ directory' = TRUE /\ Goto(c, "claiming")
          /\ UNCHANGED <<next, tpc, entries, imageError>>
     ELSE Reject(c) /\ UNCHANGED directory
  /\ UNCHANGED <<batchClaim, imageManifest, taskDir, claim, receipt, report, calls, faults>>

WriteBatchClaim(c) ==
  /\ pc[c] = "claiming"
  /\ IF ~Creates(batchClaim # "none")
     THEN Reject(c) /\ UNCHANGED <<batchClaim, faults>>
     ELSE \/ /\ batchClaim' = "written" /\ Goto(c, "freezing")
             /\ UNCHANGED <<next, tpc, entries, imageError, faults>>
          \/ Fault /\ batchClaim' \in Files /\ Reject(c)
  /\ UNCHANGED <<directory, imageManifest, taskDir, claim, receipt, report, calls>>

\* freezeOfficialImageManifest, if there is a prediction; when it fails, every task is
\* given up as inconclusive and none is evaluated.
FreezeImages(c) ==
  /\ pc[c] = "freezing"
  /\ \/ /\ Goto(c, "evaluating")
        /\ imageManifest' = (imageManifest \/ Predicted # {})
        /\ UNCHANGED <<next, tpc, entries, imageError>>
     \/ /\ Predicted # {} /\ UNCHANGED imageManifest
        /\ LET record(t) == Fallback(t, "evaluator-error") IN
           IF \A t \in Predicted : IsOfficialRecord(record(t))
           THEN /\ entries' = [entries EXCEPT ![c] =
                     [t \in Tasks |-> IF t \in Predicted
                                      THEN Entry(record(t), TRUE, FALSE, FALSE)
                                      ELSE NotEvaluated]]
                /\ imageError' = [imageError EXCEPT ![c] = TRUE]
                /\ Goto(c, "reporting") /\ UNCHANGED <<next, tpc>>
           ELSE Reject(c)
  /\ UNCHANGED <<directory, batchClaim, taskDir, claim, receipt, report, calls, faults>>

\* The tasks of the current batch.
Batch(c) == {t \in Tasks : next[c] <= t /\ t < next[c] + Concurrency}

\* Mutant: the evaluation goes on without its claim.
ClaimOptional(c, t) ==
  /\ pc[c] = "evaluating" /\ t \in Batch(c) /\ tpc[c][t] = "idle"
  /\ IF t \notin Predicted
     THEN Resolve(c, t, NotEvaluated) /\ UNCHANGED <<taskDir, claim, faults>>
     ELSE /\ Creates(taskDir[t])
          /\ taskDir' = [taskDir EXCEPT ![t] = TRUE]
          /\ tpc' = [tpc EXCEPT ![c][t] = "claimed"]
          /\ UNCHANGED <<pc, next, entries, imageError>>
          /\ \/ claim' = [claim EXCEPT ![t] = "written"] /\ UNCHANGED faults
             \/ Fault /\ \E left \in Files : claim' = [claim EXCEPT ![t] = left]
  /\ UNCHANGED <<directory, batchClaim, imageManifest, receipt, report, calls>>

\* evaluateTask up to its claim: without a prediction it returns; an existing directory
\* makes it throw, a failed write gives the task up. (The claim of a new
\* directory is new.)
Claim(c, t) ==
  /\ pc[c] = "evaluating" /\ t \in Batch(c) /\ tpc[c][t] = "idle"
  /\ IF t \notin Predicted
     THEN Resolve(c, t, NotEvaluated) /\ UNCHANGED <<taskDir, claim, faults>>
     ELSE IF ~Creates(taskDir[t])
     THEN Reject(c) /\ UNCHANGED <<taskDir, claim, faults>>
     ELSE /\ taskDir' = [taskDir EXCEPT ![t] = TRUE]
          /\ \/ /\ claim' = [claim EXCEPT ![t] = "written"]
                /\ tpc' = [tpc EXCEPT ![c][t] = "claimed"]
                /\ UNCHANGED <<pc, next, entries, imageError, faults>>
             \/ /\ Fault
                /\ \E left \in Files : /\ claim' = [claim EXCEPT ![t] = left]
                                       /\ Inconclusive(c, t, left # "none")
  /\ UNCHANGED <<directory, batchClaim, imageManifest, receipt, report, calls>>

\* It calls evaluateFrozenPrediction with the manifest.
Call(c, t) ==
  /\ pc[c] = "evaluating" /\ tpc[c][t] = "claimed"
  /\ calls' = [calls EXCEPT ![t] = @ + 1]
  /\ tpc' = [tpc EXCEPT ![c][t] = "evaluating"]
  /\ UNCHANGED <<pc, next, entries, imageError, diskVars, faults>>

\* Mutant: the entry names the terminal receipt whether or not it could be written.
ReceiveUnchecked(c, t) ==
  /\ pc[c] = "evaluating" /\ tpc[c][t] = "evaluating"
  /\ \E record \in EvaluateFrozenPrediction(PredictionOf(t), TRUE) \ {Thrown} :
       /\ Resolve(c, t, Entry(record, record.verdict = "inconclusive", TRUE, TRUE))
       /\ \/ /\ receipt' = [receipt EXCEPT ![t] = [file |-> "written", content |-> record]]
             /\ UNCHANGED faults
          \/ Fault /\ \E left \in Remains(record) : receipt' = [receipt EXCEPT ![t] = left]
  /\ UNCHANGED <<directory, batchClaim, imageManifest, taskDir, claim, report, calls>>

\* The evaluation returns and the terminal receipt is written; whatever is thrown on the
\* way gives the task up.
Receive(c, t) ==
  /\ pc[c] = "evaluating" /\ tpc[c][t] = "evaluating"
  /\ \E record \in EvaluateFrozenPrediction(PredictionOf(t), TRUE) :
       IF record = Thrown \/ ~Creates(receipt[t] # Absent)
       THEN Inconclusive(c, t, TRUE) /\ UNCHANGED <<receipt, faults>>
       ELSE \/ /\ receipt' = [receipt EXCEPT ![t] = [file |-> "written", content |-> record]]
               /\ Resolve(c, t, Entry(record, record.verdict = "inconclusive", TRUE, TRUE))
               /\ UNCHANGED faults
            \/ /\ Fault
               /\ \E left \in Remains(record) : receipt' = [receipt EXCEPT ![t] = left]
               /\ Inconclusive(c, t, TRUE)
  /\ UNCHANGED <<directory, batchClaim, imageManifest, taskDir, claim, report, calls>>

\* Promise.all of the batch has resolved.
NextBatch(c) ==
  /\ pc[c] = "evaluating"
  /\ \A t \in Batch(c) : tpc[c][t] = "done"
  /\ next' = [next EXCEPT ![c] = @ + Concurrency]
  /\ IF next'[c] > NTasks THEN Goto(c, "reporting") ELSE UNCHANGED pc
  /\ UNCHANGED <<tpc, entries, imageError, diskVars, calls, faults>>

\* summarizeOfficialEvaluations; passAt1 is a fraction, as the tasks that count.
Summary(es) ==
  LET of(verdict) == {t \in Predicted : es[t].official.verdict = verdict} IN
  [resolved |-> of("resolved"), testFailed |-> of("test-failed"),
   inconclusive |-> of("inconclusive"), scored |-> of("inconclusive") = {}]

ReportOf(c) ==
  [imageManifest |-> imageManifest /\ ~imageError[c], imageManifestError |-> imageError[c],
   tasks |-> entries[c], summary |-> Summary(entries[c])]

\* The report and its Markdown, whose failure finds the report written.
WriteReport(c) ==
  /\ pc[c] = "reporting"
  /\ IF ~Creates(report # Absent)
     THEN Reject(c) /\ UNCHANGED <<report, faults>>
     ELSE \/ /\ report' = [file |-> "written", content |-> ReportOf(c)]
             /\ Goto(c, "reported")
             /\ UNCHANGED <<next, tpc, entries, imageError, faults>>
          \/ Fault /\ report' \in Remains(ReportOf(c)) /\ Reject(c)
  /\ UNCHANGED <<directory, batchClaim, imageManifest, taskDir, claim, receipt, calls>>

Crash(c) ==
  /\ pc[c] \notin Ended
  /\ Goto(c, "dead")
  /\ UNCHANGED <<next, tpc, entries, imageError, diskVars, calls, faults>>

Next ==
  \E c \in Invocations :
    \/ Admit(c) \/ MakeDirectory(c) \/ WriteBatchClaim(c) \/ FreezeImages(c)
    \/ \E t \in Tasks : Claim(c, t) \/ Call(c, t) \/ Receive(c, t)
    \/ NextBatch(c) \/ WriteReport(c) \/ Crash(c)

Spec == Init /\ [][Next]_vars

-----------------------------------------------------------------------------
(* verifyOfficialEvaluationReport. *)

\* verifyOfficialTask of t returns rather than throws.
TaskVerifies(r, t) ==
  LET entry == r.tasks[t]
      official == entry.official
  IN
  IF t \notin Predicted THEN entry = NotEvaluated
  ELSE /\ IsOfficialRecord(official)
       /\ official.instanceId = PredictionOf(t).instanceId
       /\ official.attemptId = PredictionOf(t).attemptId
       /\ official.evaluationBatchId = PredictionOf(t).evaluationBatchId
       /\ official.patchSha256 = PredictionOf(t).modelPatchSha256
       /\ IF ~entry.terminalReceipt
          THEN /\ official.verdict = "inconclusive" /\ entry.evaluationError
               /\ entry.claim => claim[t] # "none"
          ELSE /\ entry.claim
               /\ (official.verdict = "inconclusive") = entry.evaluationError
               /\ official.provenance # "none"
               /\ r.imageManifest
               /\ official.verdict # "inconclusive" => official.provenance = "image"
               /\ claim[t] = "written"
               /\ receipt[t] = [file |-> "written", content |-> official]

Verifies(r) ==
  /\ ~r.imageManifest => r.imageManifestError \/ Predicted = {}
  /\ r.imageManifest => ~r.imageManifestError
  /\ \A t \in Tasks : TaskVerifies(r, t)
  /\ r.summary = Summary(r.tasks)

-----------------------------------------------------------------------------
(* Properties. *)

\* Whatever invocations overlap, crash or follow one another, a prediction of an
\* admitted generation is handed to the evaluator at most once (evaluateAdmittedGeneration
\* 56-60, evaluateTask 476).
EvaluatedAtMostOnce == \A t \in Tasks : calls[t] <= 1

\* No evaluation begins without its claims on disk, so that a crash leaves the trace of
\* every evaluation that may have taken effect (evaluateTask, 487-505).
ClaimPrecedesCall ==
  \A t \in Tasks : calls[t] > 0 => claim[t] = "written" /\ batchClaim = "written"

\* A report covers the admitted population, and each terminal receipt it names is the
\* one on disk and holds the record the report shows (evaluateTask 505-520).
ReportIsOnFile ==
  report.file = "written" =>
    \A t \in Tasks :
      LET entry == report.content.tasks[t] IN
      IF t \in Predicted
      THEN /\ entry.disposition = "predicted"
           /\ entry.terminalReceipt =>
                /\ receipt[t] = [file |-> "written", content |-> entry.official]
                /\ calls[t] = 1
      ELSE entry = NotEvaluated

\* The documented second command: --verify-report accepts the report that the first one
\* wrote (README.md 92-98, scripts/evaluate-official.mjs 254-366).
ReportVerifies == report.file = "written" => Verifies(report.content)

=============================================================================
