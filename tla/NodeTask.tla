------------------------------ MODULE NodeTask ------------------------------
(***************************************************************************)
(* One hosted job of the frozen Node bundle: one model attempt at one task *)
(* and its official evaluation.  The job runs four commands of             *)
(* scripts/node-bundle-controller.mjs in turn, prepare, generate, evaluate *)
(* and publish; a failed one skips the others, except publish.  generate   *)
(* is generateNodeBundleTask (scripts/generate-node-bundle-one.mjs) and    *)
(* evaluate is evaluateNodeBundleTask (scripts/evaluate-node-bundle-one).  *)
(*                                                                         *)
(* Three containers take part: the one the model works in, the trusted one *)
(* its patch is captured in, and the one of the official evaluator.  A     *)
(* docker command that fails, is killed by its timeout or cannot write its *)
(* receipt may have taken effect or not, and a write that fails may leave  *)
(* a torn file, which its write-once flag protects from then on.           *)
(***************************************************************************)
EXTENDS Naturals

VARIABLES
  pc,         \* where the job is
  failed,     \* a command of the job failed
  tries,      \* attempts at preparing the evaluator
  corpus,     \* the downloaded corpus file: "absent", "short", "whole"
  file,       \* write-once files of the evidence directory, the lock among them
  owns,       \* ownsLock
  box,        \* the containers
  knows,      \* the generation containers whose id is at hand
  agent,      \* processes of the agent are alive in the model container
  sum,        \* the summary of the attempt
  calls,      \* history: how often the model and the evaluator were started
  exported,   \* history: the state of the container the last exports were taken from
  verdict,    \* the evaluation record in memory
  upload      \* what publish staged

diskVars == <<corpus, file>>
dockerVars == <<box, agent>>
vars == <<pc, failed, tries, diskVars, owns, dockerVars, knows, sum, calls, exported,
          verdict, upload>>

Containers == {"model", "capture", "eval"}
Files ==
  {"lock", "manifest", "modelClaim", "processReceipt", "exportReceipts", "exports",
   "captured", "prediction", "summary", "disposition", "audit", "evaluationClaim",
   "record", "closure"}
FileStates == {"absent", "torn", "whole"}

PreparePcs == {"prepare"}
AttemptPcs ==
  {"admit", "create", "ready", "preflight", "inject", "claim", "launch", "model", "close",
   "receipt", "export", "remove", "inspect", "captureCreate", "capture", "captureRemove",
   "predict"}
FinallyPcs ==
  {"probe", "lastClose", "lastExport", "lastRemove", "lastCapture", "lastCaptureRemove",
   "lastReceipt", "unlock", "summary"}
SettlePcs == {"settle", "audit"}
EvaluatePcs == {"evaluate", "evaluationClaim", "evaluator", "record", "closure"}
RunningPcs == PreparePcs \cup AttemptPcs \cup FinallyPcs \cup SettlePcs \cup EvaluatePcs
Pcs == RunningPcs \cup {"publish", "done"}

Summaries ==
  [attempt: BOOLEAN, preflight: BOOLEAN, closed: BOOLEAN, removed: BOOLEAN,
   captureRemoved: BOOLEAN, process: {"none", "ok", "failed"},
   exports: {"none", "unsafe", "safe"},
   evidence: {"none", "incomplete", "failed", "completed"},
   capture: {"none", "empty", "captured"}, prediction: BOOLEAN, completed: BOOLEAN]

TypeOK ==
  /\ pc \in Pcs
  /\ failed \in BOOLEAN
  /\ tries \in 0..3
  /\ corpus \in {"absent", "short", "whole"}
  /\ file \in [Files -> FileStates]
  /\ owns \in BOOLEAN
  /\ box \in [Containers -> {"none", "created", "running", "stopped", "gone"}]
  /\ knows \subseteq {"model", "capture"}
  /\ agent \in BOOLEAN
  /\ sum \in Summaries
  /\ calls \in [model: 0..1, evaluator: 0..1]
  /\ exported \in {"none", "created", "running", "stopped", "gone"}
  /\ verdict \in {"none", "conclusive", "inconclusive"}
  /\ upload \in {"none", "raw", "blocked"}

Init ==
  /\ pc = "prepare" /\ failed = FALSE /\ tries = 0 /\ corpus = "absent"
  /\ file = [f \in Files |-> "absent"] /\ owns = FALSE
  /\ box = [c \in Containers |-> "none"] /\ knows = {} /\ agent = FALSE
  /\ sum = [attempt |-> FALSE, preflight |-> FALSE, closed |-> FALSE, removed |-> FALSE,
            captureRemoved |-> TRUE, process |-> "none", exports |-> "none",
            evidence |-> "none", capture |-> "none", prediction |-> FALSE,
            completed |-> FALSE]
  /\ calls = [model |-> 0, evaluator |-> 0] /\ exported = "none"
  /\ verdict = "none" /\ upload = "none"

------------------------------------------------------------------------------
(* Writing a file with flag "wx", and commands of the docker client. *)

Torn(f) == [file EXCEPT ![f] = IF @ = "absent" THEN "torn" ELSE @]

Write(f, then, otherwise) ==
  \/ /\ file[f] = "absent"
     /\ file' = [file EXCEPT ![f] = "whole"]
     /\ pc' = then
  \/ /\ file' \in {file, Torn(f)}
     /\ pc' = otherwise

\* What a container can be after a command that was to bring it to state "to" failed.
Failing(c, to) == {box, [box EXCEPT ![c] = to]}

\* docker create: the id is known only when the command succeeded.
CreateContainer(c, then, otherwise) ==
  \/ /\ box' = [box EXCEPT ![c] = "created"]
     /\ knows' = knows \cup {c}
     /\ pc' = then
  \/ /\ box' \in Failing(c, "created")
     /\ pc' = otherwise
     /\ UNCHANGED knows

\* closeModel: kill the container if it runs, and see that it does not.
Stopped(b) == [b EXCEPT !["model"] = IF @ = "running" THEN "stopped" ELSE @]

CloseModel(then, otherwise) ==
  \/ /\ box' = Stopped(box) /\ agent' = FALSE
     /\ sum' = [sum EXCEPT !.closed = TRUE]
     /\ pc' = then
  \/ /\ \/ box' = Stopped(box) /\ agent' = FALSE
        \/ UNCHANGED dockerVars
     /\ pc' = otherwise
     /\ UNCHANGED sum

\* collectTerminalExports: an export whose receipt is already on file fails, and so does
\* the whole call when exports.json cannot be written.
CollectExports(then, otherwise) ==
  /\ exported' = box["model"]
  /\ \/ /\ file["exports"] = "absent"
        /\ file' = [file EXCEPT !["exportReceipts"] = "whole", !["exports"] = "whole"]
        /\ \E e \in IF file["exportReceipts"] = "absent" THEN {"unsafe", "safe"}
                    ELSE {"unsafe"} :
             sum' = [sum EXCEPT !.exports = e]
        /\ pc' = then
     \/ /\ file' \in {[f EXCEPT !["exportReceipts"] = "whole"] : f \in {file, Torn("exports")}}
        /\ pc' = otherwise
        /\ UNCHANGED sum

\* Mutant: a stopped container may go, whatever was exported from it.
ModelRemovalOnceClosed == sum.closed

ModelRemovalSafe == sum.closed /\ (sum.attempt => sum.exports = "safe")

\* remove: docker rm --force, then docker ps must not list the container any more.
RemoveContainer(c, after, then, otherwise) ==
  \/ /\ box' = [box EXCEPT ![c] = "gone"]
     /\ sum' = after
     /\ pc' = then
  \/ /\ box' \in Failing(c, "gone")
     /\ pc' = otherwise
     /\ UNCHANGED sum

------------------------------------------------------------------------------
(* prepare *)

\* Mutant: the loop admits one attempt too many.
MaxTriesAndOne == 4

MaxTries == 3   \* PREPARE_TRANSPORT_POLICY.attempts

\* What a download of the corpus leaves; a corpus on disk is not downloaded again.
Download == IF corpus = "absent" THEN {"absent", "short", "whole"} ELSE {corpus}

\* The last attempt failed, or the deadline has passed; the receipt of the preparation may
\* fail even after a success.
GiveUp == pc' = "publish" /\ failed' = TRUE

\* The workflow's runs cannot be read or admitted, or the evaluator cannot be installed.
PrepareRejected ==
  /\ pc = "prepare" /\ tries = 0
  /\ GiveUp
  /\ UNCHANGED <<tries, diskVars, owns, dockerVars, knows, sum, calls, exported, verdict, upload>>

\* One attempt of prepareWithTransportRetry: clear the manifest, then prepare-swe-bench.mjs.
PrepareAttempt ==
  /\ pc = "prepare" /\ tries < MaxTries
  /\ tries' = tries + 1
  /\ corpus' \in Download
  /\ \/ /\ corpus' = "whole"
        /\ file' = [file EXCEPT !["manifest"] = "whole"]
        /\ \/ pc' = "admit" /\ UNCHANGED failed
           \/ GiveUp
     \/ /\ file' \in {[file EXCEPT !["manifest"] = m] :
                        m \in IF corpus' = "whole" THEN FileStates ELSE {"absent"}}
        /\ \/ tries' < MaxTries /\ UNCHANGED <<pc, failed>>
           \/ GiveUp
  /\ UNCHANGED <<owns, dockerVars, knows, sum, calls, exported, verdict, upload>>

------------------------------------------------------------------------------
(* generate: generateNodeBundleTask up to its catch clause *)

\* A throw within the try block: the finally clause is next.
Thrown == "probe"

\* The inputs are refused before the try block, or the provider cannot be materialized.
GenerateRejected ==
  /\ pc = "admit"
  /\ pc' = "audit" /\ failed' = TRUE
  /\ UNCHANGED <<tries, diskVars, owns, dockerVars, knows, sum, calls, exported, verdict, upload>>

\* The lock is taken once the inputs are verified.
Admit ==
  /\ pc = "admit"
  /\ \/ /\ Write("lock", "create", Thrown)
        /\ owns' = (file'["lock"] = "whole")
     \/ /\ pc' = Thrown
        /\ UNCHANGED <<file, owns>>
  /\ UNCHANGED <<failed, tries, corpus, dockerVars, knows, sum, calls, exported, verdict, upload>>

\* The image is pulled and the model container created.
CreateModel ==
  /\ pc = "create"
  /\ \/ CreateContainer("model", "ready", Thrown)
     \/ pc' = Thrown /\ UNCHANGED <<box, knows>>
  /\ UNCHANGED <<failed, tries, diskVars, owns, agent, sum, calls, exported, verdict, upload>>

\* Started, inspected, given Node and the bundle, sanitized and scanned.
Ready ==
  /\ pc = "ready"
  /\ \/ /\ box' = [box EXCEPT !["model"] = "running"]
        /\ sum' = [sum EXCEPT !.preflight = TRUE]
        /\ pc' = "preflight"
     \/ /\ box' \in Failing("model", "running")
        /\ pc' = Thrown
        /\ UNCHANGED sum
  /\ UNCHANGED <<failed, tries, diskVars, owns, agent, knows, calls, exported, verdict, upload>>

\* Environment, probe and baseline; what follows is no longer stage "preflight".
Preflight ==
  /\ pc = "preflight"
  /\ \/ pc' = "inject" /\ sum' = [sum EXCEPT !.preflight = FALSE]
     \/ pc' = Thrown /\ UNCHANGED sum
  /\ UNCHANGED <<failed, tries, diskVars, owns, dockerVars, knows, calls, exported, verdict, upload>>

\* The provider goes into the container and must not expire before the watchdog.
Inject ==
  /\ pc = "inject"
  /\ pc' \in {"claim", Thrown}
  /\ UNCHANGED <<failed, tries, diskVars, owns, dockerVars, knows, sum, calls, exported, verdict, upload>>

ClaimModel ==
  /\ pc = "claim"
  /\ Write("modelClaim", "launch", Thrown)
  /\ sum' = [sum EXCEPT !.attempt = (pc' = "launch")]
  /\ UNCHANGED <<failed, tries, corpus, owns, dockerVars, knows, calls, exported, verdict, upload>>

\* docker exec of the agent; the command may fail before the agent starts.
Launch ==
  /\ pc = "launch"
  /\ pc' = "model"
  /\ agent' \in {box["model"] = "running", FALSE}
  /\ calls' = [calls EXCEPT !.model = 1]
  /\ UNCHANGED <<failed, tries, diskVars, owns, box, knows, sum, exported, verdict, upload>>

\* The client returns, or is killed by the watchdog.  That ends the client: the agent, or
\* descendants of it, may live on in the container.
ModelReturns ==
  /\ pc = "model"
  /\ agent' \in {agent, FALSE}
  /\ \/ /\ \E p \in {"ok", "failed"} : sum' = [sum EXCEPT !.process = p]
        /\ pc' = "close"
     \/ /\ pc' = Thrown
        /\ UNCHANGED sum
  /\ UNCHANGED <<failed, tries, diskVars, owns, box, knows, calls, exported, verdict, upload>>

Close ==
  /\ pc = "close"
  /\ CloseModel("receipt", Thrown)
  /\ UNCHANGED <<failed, tries, diskVars, owns, knows, calls, exported, verdict, upload>>

ProcessReceipt ==
  /\ pc = "receipt"
  /\ Write("processReceipt", "export", Thrown)
  /\ UNCHANGED <<failed, tries, corpus, owns, dockerVars, knows, sum, calls, exported, verdict, upload>>

Export ==
  /\ pc = "export"
  /\ CollectExports("remove", Thrown)
  /\ UNCHANGED <<failed, tries, corpus, owns, dockerVars, knows, calls, verdict, upload>>

\* Unsafe exports leave the stopped container where it is.
Remove ==
  /\ pc = "remove"
  /\ \/ /\ ModelRemovalSafe
        /\ RemoveContainer("model", [sum EXCEPT !.removed = TRUE], "inspect", Thrown)
     \/ /\ ~ModelRemovalSafe
        /\ pc' = Thrown
        /\ UNCHANGED <<box, sum>>
  /\ UNCHANGED <<failed, tries, diskVars, owns, agent, knows, calls, exported, verdict, upload>>

\* inspectAttemptEvidence; then the archive of the workspace must be admitted.
Inspect ==
  /\ pc = "inspect"
  /\ \/ /\ \E e \in {"incomplete", "failed", "completed"} : sum' = [sum EXCEPT !.evidence = e]
        /\ pc' \in {"captureCreate", Thrown}
     \/ /\ pc' = Thrown
        /\ UNCHANGED sum
  /\ UNCHANGED <<failed, tries, diskVars, owns, dockerVars, knows, calls, exported, verdict, upload>>

CreateCapture ==
  /\ pc = "captureCreate"
  /\ CreateContainer("capture", "capture", Thrown)
  /\ sum' = [sum EXCEPT !.captureRemoved = (pc' # "capture")]
  /\ UNCHANGED <<failed, tries, diskVars, owns, agent, calls, exported, verdict, upload>>

\* The workspace is restored into the trusted container and its patch exported.
Capture ==
  /\ pc = "capture"
  /\ \/ /\ box' = [box EXCEPT !["capture"] = "running"]
        /\ file' = [file EXCEPT !["captured"] = "whole"]
        /\ \E c \in {"empty", "captured"} : sum' = [sum EXCEPT !.capture = c]
        /\ pc' = "captureRemove"
     \/ /\ box' \in Failing("capture", "running")
        /\ file' \in {file, Torn("captured")}
        /\ pc' = Thrown
        /\ UNCHANGED sum
  /\ UNCHANGED <<failed, tries, corpus, owns, agent, knows, calls, exported, verdict, upload>>

RemoveCapture ==
  /\ pc = "captureRemove"
  /\ RemoveContainer("capture", [sum EXCEPT !.captureRemoved = TRUE], "predict", Thrown)
  /\ UNCHANGED <<failed, tries, diskVars, owns, agent, knows, calls, exported, verdict, upload>>

\* Mutant: the state of the attempt evidence is not asked for.
PredictionOfAnyEvidence ==
  /\ sum.process = "ok" /\ sum.closed /\ sum.removed /\ sum.captureRemoved
  /\ sum.exports = "safe" /\ sum.capture = "captured"

PredictionEligible ==
  /\ sum.process = "ok" /\ sum.closed /\ sum.removed /\ sum.captureRemoved
  /\ sum.evidence = "completed" /\ sum.exports = "safe" /\ sum.capture = "captured"

Predict ==
  /\ pc = "predict"
  /\ pc' = Thrown
  /\ \/ /\ PredictionEligible /\ file["prediction"] = "absent"
        /\ file' = [file EXCEPT !["prediction"] = "whole"]
        /\ sum' = [sum EXCEPT !.prediction = TRUE, !.completed = TRUE]
     \/ /\ PredictionEligible
        /\ file' \in {file, Torn("prediction")}
        /\ UNCHANGED sum
     \/ /\ ~PredictionEligible
        /\ sum' = [sum EXCEPT !.completed = TRUE]
        /\ UNCHANGED file
  /\ UNCHANGED <<failed, tries, corpus, owns, dockerVars, knows, calls, exported, verdict, upload>>

------------------------------------------------------------------------------
(* generate: the finally clause.  What it throws replaces the summary: the rest of the  *)
(* clause is skipped and generate() goes on to its own finally clause.                   *)

Rejected == pc' = "audit" /\ failed' = TRUE

MayReject(next) == (pc' = next /\ UNCHANGED failed) \/ Rejected

\* A partial probe is exported from a container that never got past it.
PartialProbe ==
  /\ pc = "probe"
  /\ IF "model" \in knows /\ ~sum.attempt /\ ~sum.removed /\ sum.preflight
     THEN MayReject("lastClose") ELSE pc' = "lastClose" /\ UNCHANGED failed
  /\ UNCHANGED <<tries, diskVars, owns, dockerVars, knows, sum, calls, exported, verdict, upload>>

LastClose ==
  /\ pc = "lastClose"
  /\ IF "model" \in knows /\ ~sum.removed
     THEN IF sum.closed THEN pc' = "lastExport" /\ UNCHANGED <<dockerVars, sum>>
          ELSE CloseModel("lastExport", "lastCapture")
     ELSE pc' = "lastCapture" /\ UNCHANGED <<dockerVars, sum>>
  /\ UNCHANGED <<failed, tries, diskVars, owns, knows, calls, exported, verdict, upload>>

LastExport ==
  /\ pc = "lastExport"
  /\ IF sum.attempt /\ sum.exports = "none" THEN CollectExports("lastRemove", "lastCapture")
     ELSE pc' = "lastRemove" /\ UNCHANGED <<file, sum, exported>>
  /\ UNCHANGED <<failed, tries, corpus, owns, dockerVars, knows, calls, verdict, upload>>

\* Mutant: unsafe exports are taken again until the container may go.
LastRemoveUntilSafe ==
  /\ pc = "lastRemove"
  /\ \/ /\ ModelRemovalSafe
        /\ RemoveContainer("model", [sum EXCEPT !.removed = TRUE], "lastCapture", "lastCapture")
     \/ /\ ~ModelRemovalSafe
        /\ pc' = "lastExport"
        /\ UNCHANGED <<box, sum>>
  /\ UNCHANGED <<failed, tries, diskVars, owns, agent, knows, calls, exported, verdict, upload>>

LastRemove ==
  /\ pc = "lastRemove"
  /\ \/ /\ ModelRemovalSafe
        /\ RemoveContainer("model", [sum EXCEPT !.removed = TRUE], "lastCapture", "lastCapture")
     \/ /\ ~ModelRemovalSafe
        /\ pc' = "lastCapture"
        /\ UNCHANGED <<box, sum>>
  /\ UNCHANGED <<failed, tries, diskVars, owns, agent, knows, calls, exported, verdict, upload>>

\* Whatever was captured is exported before the capture container goes.
LastCapture ==
  /\ pc = "lastCapture"
  /\ IF "capture" \in knows /\ ~sum.captureRemoved
     THEN IF file["captured"] = "absent"
          THEN file' \in {file, Torn("captured")} /\ MayReject("lastCaptureRemove")
          ELSE pc' = "lastCaptureRemove" /\ UNCHANGED <<file, failed>>
     ELSE pc' = "lastReceipt" /\ UNCHANGED <<file, failed>>
  /\ UNCHANGED <<tries, corpus, owns, dockerVars, knows, sum, calls, exported, verdict, upload>>

LastRemoveCapture ==
  /\ pc = "lastCaptureRemove"
  /\ RemoveContainer("capture", [sum EXCEPT !.captureRemoved = TRUE], "lastReceipt", "lastReceipt")
  /\ UNCHANGED <<failed, tries, diskVars, owns, agent, knows, calls, exported, verdict, upload>>

LastReceipt ==
  /\ pc = "lastReceipt"
  /\ IF sum.process # "none" /\ file["processReceipt"] = "absent"
     THEN Write("processReceipt", "unlock", "audit") /\ failed' = (failed \/ pc' = "audit")
     ELSE MayReject("unlock") /\ UNCHANGED file
  /\ UNCHANGED <<tries, corpus, owns, dockerVars, knows, sum, calls, exported, verdict, upload>>

\* Mutant: the lock is given back by whoever took it.
UnlockAnyway ==
  /\ pc = "unlock"
  /\ file' = IF owns THEN [file EXCEPT !["lock"] = "absent"] ELSE file
  /\ pc' = "summary"
  /\ UNCHANGED <<failed, tries, corpus, owns, dockerVars, knows, sum, calls, exported, verdict, upload>>

\* The lock is given back when every container that is known of was removed.
Unlock ==
  /\ pc = "unlock"
  /\ IF /\ owns
        /\ "model" \in knows => sum.removed
        /\ "capture" \in knows => sum.captureRemoved
     THEN \/ /\ file' = [file EXCEPT !["lock"] = "absent"]
             /\ pc' = "summary" /\ UNCHANGED failed
          \/ Rejected /\ UNCHANGED file
     ELSE pc' = "summary" /\ UNCHANGED <<file, failed>>
  /\ UNCHANGED <<tries, corpus, owns, dockerVars, knows, sum, calls, exported, verdict, upload>>

WriteSummary ==
  /\ pc = "summary"
  /\ Write("summary", "settle", "audit")
  /\ failed' = (failed \/ pc' = "audit")
  /\ UNCHANGED <<tries, corpus, owns, dockerVars, knows, sum, calls, exported, verdict, upload>>

------------------------------------------------------------------------------
(* generate: generate() of the controller, after generateNodeBundleTask *)

GenerationComplete ==
  /\ sum.completed /\ sum.closed /\ sum.removed /\ sum.captureRemoved
  /\ sum.process = "ok" /\ sum.evidence \in {"failed", "completed"}

Settle ==
  /\ pc = "settle"
  /\ IF GenerationComplete THEN pc' = "audit" /\ UNCHANGED <<file, failed>>
     ELSE Write("disposition", "audit", "audit") /\ failed' = TRUE
  /\ UNCHANGED <<tries, corpus, owns, dockerVars, knows, sum, calls, exported, verdict, upload>>

\* The credential audit admits the evidence, or generate fails; its own failure comes after.
AuditEvidence ==
  /\ pc = "audit"
  /\ \/ /\ Write("audit", IF failed THEN "publish" ELSE "evaluate", "publish")
        /\ failed' = (failed \/ pc' = "publish")
     \/ /\ pc' = "publish" /\ failed' = TRUE
        /\ UNCHANGED file
  /\ UNCHANGED <<tries, corpus, owns, dockerVars, knows, sum, calls, exported, verdict, upload>>

------------------------------------------------------------------------------
(* evaluate *)

EvaluationFiles == {"evaluationClaim", "record", "closure", "disposition"}

\* Nothing of an evaluation may be on file, the audited summary must agree with the
\* prediction file, and without a prediction there is nothing to evaluate.
EvaluateRefuses ==
  /\ pc = "evaluate"
  /\ GiveUp
  /\ UNCHANGED <<tries, diskVars, owns, dockerVars, knows, sum, calls, exported, verdict, upload>>

EvaluateAdmits ==
  /\ pc = "evaluate"
  /\ \A f \in EvaluationFiles : file[f] = "absent"
  /\ file["audit"] = "whole" /\ file["manifest"] = "whole" /\ file["summary"] = "whole"
  /\ sum.prediction = (file["prediction"] # "absent")
  /\ IF sum.prediction
     THEN /\ sum.completed /\ PredictionEligible
          /\ file["processReceipt"] = "whole" /\ file["exports"] = "whole"
          /\ file["modelClaim"] = "whole" /\ file["captured"] = "whole"
          /\ Write("lock", "evaluationClaim", "publish")
          /\ failed' = (pc' = "publish")
     ELSE /\ Write("disposition", "publish", "publish")
          /\ failed' = (file'["disposition"] # "whole")
  /\ UNCHANGED <<tries, corpus, owns, dockerVars, knows, sum, calls, exported, verdict, upload>>

\* Claim, image manifest, grant and output directory, all under the lock.
ClaimEvaluation ==
  /\ pc = "evaluationClaim"
  /\ \/ /\ Write("evaluationClaim", "evaluator", "closure")
        /\ calls' = [calls EXCEPT !.evaluator = IF pc' = "evaluator" THEN 1 ELSE @]
     \/ /\ file' = [file EXCEPT !["evaluationClaim"] = "whole"]
        /\ pc' = "closure"
        /\ UNCHANGED calls
  /\ failed' = (pc' = "closure")
  /\ UNCHANGED <<tries, corpus, owns, dockerVars, knows, sum, exported, verdict, upload>>

EvaluatorStarts ==
  /\ pc = "evaluator" /\ box["eval"] = "none"
  /\ box' = [box EXCEPT !["eval"] = "running"]
  /\ UNCHANGED <<pc, failed, tries, diskVars, owns, agent, knows, sum, calls, exported, verdict, upload>>

\* evaluateFrozenPrediction: the harness removes its container and, after a timeout or an
\* error, so does the adapter, both as best they can.  A throw becomes a record that is
\* inconclusive, unless the note of the error cannot be written.
EvaluatorReturns ==
  /\ pc = "evaluator"
  /\ \E left \in IF box["eval"] = "none" THEN {"none"} ELSE {box["eval"], "stopped", "gone"} :
       box' = [box EXCEPT !["eval"] = left]
  /\ \/ /\ verdict' \in IF box["eval"] = "none" THEN {"inconclusive"}
                        ELSE {"conclusive", "inconclusive"}
        /\ pc' = "record" /\ UNCHANGED failed
     \/ /\ pc' = "closure" /\ failed' = TRUE
        /\ UNCHANGED verdict
  /\ UNCHANGED <<tries, diskVars, owns, agent, knows, sum, calls, exported, upload>>

WriteRecord ==
  /\ pc = "record"
  /\ Write("record", "closure", "closure")
  /\ failed' = (file'["record"] # "whole")
  /\ UNCHANGED <<tries, corpus, owns, dockerVars, knows, sum, calls, exported, verdict, upload>>

\* Mutant: a closure that is not proven does not fail the job.
ProveClosureQuietly ==
  /\ pc = "closure"
  /\ pc' = "publish"
  /\ \/ /\ box["eval"] # "running" /\ file["closure"] = "absent"
        /\ file' = [file EXCEPT !["closure"] = "whole", !["lock"] = "absent"]
     \/ file' \in {file, Torn("closure"), [file EXCEPT !["closure"] = "whole"]}
  /\ UNCHANGED <<failed, tries, corpus, owns, dockerVars, knows, sum, calls, exported, verdict, upload>>

\* The finally clause: the lock is given back once docker lists no running container of
\* exactly the evaluation's name, and the closure is on file.
ProveClosure ==
  /\ pc = "closure"
  /\ pc' = "publish"
  /\ \/ /\ box["eval"] # "running" /\ file["closure"] = "absent"
        /\ file' = [file EXCEPT !["closure"] = "whole", !["lock"] = "absent"]
        /\ UNCHANGED failed
     \/ /\ file' \in {file, Torn("closure"), [file EXCEPT !["closure"] = "whole"]}
        /\ failed' = TRUE
  /\ UNCHANGED <<tries, corpus, owns, dockerVars, knows, sum, calls, exported, verdict, upload>>

------------------------------------------------------------------------------
(* publish runs whatever happened before.  Nothing it cannot audit is staged, and a     *)
(* receipt of the refusal is staged as best it can.                                     *)

Publish ==
  /\ pc = "publish"
  /\ pc' = "done"
  /\ \/ upload' = "raw" /\ UNCHANGED failed
     \/ upload' \in {"none", "blocked"} /\ failed' = TRUE
  /\ UNCHANGED <<tries, diskVars, owns, dockerVars, knows, sum, calls, exported, verdict>>

------------------------------------------------------------------------------
(* What the job does not decide *)

\* The job is cancelled or meets its timeout: the containers stay as they are.
Killed ==
  /\ pc \in RunningPcs
  /\ GiveUp
  /\ UNCHANGED <<tries, diskVars, owns, dockerVars, knows, sum, calls, exported, verdict, upload>>

ContainerDies(c) ==
  /\ pc # "done" /\ box[c] = "running"
  /\ box' = [box EXCEPT ![c] = "stopped"]
  /\ agent' = (agent /\ c # "model")
  /\ UNCHANGED <<pc, failed, tries, diskVars, owns, knows, sum, calls, exported, verdict, upload>>

------------------------------------------------------------------------------
Generate ==
  \/ GenerateRejected \/ Admit \/ CreateModel \/ Ready \/ Preflight \/ Inject \/ ClaimModel
  \/ Launch \/ ModelReturns \/ Close \/ ProcessReceipt \/ Export \/ Remove \/ Inspect
  \/ CreateCapture \/ Capture \/ RemoveCapture \/ Predict

Finally ==
  \/ PartialProbe \/ LastClose \/ LastExport \/ LastRemove \/ LastCapture
  \/ LastRemoveCapture \/ LastReceipt \/ Unlock \/ WriteSummary

Evaluate ==
  \/ EvaluateRefuses \/ EvaluateAdmits \/ ClaimEvaluation \/ EvaluatorStarts
  \/ EvaluatorReturns \/ WriteRecord \/ ProveClosure

Step ==
  \/ PrepareRejected \/ PrepareAttempt \/ Generate \/ Finally \/ Settle \/ AuditEvidence
  \/ Evaluate \/ Publish

Next == Step \/ Killed \/ \E c \in Containers : ContainerDies(c)

\* Every command the job awaits is bounded by a timeout.
Spec == Init /\ [][Next]_vars /\ WF_vars(Step)

------------------------------------------------------------------------------
(* What the evidence of the attempt promises. *)

\* A prediction, and so an evaluation, comes of one model run that ended by itself, whose
\* files were taken from a container that no longer ran, and of whose containers none is
\* left (predictionEligible, and the checks of evaluateNodeBundleTask).
PredictionIsEarned ==
  (file["prediction"] = "whole" \/ calls.evaluator = 1) =>
     /\ calls.model = 1 /\ ~agent
     /\ sum.process = "ok" /\ sum.evidence = "completed" /\ sum.capture = "captured"
     /\ sum.exports = "safe" /\ exported \notin {"none", "running"}
     /\ box["model"] = "gone" /\ box["capture"] = "gone"

\* The model container of an attempt is removed only after all of its evidence was taken
\* from it, whole and when nothing ran in it any more (modelRemovalSafe).
EvidenceOutlivesModel ==
  (calls.model = 1 /\ box["model"] = "gone") =>
     sum.exports = "safe" /\ exported \notin {"none", "running"}

\* While the shared lock is free, no container the job knows of is left of the generation
\* and no evaluation is running: also when the job was killed.
LockCoversContainers ==
  file["lock"] = "absent" =>
     /\ \A c \in knows : box[c] = "gone"
     /\ box["eval"] # "running"

\* A job that succeeded has accounted for its attempt, once: an official record or the
\* disposition that there is none, the lock given back and the evidence published.
SuccessIsAccounted ==
  (pc = "done" /\ ~failed) =>
     /\ file["lock"] = "absent" /\ upload = "raw"
     /\ sum.attempt /\ file["summary"] = "whole" /\ box["model"] = "gone"
     /\ \/ file["record"] = "whole" /\ verdict # "none" /\ file["disposition"] = "absent"
        \/ file["record"] = "absent" /\ file["disposition"] = "whole" /\ ~sum.prediction

\* The job ends, through publish: no failure, retry or clean-up keeps it.
Ends == <>(pc = "done")

=============================================================================
