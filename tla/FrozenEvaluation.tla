-------------------------- MODULE FrozenEvaluation ---------------------------
(***************************************************************************)
(* scripts/swe-bench-official-evaluator.mjs: the acquisition of the        *)
(* dataset, the freezing of the images of a batch, and the evaluations of  *)
(* its predictions, which run concurrently in one process and share one    *)
(* Docker daemon.  OfficialBatch and NodeTask have an evaluation as one    *)
(* step; here it is every command it awaits.                               *)
(*                                                                         *)
(* External: Docker and the SWE-bench harness run by the evaluation.  What *)
(* is assumed of the harness is that it works in a container named after   *)
(* instance and run, that it does not grade an instance whose container    *)
(* disappeared before the tests ended (it must still talk to it then), and *)
(* that a report it writes says what the tests said.                       *)
(*                                                                         *)
(* Names are sequences of characters.                                      *)
(***************************************************************************)
EXTENDS Naturals, SequencesExt, OfficialRecords

CONSTANTS
  NPredictions,   \* the predictions of the batch, in the order of their instances
  BatchId,        \* evaluationBatchId
  InstanceId,     \* their instance ids, a sequence
  RunIdLength,    \* 80: characters of a run id
  PullAttempts    \* OFFICIAL_IMAGE_PULL_RETRY_ATTEMPTS

VARIABLES
  dataset,     \* the dataset file and its manifest
  freeze,      \* freezeOfficialImageManifest
  stage,       \* what evaluateFrozenPrediction awaits, per prediction
  harness,     \* the process of the evaluation
  timedOut,    \* the timer of runBoundedCommand fired on it
  container,   \* the container of the evaluation
  listed,      \* what "docker ps" printed for its clean-up
  runReport,   \* the aggregate report of the harness
  reason,      \* the reason of the official record
  tests,       \* history: what the tests said while the harness listened
  disturbed    \* history: evaluations that lost their container in mid-test

vars == <<dataset, freeze, stage, harness, timedOut, container, listed, runReport,
          reason, tests, disturbed>>

Predictions == 1..NPredictions

Stages ==
  {"idle", "preflight", "resolve", "manifest", "pull", "inspect", "alias", "evaluate",
   "running", "ps", "rm", "recorded", "thrown"}

\* A report names one instance: whether it is well formed, whether the instance is the one
\* submitted, and the lists that have it.
RunReports ==
  [file : {"report"}, wellFormed : BOOLEAN, submitted : BOOLEAN,
   lists : SUBSET {"completed", "resolved", "unresolved", "error"}]
Missing == [file |-> "missing"]

Init ==
  /\ dataset = "none"
  /\ freeze = [state |-> "idle", at |-> 1, pulls |-> 0]
  /\ stage = [p \in Predictions |-> "idle"]
  /\ harness = [p \in Predictions |-> "none"]
  /\ timedOut = [p \in Predictions |-> FALSE]
  /\ container = [p \in Predictions |-> "none"]
  /\ listed = [p \in Predictions |-> {}]
  /\ runReport = [p \in Predictions |-> Missing]
  /\ reason = [p \in Predictions |-> "none"]
  /\ tests = [p \in Predictions |-> "silent"]
  /\ disturbed = {}

-----------------------------------------------------------------------------
(* Names. *)

\* The characters sanitize keeps.
SafeCharacters == {"a", "b", "c", "-", "_", "."}
Sanitize(s) == [i \in DOMAIN s |-> IF s[i] \in SafeCharacters THEN s[i] ELSE "-"]

OfficialRunIdFor(p) ==
  LET name == Sanitize(BatchId \o <<"-">> \o InstanceId[p]) IN
  SubSeq(name, 1, IF Len(name) < RunIdLength THEN Len(name) ELSE RunIdLength)

\* The name the harness gives its container.
ContainerName(p) == InstanceId[p] \o <<".">> \o OfficialRunIdFor(p)

\* docker ps --filter name=...
NameFilter(filter, p) == filter \in SubSeqs(ContainerName(p))

-----------------------------------------------------------------------------
(* acquireOfficialDataset and freezeOfficialImageManifest. *)

evaluationVars ==
  <<stage, harness, timedOut, container, listed, runReport, reason, tests, disturbed>>

\* It refuses to begin over either file.
BeginAcquisition ==
  /\ dataset = "none" /\ dataset' = "downloading"
  /\ UNCHANGED <<freeze, evaluationVars>>

\* The download ends; without a valid file the temporary one is removed.
DatasetDownloaded ==
  /\ dataset = "downloading" /\ dataset' \in {"none", "renamed"}
  /\ UNCHANGED <<freeze, evaluationVars>>

\* A process that dies before this leaves a dataset that can be neither used nor acquired
\* again.
WriteDatasetManifest ==
  /\ dataset = "renamed" /\ dataset' = "declared"
  /\ UNCHANGED <<freeze, evaluationVars>>

Frozen(state, at, pulls) ==
  /\ freeze' = [state |-> state, at |-> at, pulls |-> pulls]
  /\ UNCHANGED <<dataset, evaluationVars>>

\* The checks that precede the pulls.
BeginFreeze ==
  /\ dataset = "declared" /\ freeze.state = "idle"
  /\ Frozen("pull", 1, 0)

\* docker pull of the image of the instance at "at", again after a delay if it fails.
PullTag ==
  /\ freeze.state = "pull"
  /\ \/ Frozen("inspect", freeze.at, freeze.pulls)
     \/ IF freeze.pulls + 1 < PullAttempts THEN Frozen("pull", freeze.at, freeze.pulls + 1)
                                           ELSE Frozen("failed", freeze.at, freeze.pulls)

\* Exactly one digest of the repository; after the last image the manifest is written.
FreezeDigest ==
  /\ freeze.state = "inspect"
  /\ IF freeze.at < NPredictions THEN Frozen("pull", freeze.at + 1, 0)
                                 ELSE Frozen("written", freeze.at, 0)

\* Every other exception of it.
FreezeThrows == freeze.state \in {"pull", "inspect"} /\ Frozen("failed", freeze.at, 0)

-----------------------------------------------------------------------------
(* evaluateFrozenPrediction, up to the evaluation. *)

Await(p, place) ==
  /\ stage' = [stage EXCEPT ![p] = place]
  /\ UNCHANGED <<dataset, freeze, harness, timedOut, container, listed, runReport, reason,
                 tests, disturbed>>

\* officialRecord with the reason why.
Conclude(p, why) ==
  /\ stage' = [stage EXCEPT ![p] = "recorded"] /\ reason' = [reason EXCEPT ![p] = why]
  /\ UNCHANGED <<dataset, freeze, harness, timedOut, container, listed, runReport, tests,
                 disturbed>>

\* The prediction comes by path, or by value, which the function may refuse (OfficialBatch).
\* Whatever the file system refuses, here and below, throws and is not caught.
Begin(p) ==
  /\ stage[p] = "idle" /\ freeze.state \in {"written", "failed"}
  /\ \/ Conclude(p, "invalid-prediction")
     \/ Conclude(p, "config-mismatch")
     \/ Await(p, "preflight") \/ Await(p, "thrown")

\* The evaluator's checkout: commit, cleanliness, version.  Then, in the same turn, the
\* dataset: bytes, digest, instances, this one among them.
PreflightEvaluator(p) ==
  /\ stage[p] = "preflight"
  /\ Await(p, "resolve") \/ Conclude(p, "config-mismatch") \/ Await(p, "thrown")

ResolveOfficialImageRef(p) ==
  /\ stage[p] = "resolve"
  /\ Await(p, "manifest") \/ Conclude(p, "config-mismatch")

\* loadImageManifest, of the path if the freeze left one, and the entry of the instance.
LoadImageManifest(p) ==
  /\ stage[p] = "manifest"
  /\ \/ freeze.state = "written" /\ (Await(p, "pull") \/ Await(p, "thrown"))
     \/ Conclude(p, "digest-mismatch")

\* writeProcessReceipt, and then by what became of the pull.
PullPinned(p) ==
  /\ stage[p] = "pull"
  /\ Await(p, "inspect") \/ Conclude(p, "evaluator-error") \/ Await(p, "thrown")

InspectPinned(p) ==
  /\ stage[p] = "inspect"
  /\ Await(p, "alias") \/ Conclude(p, "digest-mismatch")

\* The alias: its name, docker tag, and the two ids.
AliasPinned(p) ==
  /\ stage[p] = "alias"
  /\ \/ Await(p, "evaluate")
     \/ \E why \in {"config-mismatch", "digest-mismatch"} : Conclude(p, why)

-----------------------------------------------------------------------------
(* The evaluation and its clean-up. *)

\* prediction.jsonl is written and the harness started.
RunEvaluation(p) ==
  /\ stage[p] = "evaluate"
  /\ \/ Await(p, "thrown")
     \/ /\ stage' = [stage EXCEPT ![p] = "running"]
        /\ harness' = [harness EXCEPT ![p] = "running"]
        /\ UNCHANGED <<dataset, freeze, timedOut, container, listed, runReport, reason, tests,
                       disturbed>>

\* The harness starts its container, and the tests in it end while it listens.
HarnessTests(p) ==
  /\ harness[p] = "running"
  /\ \/ /\ container[p] = "none" /\ container' = [container EXCEPT ![p] = "testing"]
        /\ UNCHANGED tests
     \/ /\ container[p] = "testing" /\ container' = [container EXCEPT ![p] = "tested"]
        /\ \E said \in {"pass", "fail"} : tests' = [tests EXCEPT ![p] = said]
  /\ UNCHANGED <<dataset, freeze, stage, harness, timedOut, listed, runReport, reason,
                 disturbed>>

\* What a harness whose tests said so may write.
Lists(said) ==
  {{}, {"error"}} \cup (CASE said = "pass"   -> {{"completed", "resolved"}}
                          [] said = "fail"   -> {{"completed", "unresolved"}}
                          [] said = "silent" -> {})

\* It ends with status 0 and removes its container, or fails and may leave it.
HarnessExits(p) ==
  /\ harness[p] = "running"
  /\ \/ /\ harness' = [harness EXCEPT ![p] = "exited"]
        /\ container' = [container EXCEPT ![p] = "removed"]
        /\ \E report \in RunReports \cup {Missing} :
             /\ report # Missing => report.lists \in Lists(tests[p])
             /\ runReport' = [runReport EXCEPT ![p] = report]
     \/ /\ harness' = [harness EXCEPT ![p] = "failed"]
        /\ UNCHANGED <<container, runReport>>
  /\ UNCHANGED <<dataset, freeze, stage, timedOut, listed, reason, tests, disturbed>>

\* The timer of runBoundedCommand, which may also fire after the exit and before "close".
TimerFires(p) ==
  /\ stage[p] = "running" /\ ~timedOut[p]
  /\ timedOut' = [timedOut EXCEPT ![p] = TRUE]
  /\ harness' = [harness EXCEPT ![p] = IF @ = "running" THEN "killed" ELSE @]
  /\ UNCHANGED <<dataset, freeze, stage, container, listed, runReport, reason, tests,
                 disturbed>>

\* Mutant: an instance that is not listed as resolved has failed its tests.
ResolvedOrFailed(report) ==
  IF ~report.wellFormed THEN "report-malformed"
  ELSE IF ~report.submitted THEN "report-mismatch"
  ELSE IF "resolved" \in report.lists THEN "official-resolved" ELSE "official-unresolved"

ProjectOfficialRunReport(report) ==
  CASE ~report.wellFormed                             -> "report-malformed"
    [] report.wellFormed /\ ~report.submitted         -> "report-mismatch"
    [] report.wellFormed /\ report.submitted ->
         CASE "error" \in report.lists                  -> "evaluator-error"
           [] report.lists = {"completed", "resolved"}   -> "official-resolved"
           [] report.lists = {"completed", "unresolved"} -> "official-unresolved"
           [] OTHER                                      -> "report-mismatch"

\* "close": the process receipt, and then by what became of the process.
Closes(p) ==
  /\ stage[p] = "running" /\ harness[p] # "running"
  /\ \/ Await(p, "thrown")
     \/ /\ timedOut[p] \/ harness[p] = "failed"
        /\ Await(p, "ps")
     \/ /\ ~timedOut[p] /\ harness[p] = "exited"
        /\ Conclude(p, IF runReport[p] = Missing THEN "report-missing"
                       ELSE ProjectOfficialRunReport(runReport[p]))

CleanedUp(p) == Conclude(p, IF timedOut[p] THEN "evaluator-timeout" ELSE "evaluator-error")

\* docker ps -aq --filter name=<run id>, of all evaluations.
ListContainers(p) ==
  LET found == {q \in Predictions : /\ container[q] \in {"testing", "tested"}
                                    /\ NameFilter(OfficialRunIdFor(p), q)} IN
  /\ stage[p] = "ps"
  /\ \/ CleanedUp(p)
     \/ /\ found # {}
        /\ stage' = [stage EXCEPT ![p] = "rm"] /\ listed' = [listed EXCEPT ![p] = found]
        /\ UNCHANGED <<dataset, freeze, harness, timedOut, container, runReport, reason,
                       tests, disturbed>>

\* docker rm -f removes some of them, and the evaluation ends, whatever it returns.
RemoveContainers(p) ==
  /\ stage[p] = "rm"
  /\ \E gone \in SUBSET listed[p] :
       /\ container' = [q \in Predictions |-> IF q \in gone THEN "removed" ELSE container[q]]
       /\ disturbed' = disturbed \cup {q \in gone : container[q] = "testing"}
  /\ stage' = [stage EXCEPT ![p] = "recorded"]
  /\ reason' = [reason EXCEPT ![p] = IF timedOut[p] THEN "evaluator-timeout"
                                                   ELSE "evaluator-error"]
  /\ UNCHANGED <<dataset, freeze, harness, timedOut, listed, runReport, tests>>

-----------------------------------------------------------------------------
Evaluate(p) ==
  \/ Begin(p) \/ PreflightEvaluator(p) \/ ResolveOfficialImageRef(p) \/ LoadImageManifest(p)
  \/ PullPinned(p) \/ InspectPinned(p) \/ AliasPinned(p) \/ RunEvaluation(p)
  \/ HarnessTests(p) \/ HarnessExits(p) \/ TimerFires(p) \/ Closes(p)
  \/ ListContainers(p) \/ RemoveContainers(p)

Next ==
  \/ BeginAcquisition \/ DatasetDownloaded \/ WriteDatasetManifest
  \/ BeginFreeze \/ PullTag \/ FreezeDigest \/ FreezeThrows
  \/ \E p \in Predictions : Evaluate(p)

Spec == Init /\ [][Next]_vars

Conclusive == {"official-resolved", "official-unresolved"}

\* A conclusive record is of tests that ended in a container nobody took away and of a
\* harness that was not killed.  The clean-up of another evaluation finds containers by a
\* part of their name, and run ids are cut, so it does take them away.
ConclusiveIsUndisturbed ==
  \A p \in Predictions : reason[p] \in Conclusive =>
    /\ p \notin disturbed /\ tests[p] # "silent"
    /\ harness[p] = "exited" /\ ~timedOut[p]

\* What the tests said and what was recorded of it, as EarnedVerdict has them.
OracleOf(p) == tests[p]
VerdictRecorded(p) ==
  CASE reason[p] = "none"                -> "none"
    [] reason[p] = "official-resolved"   -> "passed"
    [] reason[p] = "official-unresolved" -> "failed"
    [] OTHER                             -> "open"

=============================================================================
