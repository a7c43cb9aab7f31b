----------------------------- MODULE FormalRun -----------------------------
(***************************************************************************)
(* One formal run of .github/workflows/bench.yml: a source generation job  *)
(* per batch, the recovery planner (scripts/plan-recovery.mjs), one        *)
(* recovery job per planned batch, and the admission of the whole          *)
(* population (scripts/admit-generation.mjs).                              *)
(*                                                                         *)
(* The jobs share nothing but artifacts and the jobs listing of the GitHub *)
(* API.  Artifact downloads are continue-on-error, so the planner and the  *)
(* admission each see some subset of what was uploaded.  "Re-run failed    *)
(* jobs" is an operation of the run: it starts workflow attempt 2, 3...    *)
(* and may make further model attempts; the scripts have to notice.        *)
(*                                                                         *)
(* A task receipt is reduced to what the recovery rules tell apart:        *)
(*   accepted     admitTaskReceipt has nothing against it                  *)
(*   environment  inconclusive at a stage before the model                 *)
(*   transport    an evidenced provider transport failure, or the stage    *)
(*                "cli-spawn" of a task whose model ran and whose cleanup  *)
(*                failed (Generation, RecoveryStagesPrecedeModel)          *)
(*   other        anything else                                            *)
(* A recovery receipt is "accepted" or "other".                            *)
(***************************************************************************)
EXTENDS Naturals, FiniteSets

CONSTANTS
  Batches,      \* the batches of the frozen plan
  Tasks,        \* the tasks of the frozen plan
  BatchOf,      \* the batch of each task
  GateOutcomes, \* what the gates may say
  MaxAttempts   \* bound: workflow attempts

ASSUME PlanAssumption == IsFiniteSet(Batches) /\ BatchOf \in [Tasks -> Batches]
\* The plan job and the admission refuse a plan with an empty batch.
ASSUME BatchesAssumption == \A b \in Batches : \E t \in Tasks : BatchOf[t] = b
ASSUME GateAssumption == GateOutcomes \subseteq BOOLEAN
ASSUME MaxAttemptsAssumption == MaxAttempts \in Nat \ {0}

VARIABLES
  gates,         \* the gate receipts and the jobs required once admit
  attempt,       \* github.run_attempt
  source,        \* the generation job of each batch
  fragment,      \* its uploaded report
  receipt,       \* the receipts its artifact holds
  planner,       \* the planner job
  manifest,      \* the uploaded recovery manifest
  recovery,      \* the recovery job of each batch
  recFragment,   \* its uploaded report
  recReceipt,    \* the receipts its artifact holds
  admission,     \* the admission: "none", "accepted", "refused"
  report,        \* where the accepted population took each task from
  attempts       \* history: model attempts made for each task, at most

sourceVars == <<source, fragment, receipt>>
plannerVars == <<planner, manifest>>
recoveryVars == <<recovery, recFragment, recReceipt>>
admissionVars == <<admission, report>>
vars == <<gates, attempt, sourceVars, plannerVars, recoveryVars, admissionVars, attempts>>

TasksOf(b) == {t \in Tasks : BatchOf[t] = b}

Outcomes == {"accepted", "environment", "transport", "other"}
RecoveryOutcomes == {"accepted", "other"}
Recoverable == {"environment", "transport"}
Fragments == {"missing", "good", "mismatched"}

\* executions counts the entries of this job in the jobs listing; generated: its
\* step "Generate and freeze predictions" was reached.
Job == [executions : Nat, conclusion : {"none", "success", "failure", "cancelled"},
        generated : BOOLEAN]
NotRun == [executions |-> 0, conclusion |-> "none", generated |-> FALSE]

Execute(job, how, reached) ==
  [executions |-> job.executions + 1, conclusion |-> how, generated |-> reached]

NoManifest == [tasks |-> {}, reasons |-> {<<"no-manifest">>}]

TypeOK ==
  /\ gates \in GateOutcomes
  /\ attempt \in 1..MaxAttempts
  /\ source \in [Batches -> Job] /\ recovery \in [Batches -> Job] /\ planner \in Job
  /\ fragment \in [Batches -> Fragments] /\ recFragment \in [Batches -> Fragments]
  /\ receipt \in [Tasks -> Outcomes \cup {"none"}]
  /\ recReceipt \in [Tasks -> RecoveryOutcomes \cup {"none"}]
  /\ manifest.tasks \subseteq Tasks
  /\ admission \in {"none", "accepted", "refused"}
  /\ report \in [Tasks -> {"none", "source", "recovery"}]
  /\ attempts \in [Tasks -> Nat]

Init ==
  /\ gates \in GateOutcomes
  /\ attempt = 1
  /\ source = [b \in Batches |-> NotRun] /\ recovery = [b \in Batches |-> NotRun]
  /\ planner = NotRun
  /\ fragment = [b \in Batches |-> "missing"] /\ recFragment = [b \in Batches |-> "missing"]
  /\ receipt = [t \in Tasks |-> "none"] /\ recReceipt = [t \in Tasks |-> "none"]
  /\ manifest = NoManifest
  /\ admission = "none"
  /\ report = [t \in Tasks |-> "none"]
  /\ attempts = [t \in Tasks |-> 0]

-----------------------------------------------------------------------------
(* The generation jobs.  A task counts as attempted unless its receipt or the step *)
(* of its job shows that the model was never started.                              *)

\* The receipts a harness run leaves for the tasks ts, given those of the others.
Receipts(old, ts, outcomes) ==
  {[t \in Tasks |-> IF t \in ts THEN out[t] ELSE old[t]] : out \in [ts -> outcomes]}

Attempted(ts) == [t \in Tasks |-> attempts[t] + IF t \in ts THEN 1 ELSE 0]

Waiting(job) == job.conclusion = "none"

\* An earlier step fails, or the job is cancelled, before the model could run.
SourceFailsEarly(b) ==
  /\ Waiting(source[b])
  /\ \E how \in {"failure", "cancelled"} :
       source' = [source EXCEPT ![b] = Execute(@, how, FALSE)]
  /\ UNCHANGED <<gates, attempt, fragment, receipt, plannerVars, recoveryVars, admissionVars,
                 attempts>>

\* The harness reports; a later step of the job may still fail.
SourceReports(b) ==
  /\ Waiting(source[b])
  /\ \E how \in {"success", "failure"} :
       source' = [source EXCEPT ![b] = Execute(@, how, TRUE)]
  /\ fragment' = [fragment EXCEPT ![b] = "good"]
  /\ receipt' \in Receipts(receipt, TasksOf(b), Outcomes)
  /\ attempts' = Attempted({t \in TasksOf(b) : receipt'[t] # "environment"})
  /\ UNCHANGED <<gates, attempt, plannerVars, recoveryVars, admissionVars>>

\* Model attempts were made and there is no usable report of them: the harness
\* aborted, the runner was lost, the upload failed, or the report is of another
\* configuration.
SourceLost(b) ==
  /\ Waiting(source[b])
  /\ \/ /\ \E how \in {"failure", "cancelled"} :
               source' = [source EXCEPT ![b] = Execute(@, how, TRUE)]
        /\ UNCHANGED fragment
     \/ /\ source' = [source EXCEPT ![b] = Execute(@, "success", TRUE)]
        /\ fragment' = [fragment EXCEPT ![b] = "mismatched"]
  /\ attempts' = Attempted(TasksOf(b))
  /\ UNCHANGED <<gates, attempt, receipt, plannerVars, recoveryVars, admissionVars>>

-----------------------------------------------------------------------------
(* What inspectFormalGeneration says of the fragments it sees. *)

\* Artifacts available for download: every uploaded report.
Uploaded(f) == {b \in Batches : f[b] # "missing"}

Readable(seen) == {b \in seen : fragment[b] = "good"}

\* Every generation job once, with success, except those in "excused", which may
\* have failed; every required job once.
JobsAdmit(excused) ==
  /\ gates
  /\ \A b \in Batches :
       /\ source[b].executions = 1
       /\ \/ source[b].conclusion = "success"
          \/ source[b].conclusion = "failure" /\ b \in excused

Reasons(seen) ==
  {<<"fragment", b>> : b \in Batches \ seen}
  \cup {<<"fragments", Cardinality(seen)>> : x \in {y \in {1} : seen # Batches}}
  \cup {<<"configuration", b>> : b \in seen \ Readable(seen)}
  \cup {<<"task", t, receipt[t]>> :
          t \in {u \in Tasks : BatchOf[u] \in Readable(seen) /\ receipt[u] # "accepted"}}
  \cup {<<"population">> : x \in {y \in {1} : Readable(seen) # Batches}}
  \cup {<<"gate">> : x \in {y \in {1} : ~gates}}
  \cup {<<"ci-jobs", {b \in Batches : source[b].conclusion # "success"}>> :
          x \in {y \in {1} : ~JobsAdmit({})}}

\* classifyMissingShardRecovery.
MissingBeforeModel(b) == source[b].conclusion = "failure" /\ ~source[b].generated

\* Mutant: the planner lists batches where it should list tasks.
EligibleBatches(seen) ==
  {BatchOf[t] : t \in {u \in Tasks : BatchOf[u] \in Readable(seen) /\ receipt[u] \in Recoverable}}

\* classifyTaskRecovery over the reasons of the inspection, and the tasks of the
\* batches whose fragment is missing.
Eligible(seen) ==
  {t \in Tasks :
     \/ BatchOf[t] \in Readable(seen) /\ receipt[t] \in Recoverable
     \/ BatchOf[t] \notin seen /\ MissingBeforeModel(BatchOf[t])}

\* buildFormalRecovery throws unless the planner and every generation job have one
\* attempt-1 execution; without any fragment there is no formal run id to compare.
OneExecutionEach(seen) ==
  /\ seen # {}
  /\ planner'.executions = 1
  /\ \A b \in Batches : source[b].executions = 1

RecoveryPlan(seen) == [tasks |-> Eligible(seen), reasons |-> Reasons(seen)]

RecoveryBatches == {BatchOf[t] : t \in manifest.tasks}

-----------------------------------------------------------------------------
(* The planner and the recovery jobs. *)

SourcesDone == \A b \in Batches : ~Waiting(source[b])

PlannerRuns(seen) ==
  /\ SourcesDone /\ Waiting(planner)
  /\ seen \subseteq Uploaded(fragment)
  /\ planner' = Execute(planner, "success", FALSE)
  /\ OneExecutionEach(seen)
  /\ \A b \in Batches : recovery[b].executions = 0
  /\ manifest' = RecoveryPlan(seen)
  /\ UNCHANGED <<gates, attempt, sourceVars, recoveryVars, admissionVars, attempts>>

\* It throws, or a step before it fails; an earlier manifest stays.
PlannerFails ==
  /\ SourcesDone /\ Waiting(planner)
  /\ planner' = Execute(planner, "failure", FALSE)
  /\ UNCHANGED <<gates, attempt, manifest, sourceVars, recoveryVars, admissionVars, attempts>>

RecoveryWaits(b) ==
  planner.conclusion = "success" /\ b \in RecoveryBatches /\ Waiting(recovery[b])

\* Nothing usable is uploaded; the tasks may have been attempted.
RecoveryLost(b) ==
  /\ RecoveryWaits(b)
  /\ \/ /\ \E reached \in BOOLEAN :
              /\ recovery' = [recovery EXCEPT ![b] = Execute(@, "failure", reached)]
              /\ attempts' = IF reached THEN Attempted(TasksOf(b) \cap manifest.tasks)
                                        ELSE attempts
        /\ UNCHANGED recFragment
     \/ /\ recovery' = [recovery EXCEPT ![b] = Execute(@, "success", TRUE)]
        /\ recFragment' = [recFragment EXCEPT ![b] = "mismatched"]
        /\ attempts' = Attempted(TasksOf(b) \cap manifest.tasks)
  /\ UNCHANGED <<gates, attempt, sourceVars, plannerVars, recReceipt, admissionVars>>

RecoveryReports(b) ==
  LET ts == TasksOf(b) \cap manifest.tasks IN
  /\ RecoveryWaits(b)
  /\ \E how \in {"success", "failure"} :
       recovery' = [recovery EXCEPT ![b] = Execute(@, how, TRUE)]
  /\ recFragment' = [recFragment EXCEPT ![b] = "good"]
  /\ recReceipt' \in Receipts(recReceipt, ts, RecoveryOutcomes)
  /\ attempts' = Attempted(ts)
  /\ UNCHANGED <<gates, attempt, sourceVars, plannerVars, admissionVars>>

-----------------------------------------------------------------------------
(* The admission. *)

NeedsDone ==
  /\ SourcesDone /\ ~Waiting(planner)
  /\ \A b \in Batches : ~RecoveryWaits(b)

\* Mutant: a recovered task is whatever the recovery report holds.
RecoveredUnchecked(seenRec) ==
  {t \in manifest.tasks : BatchOf[t] \in seenRec /\ recFragment[BatchOf[t]] = "good"}

\* Tasks with an accepted receipt in a recovery fragment of the manifest's shape.
Recovered(seenRec) ==
  {t \in manifest.tasks :
     BatchOf[t] \in seenRec /\ recFragment[BatchOf[t]] = "good" /\ recReceipt[t] = "accepted"}

\* The batches all of whose tasks are recovered.
RecoveredShards(done) == {b \in Batches : TasksOf(b) \subseteq done}

\* Mutant: the reason that counts the fragments is never cleared.
ClearedButCount(r, seen, done) ==
  CASE r[1] = "task"       -> r[2] \in done
    [] r[1] = "fragment"   -> r[2] \in RecoveredShards(done)
    [] r[1] = "population" -> \A t \in Tasks : t \in done \/ BatchOf[t] \in Readable(seen)
    [] r[1] = "ci-jobs"    -> TRUE
    [] OTHER               -> FALSE

\* The reasons of the source inspection that recovery answers.
Cleared(r, seen, done) ==
  CASE r[1] = "task"       -> r[2] \in done
    [] r[1] = "fragment"   -> r[2] \in RecoveredShards(done)
    [] r[1] = "fragments"  -> (Batches \ seen) \subseteq RecoveredShards(done)
    [] r[1] = "population" -> \A t \in Tasks : t \in done \/ BatchOf[t] \in Readable(seen)
    [] r[1] = "ci-jobs"    -> TRUE
    [] OTHER               -> FALSE

\* Mutant: the recovery jobs may be any attempt.
RecoveryJobsAdmitLax ==
  \A b \in RecoveryBatches : recovery[b].conclusion = "success"

\* One successful attempt-1 execution of the planner and of each recovery job.
RecoveryJobsAdmit ==
  /\ planner.executions = 1 /\ planner.conclusion = "success"
  /\ \A b \in RecoveryBatches :
       recovery[b].executions = 1 /\ recovery[b].conclusion = "success"

\* Mutant: the manifest is taken as it is.
ManifestTrusted(seen) == TRUE

\* The manifest is what the planner would make of the evidence seen now.
ManifestReproduces(seen) == manifest = RecoveryPlan(seen)

\* The admitted population is the frozen plan's and nothing is left against it.
Accepts(seen, seenRec) ==
  LET done == Recovered(seenRec) IN
  /\ OneExecutionEach(seen)
  /\ ManifestReproduces(seen)
  /\ \A r \in Reasons(seen) : Cleared(r, seen, done)
  /\ JobsAdmit({b \in RecoveryBatches : TasksOf(b) \subseteq manifest.tasks})
  /\ RecoveryJobsAdmit
  /\ manifest.tasks = done

\* recovered.get(id) ?? sourceTasks.get(id).
Report(done) == [t \in Tasks |-> IF t \in done THEN "recovery" ELSE "source"]

Admit(seen, seenRec) ==
  /\ NeedsDone /\ admission = "none"
  /\ seen \subseteq Uploaded(fragment) /\ seenRec \subseteq Uploaded(recFragment)
  /\ UNCHANGED planner
  /\ IF Accepts(seen, seenRec)
     THEN admission' = "accepted" /\ report' = Report(Recovered(seenRec))
     ELSE admission' = "refused" /\ UNCHANGED report
  /\ UNCHANGED <<gates, attempt, sourceVars, manifest, recoveryVars, attempts>>

-----------------------------------------------------------------------------
(* "Re-run failed jobs": failed and cancelled jobs and all that need them run again; *)
(* the listing may carry a copy of the jobs that do not.                            *)

Again(job, rerun, carried) ==
  IF rerun THEN [job EXCEPT !.conclusion = "none", !.generated = FALSE]
  ELSE IF carried /\ ~Waiting(job) THEN [job EXCEPT !.executions = @ + 1]
  ELSE job

Failed(job) == job.conclusion \in {"failure", "cancelled"}

ReRunFailedJobs ==
  LET sourceFailed == \E b \in Batches : Failed(source[b])
      planAgain == sourceFailed \/ Failed(planner)
  IN
  /\ admission # "none" /\ attempt < MaxAttempts
  /\ admission = "refused" \/ sourceFailed \/ \E b \in Batches : Failed(recovery[b])
  /\ attempt' = attempt + 1
  /\ \E carried \in BOOLEAN :
       /\ source' = [b \in Batches |-> Again(source[b], Failed(source[b]), carried)]
       /\ planner' = Again(planner, planAgain, carried)
       /\ recovery' =
            [b \in Batches |-> Again(recovery[b], planAgain \/ Failed(recovery[b]), carried)]
  /\ admission' = "none"
  /\ report' = [t \in Tasks |-> "none"]
  /\ UNCHANGED <<gates, fragment, receipt, manifest, recFragment, recReceipt, attempts>>

-----------------------------------------------------------------------------
GenerationJobs ==
  \E b \in Batches : SourceFailsEarly(b) \/ SourceReports(b) \/ SourceLost(b)

RecoveryJobs == \E b \in Batches : RecoveryLost(b) \/ RecoveryReports(b)

Next ==
  \/ GenerationJobs
  \/ \E seen \in SUBSET Batches : PlannerRuns(seen)
  \/ PlannerFails
  \/ RecoveryJobs
  \/ \E seen, seenRec \in SUBSET Batches : Admit(seen, seenRec)
  \/ ReRunFailedJobs

Spec == Init /\ [][Next]_vars

-----------------------------------------------------------------------------
(* Properties. *)

Accepted == admission = "accepted"

\* An accepted population holds one record per planned task, and every record is one
\* the receipt rules accept; nothing is missing, doubled or inconclusive.
AcceptedIsExact ==
  Accepted =>
    \A t \in Tasks :
      \/ report[t] = "source" /\ fragment[BatchOf[t]] = "good" /\ receipt[t] = "accepted"
      \/ report[t] = "recovery" /\ recFragment[BatchOf[t]] = "good" /\ recReceipt[t] = "accepted"

\* In an accepted population every task had one model attempt, or two of which the
\* first closed with a recoverable "transport" receipt: no re-run, lost report or
\* second plan slips in a further attempt.
AcceptedAttempts ==
  Accepted =>
    \A t \in Tasks :
      attempts[t] <= IF receipt[t] = "transport" THEN 2 ELSE 1

\* An accepted population takes a task from recovery only if the plan named it and its
\* source attempt was not accepted, and that plan was frozen in sight of every report
\* the source jobs uploaded, however the downloads went.
AcceptedKeepsSource ==
  Accepted =>
    /\ \A t \in Tasks :
         report[t] = "recovery" => t \in manifest.tasks /\ receipt[t] # "accepted"
    /\ \A b \in Uploaded(fragment) : <<"fragment", b>> \notin manifest.reasons

\* A first attempt whose only gaps were eligible and were all recovered is accepted
\* once the admission sees everything: no leftover reason of the source inspection
\* keeps it out (the filter of applyFormalRecovery).
Complete ==
  /\ attempt = 1 /\ gates /\ NeedsDone
  /\ planner.conclusion = "success"
  /\ Uploaded(fragment) = Readable(Uploaded(fragment))
  /\ manifest = RecoveryPlan(Uploaded(fragment))
  /\ \A t \in Tasks : receipt[t] = "accepted" \/ t \in manifest.tasks
  /\ \A t \in manifest.tasks : recReceipt[t] = "accepted"
  /\ \A b \in RecoveryBatches : recovery[b].conclusion = "success" /\ recFragment[b] = "good"
  /\ \A b \in Batches :
       \/ source[b].conclusion = "success"
       \/ source[b].conclusion = "failure" /\ TasksOf(b) \subseteq manifest.tasks

GapsCloseOnce ==
  [][Complete /\ Admit(Uploaded(fragment), Uploaded(recFragment)) => Accepted']_vars

=============================================================================
