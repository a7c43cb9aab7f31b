------------------------------ MODULE NodeRuns ------------------------------
(***************************************************************************)
(* The runs of the Node bundle, over all dispatches.  The first task has a *)
(* workflow of its own ("one"), whose interrupted attempt is finished by   *)
(* another one ("recovery"); each batch of the other tasks has one too,    *)
(* "batch" for the first batch (one job per task, each needing the one     *)
(* before).  Batches may share tasks, as the second, third and fourth do.  *)
(* A job is NodeTask; here it is what the other runs can see of it: the    *)
(* step it stopped at, and, as history, whether it called the model, froze *)
(* a prediction, uploaded its evidence and recorded a verdict.             *)
(*                                                                         *)
(* A run knows of the others of its workflow only what GitHub lists when   *)
(* one of its jobs prepares and what the commit it was dispatched at       *)
(* declares of them; of the runs of other batches it knows nothing.        *)
(* The owner writes the declarations after the fact, and truthfully; what  *)
(* they dispatch, cancel and re-run, and when, is free.                    *)
(***************************************************************************)
EXTENDS Naturals, Sequences, FiniteSets

CONSTANTS
  NTasks,           \* tasks after the first one, numbered in the order of the selection
  Batch,            \* batch workflows, a function of the workflow: its tasks, from .. to
  MaxRuns,          \* bound: dispatches of each workflow, a function of the workflow
  MaxRequests       \* bound: dispatches and re-runs of all workflows together

First == 0            \* the task of the single-task workflow, in no batch
Tasks == 1..NTasks
NoRun == 0

Batches == DOMAIN Batch
Flows == {"one", "recovery"} \cup Batches

ASSUME RunsAssumption ==
  /\ NTasks \in Nat \ {0}
  /\ "batch" \in Batches /\ {"one", "recovery"} \cap Batches = {}
  /\ Batch \in [Batches -> {b \in [from : Tasks, to : Tasks] : b.from <= b.to}]
  /\ MaxRequests \in Nat
  /\ MaxRuns \in [Flows -> Nat]

VARIABLES
  runs,       \* what GitHub lists, in the order of dispatch
  calls,      \* history: <<run, task>>, the model was called
  frozen,     \* history: <<run, task>>, the evidence of the job has a prediction
  uploaded,   \* history: <<run, task>>, the evidence of an attempt was published
  verdicts,   \* history: <<run, run of the prediction, task>>, an official record
  won         \* history: runs that concluded with success

history == <<calls, frozen, uploaded, verdicts, won>>
vars == <<runs, history>>

Jobs(flow) == IF flow \in Batches THEN Batch[flow].from .. Batch[flow].to ELSE {First}
FirstJob(flow) == IF flow \in Batches THEN Batch[flow].from ELSE First

\* A job in progress is at a command; while the model works generate is at "model".
Running == {"prepare", "generate", "model", "evaluate", "publish"}
JobStates == Running \cup {"queued", "success", "failure", "skipped", "cancelled"}

\* A declaration in priorBatchRuns.  "task" is the instance of a declared model attempt, or
\* First for none; "pending" says that its evaluation is "not-evaluated".
Declarations ==
  [run : Nat \ {0}, as : {"failed", "cancelled"}, succeeded : SUBSET Tasks,
   task : {First} \cup Tasks, pending : BOOLEAN]

\* What a commit declares: preModelRuns and the source of the first task, priorRecoveryRuns,
\* firstTaskProvenance and priorBatchRuns.  A run is listed with what its workflow reads.
Nothing == [pre |-> {}, source |-> NoRun, recovered |-> {}, first |-> NoRun, prior |-> {}]

Ids == 1..Len(runs)

IsConfig(c) ==
  /\ c.pre \subseteq Ids /\ c.recovered \subseteq Ids
  /\ {c.source, c.first} \subseteq {NoRun} \cup Ids
  /\ c.prior \subseteq Declarations
  /\ \A d, e \in c.prior : d.run = e.run => d = e

Of(flow) == {r \in Ids : runs[r].flow = flow}
Others(r) == Of(runs[r].flow) \ {r}
Called(r, t) == <<r, t>> \in calls
Frozen(r, t) == <<r, t>> \in frozen
Judged(r, t) == \E v \in verdicts : v[1] = r /\ v[3] = t

TypeOK ==
  /\ \A r \in Ids :
       /\ runs[r].flow \in Flows
       /\ runs[r].status \in {"pending", "in_progress", "completed"}
       /\ runs[r].conclusion \in {"none", "success", "failure", "cancelled"}
       /\ (runs[r].conclusion = "none") = (runs[r].status # "completed")
       /\ runs[r].attempt \in 1..2
       /\ DOMAIN runs[r].jobs \in {{}, Jobs(runs[r].flow)}
       /\ \A j \in DOMAIN runs[r].jobs : runs[r].jobs[j] \in JobStates
       /\ IsConfig(runs[r].config)
  /\ \A s \in {calls, frozen, uploaded} : s \subseteq Ids \X ({First} \cup Tasks)
  /\ verdicts \subseteq Ids \X Ids \X ({First} \cup Tasks)
  /\ won \subseteq Ids

Init ==
  /\ runs = <<>>
  /\ calls = {} /\ frozen = {} /\ uploaded = {} /\ verdicts = {} /\ won = {}

------------------------------------------------------------------------------
(* What the owner may truthfully declare of a run. *)

FailedJobs(r) == {j \in DOMAIN runs[r].jobs : runs[r].jobs[j] = "failure"}
SucceededJobs(r) == {j \in DOMAIN runs[r].jobs : runs[r].jobs[j] = "success"}
Attempts(r) == {t \in Jobs(runs[r].flow) : Called(r, t)}

\* Of a failed run, the job that failed and perhaps the ones that succeeded.  An attempt of
\* the failed job has to be named, one of the others may be; it needs its prediction.
FailureShapes(r) ==
  {[run |-> r, as |-> "failed", succeeded |-> s, task |-> t,
    pending |-> t # First /\ ~Judged(r, t)] :
      s \in {{}, SucceededJobs(r)},
      t \in {t \in {First} \cup Attempts(r) :
               /\ t # First => Frozen(r, t)
               /\ Attempts(r) \cap FailedJobs(r) \subseteq {t}}}

CancelledShapes(r) ==
  IF Attempts(r) # {} THEN {}
  ELSE {[run |-> r, as |-> "cancelled", succeeded |-> {}, task |-> First, pending |-> FALSE]}

Shapes(r) ==
  CASE runs[r].conclusion = "failure" -> FailureShapes(r)
    [] runs[r].conclusion = "cancelled" -> CancelledShapes(r)
    [] OTHER -> {}

\* All that may be said of the runs of a batch; a commit says one thing of a run at most.
Declarable(flow) == UNION {Shapes(r) : r \in Of(flow)}

BatchConfig(f, p) == [Nothing EXCEPT !.first = f, !.prior = p]

\* firstTaskProvenance may be left out, and is in every batch but the first.
BatchConfigs(flow) ==
  {BatchConfig(f, p) :
     f \in {NoRun} \cup Of("recovery"),
     p \in {p \in SUBSET Declarable(flow) : \A d, e \in p : d.run = e.run => d = e}}

Failed(flow) == {r \in Of(flow) : runs[r].conclusion = "failure"}
PreModel == {r \in Failed("one") : Attempts(r) = {}}

OneConfigs == {[Nothing EXCEPT !.pre = p] : p \in SUBSET PreModel}

\* The source of a recovery is an attempt without a prediction, whose evidence was published.
Interrupted(s) == <<s, First>> \in (calls \cap uploaded) \ frozen

RecoveryConfig(p, s, d) == [Nothing EXCEPT !.pre = p, !.source = s, !.recovered = d]

RecoveryConfigs ==
  {RecoveryConfig(p, s, d) :
     p \in SUBSET PreModel,
     s \in {s \in Failed("one") : Interrupted(s)},
     d \in SUBSET Failed("recovery")}

Configs(flow) ==
  CASE flow \in Batches -> BatchConfigs(flow)
    [] flow = "one" -> OneConfigs
    [] flow = "recovery" -> RecoveryConfigs

------------------------------------------------------------------------------
(* The concurrency group: one run in progress, one pending.  A newer pending run cancels  *)
(* the one before, which then lists no job, or its jobs as cancelled.                     *)

NewJobs(flow) == [j \in Jobs(flow) |-> IF j = FirstJob(flow) THEN "prepare" ELSE "queued"]

\* What the owner has asked for so far.
Requests == Len(runs) + Cardinality({q \in Ids : runs[q].attempt = 2})

Busy == \E r \in Ids : runs[r].status = "in_progress"

\* Mutant: a run that never started is completed without a conclusion.
UnstartedInconclusive(run) == {[run EXCEPT !.status = "completed"]}

Unstarted(run) ==
  {[run EXCEPT !.status = "completed", !.conclusion = "cancelled", !.jobs = js] :
     js \in {<<>>, [j \in Jobs(run.flow) |-> "cancelled"]}}

\* The runs once what was pending is cancelled.
Superseding ==
  LET pending == {q \in Ids : runs[q].status = "pending"} IN
  IF pending = {} THEN {runs}
  ELSE UNION {{[runs EXCEPT ![q] = c] : c \in Unstarted(runs[q])} : q \in pending}

Dispatch(flow) ==
  /\ Requests < MaxRequests /\ Cardinality(Of(flow)) < MaxRuns[flow]
  /\ \E c \in Configs(flow), rs \in Superseding :
       runs' = Append(rs, [flow |-> flow, status |-> "pending", conclusion |-> "none",
                           attempt |-> 1, jobs |-> <<>>, config |-> c])
  /\ UNCHANGED history

Start(r) ==
  /\ runs[r].status = "pending" /\ ~Busy
  /\ runs' = [runs EXCEPT ![r].status = "in_progress", ![r].jobs = NewJobs(runs[r].flow)]
  /\ UNCHANGED <<history>>

\* Evidence of an attempt, published or withheld.
Publishing(r, j) ==
  {uploaded} \cup {uploaded \cup {<<r, j>>} : c \in {<<r, j>>} \cap (calls \cup frozen)}

\* The owner cancels a run.  The publish step of its job runs even then.
Cancel(r) ==
  \/ /\ runs[r].status = "pending"
     /\ \E c \in Unstarted(runs[r]) : runs' = [runs EXCEPT ![r] = c]
     /\ UNCHANGED history
  \/ /\ runs[r].status = "in_progress"
     /\ \E j \in DOMAIN runs[r].jobs, rest \in {"cancelled", "skipped"} :
          /\ runs[r].jobs[j] \in Running
          /\ uploaded' \in Publishing(r, j)
          /\ runs' = [runs EXCEPT
               ![r].status = "completed", ![r].conclusion = "cancelled",
               ![r].jobs = [i \in DOMAIN @ |-> CASE i = j -> "cancelled"
                                                [] @[i] = "queued" -> rest
                                                [] OTHER -> @[i]]]
     /\ UNCHANGED <<calls, frozen, verdicts, won>>

\* validateRun: the commands of a re-run fail, and the run is listed with attempt 2.
ReRun(r) ==
  /\ runs[r].status = "completed" /\ runs[r].attempt = 1 /\ ~Busy
  /\ Requests < MaxRequests
  /\ runs' = [runs EXCEPT
       ![r].attempt = 2, ![r].conclusion = "failure",
       ![r].jobs = [j \in Jobs(runs[r].flow) |->
                     IF j = FirstJob(runs[r].flow) THEN "failure" ELSE "skipped"]]
  /\ UNCHANGED history

------------------------------------------------------------------------------
(* Admission: what a job demands of the other runs of its workflow. *)

Completed(q, conclusion) ==
  runs[q].status = "completed" /\ runs[q].conclusion = conclusion /\ runs[q].attempt = 1

\* validateBatchConfig: what it demands of a set of declarations, and is not true of every
\* truthful one.  It expects an attempt's artifact to have the name the first batch gives it.
BatchConfigIsValid(flow, prior) ==
  /\ Cardinality({d \in prior : d.pending}) <= 1
  /\ flow # "batch" => \A d \in prior : d.task = First

\* Mutant: a job the declaration does not name is not looked at.
NamedJobsMatch(q, d) ==
  \A j \in DOMAIN runs[q].jobs : j \in d.succeeded => runs[q].jobs[j] = "success"

\* The failed job is the declared one, and the others succeeded as declared or were skipped.
JobsMatch(q, d) ==
  \A j \in DOMAIN runs[q].jobs \ FailedJobs(q) :
    runs[q].jobs[j] = IF j \in d.succeeded THEN "success" ELSE "skipped"

AdmitsPrior(q, prior) ==
  \E d \in prior :
    /\ d.run = q
    /\ CASE d.as = "cancelled" ->
              /\ Completed(q, "cancelled")
              /\ \A j \in DOMAIN runs[q].jobs : runs[q].jobs[j] = "cancelled"
         [] d.as = "failed" ->
              Completed(q, "failure") /\ DOMAIN runs[q].jobs = Jobs(runs[q].flow) /\ JobsMatch(q, d)

\* admitBatchRun; declarations of runs that are not listed are not looked at.
AdmitsBatchRun(r) ==
  /\ BatchConfigIsValid(runs[r].flow, runs[r].config.prior)
  /\ \A q \in Others(r) : AdmitsPrior(q, runs[r].config.prior)

\* Mutant: it is enough that the recovery run is there.
FirstTaskIsVisible(c) == c.first # NoRun => c.first \in Of("recovery")

\* admitFirstTaskProvenance, where the commit has one: the recovery of the first task has
\* succeeded, and the run it recovered is listed as it was.
FirstTaskIsJudged(c) ==
  c.first # NoRun =>
    /\ c.first \in Of("recovery") /\ Completed(c.first, "success")
    /\ LET g == runs[c.first].config.source IN
       runs[g].status = "completed" /\ runs[g].attempt = 1

\* Mutant: a run that has succeeded stands in nobody's way.
AdmitsOneRunOrSuccess(r) ==
  \A q \in Others(r) :
    runs[q].conclusion = "success" \/ (q \in runs[r].config.pre /\ Completed(q, "failure"))

\* admitFirstRun: the other runs failed before the model, as declared.
AdmitsOneRun(r) ==
  \A q \in Others(r) : q \in runs[r].config.pre /\ Completed(q, "failure")

AdmitsRecoveryRun(r) ==
  LET c == runs[r].config IN
  /\ c.source # NoRun /\ r \notin c.recovered
  /\ Others(r) = c.recovered
  /\ Of("one") = c.pre \cup {c.source}
  /\ \A q \in Of("one") \cup c.recovered : Completed(q, "failure")

\* verifyFrozenSource: the published evidence is of one whole attempt without a prediction.
SourceIsVerified(q) == <<q, First>> \in (calls \cap uploaded) \ frozen

Admits(r) ==
  CASE runs[r].flow \in Batches -> FirstTaskIsJudged(runs[r].config) /\ AdmitsBatchRun(r)
    [] runs[r].flow = "one" -> AdmitsOneRun(r)
    [] runs[r].flow = "recovery" ->
         AdmitsRecoveryRun(r) /\ SourceIsVerified(runs[r].config.source)

\* frozenPredictionPrior: the run whose prediction the task is to be evaluated with, if any.
FrozenPrior(c, t) == {d.run : d \in {d \in c.prior : d.pending /\ d.task = t}}

\* Mutant: evaluate is told the run it belongs to, whoever made the attempt.
SourceIsCurrentRun(r, j) == r

\* The run of the attempt, which evaluate is told.
SourceOf(r, j) ==
  CASE runs[r].flow = "recovery" -> runs[r].config.source
    [] OTHER -> IF FrozenPrior(runs[r].config, j) = {} THEN r
                ELSE CHOOSE q \in FrozenPrior(runs[r].config, j) : TRUE

------------------------------------------------------------------------------
(* The job of run r at task j. *)

At(r, j, stage) ==
  /\ runs[r].status = "in_progress"
  /\ j \in Jobs(runs[r].flow)
  /\ runs[r].jobs[j] = stage

Goto(r, j, stage) == runs' = [runs EXCEPT ![r].jobs[j] = stage]

\* The job fails: the rest of the chain is skipped.
Fail(r, j) ==
  /\ runs' = [runs EXCEPT
       ![r].status = "completed", ![r].conclusion = "failure",
       ![r].jobs = [i \in DOMAIN @ |-> CASE i = j -> "failure"
                                        [] @[i] = "queued" -> "skipped"
                                        [] OTHER -> @[i]]]
  /\ uploaded' \in Publishing(r, j)
  /\ UNCHANGED won

Succeed(r, j) ==
  /\ uploaded' = uploaded \cup {<<r, j>>}
  /\ IF j + 1 \in DOMAIN runs[r].jobs
     THEN /\ runs' = [runs EXCEPT ![r].jobs[j] = "success", ![r].jobs[j + 1] = "prepare"]
          /\ UNCHANGED won
     ELSE /\ runs' = [runs EXCEPT ![r].status = "completed", ![r].conclusion = "success",
                                  ![r].jobs[j] = "success"]
          /\ won' = won \cup {r}

\* Admission, or a failure of the download, of the listing or of the evaluator's installation.
Prepare(r, j) ==
  /\ At(r, j, "prepare")
  /\ \/ Admits(r) /\ Goto(r, j, "generate") /\ UNCHANGED <<uploaded, won>>
     \/ Fail(r, j)
  /\ UNCHANGED <<calls, frozen, verdicts>>

CallsModel(r, j) == runs[r].flow # "recovery" /\ FrozenPrior(runs[r].config, j) = {}

\* generateNodeBundleTask, up to the model claim.
StartModel(r, j) ==
  /\ At(r, j, "generate") /\ CallsModel(r, j)
  /\ Goto(r, j, "model")
  /\ calls' = calls \cup {<<r, j>>}
  /\ UNCHANGED <<frozen, uploaded, verdicts, won>>

\* A failure before the model claim, or of the frozen evidence of another run.
GenerateFails(r, j) ==
  /\ At(r, j, "generate")
  /\ Fail(r, j)
  /\ UNCHANGED <<calls, frozen, verdicts>>

\* The attempt ends; a prediction does not save a job whose cleanup failed.
ModelEnds(r, j) ==
  /\ At(r, j, "model")
  /\ \/ /\ frozen' = frozen \cup {<<r, j>>}
        /\ \/ Goto(r, j, "evaluate") /\ UNCHANGED <<uploaded, won>>
           \/ Fail(r, j)
     \/ Fail(r, j) /\ UNCHANGED frozen
  /\ UNCHANGED <<calls, verdicts>>

\* verifyFrozenArtifact: the published evidence of the declared run, prediction included.
ArtifactIsVerified(q, j) == <<q, j>> \in frozen \cap uploaded

\* copyFrozenEvidence: nothing is overwritten, what this job has prepared stays its own.
CopyFrozenEvidence(r, j) == frozen \cup {<<r, j>>}

\* generateEvalOnlyRecovery: that evidence instead of an attempt.
RecoverPrediction(r, j) ==
  /\ At(r, j, "generate")
  /\ \E q \in FrozenPrior(runs[r].config, j) : ArtifactIsVerified(q, j)
  /\ frozen' = CopyFrozenEvidence(r, j)
  /\ Goto(r, j, "evaluate")
  /\ UNCHANGED <<calls, uploaded, verdicts, won>>

\* The capture of node-bundle-recovery: the patch of the exported workspace, which has to be
\* the one the interrupted capture left, once the container is proven gone.
CapturePrediction(r, j) ==
  /\ At(r, j, "generate") /\ runs[r].flow = "recovery"
  /\ Goto(r, j, "evaluate")
  /\ frozen' = frozen \cup {<<r, j>>}
  /\ UNCHANGED <<calls, uploaded, verdicts, won>>

\* evaluateNodeBundleTask: the record may be there although the closure failed.
Evaluate(r, j) ==
  /\ At(r, j, "evaluate")
  /\ \/ /\ verdicts' = verdicts \cup {<<r, SourceOf(r, j), j>>}
        /\ \/ Goto(r, j, "publish") /\ UNCHANGED <<uploaded, won>>
           \/ Fail(r, j)
     \/ Fail(r, j) /\ UNCHANGED verdicts
  /\ UNCHANGED <<calls, frozen>>

Publish(r, j) ==
  /\ At(r, j, "publish")
  /\ Succeed(r, j) \/ Fail(r, j)
  /\ UNCHANGED <<calls, frozen, verdicts>>

JobStep(r, j) ==
  \/ Prepare(r, j) \/ StartModel(r, j) \/ GenerateFails(r, j) \/ ModelEnds(r, j)
  \/ RecoverPrediction(r, j) \/ CapturePrediction(r, j) \/ Evaluate(r, j) \/ Publish(r, j)

Next ==
  \/ \E flow \in Flows : Dispatch(flow)
  \/ \E r \in Ids :
       \/ Start(r) \/ Cancel(r) \/ ReRun(r)
       \/ \E j \in {First} \cup Tasks : JobStep(r, j)

Spec == Init /\ [][Next]_vars

------------------------------------------------------------------------------
(* The commit the run was dispatched at says of run q that its job of task t succeeded, or *)
(* that its attempt at t has its verdict and is excluded.                                  *)
SaysItIsOver(c, q, t) ==
  \E d \in c.prior : d.run = q /\ (t \in d.succeeded \/ (d.task = t /\ ~d.pending))

\* A workflow gives a task to the model again only where the owner has declared the attempt
\* that one of its runs made as over: no race of dispatches, cancellations, re-runs and
\* failures of one workflow repeats a task unnoticed, and the first task is never repeated.
\* Two batches that share a task do repeat it: neither is admitted against the other's runs.
RepeatIsDeclared ==
  [][\A c \in calls' \ calls : \A e \in calls :
        e[2] = c[2] /\ runs[e[1]].flow = runs[c[1]].flow =>
          c[2] # First /\ SaysItIsOver(runs[c[1]].config, e[1], c[2])]_vars

\* Of each workflow at most one run ever concludes with success, whatever was pending then.
OneSuccess ==
  \A flow \in Flows : Cardinality(won \cap Of(flow)) <= 1

\* Every official record names the run that made the attempt it judges, though it may be
\* recorded two runs later, of a prediction that was captured anew or copied from an artifact;
\* and that attempt left published evidence unless the record is of the same run.
VerdictNamesAttempt ==
  \A v \in verdicts :
    /\ <<v[2], v[3]>> \in calls /\ <<v[1], v[3]>> \in frozen
    /\ v[1] # v[2] => <<v[2], v[3]>> \in uploaded /\ <<v[1], v[3]>> \notin calls

\* A batch whose commit names the recovery run of the first task waits for it: no task of the
\* batch is given to the model before that run has won, with the official verdict it recorded
\* of an attempt of the first task.
BatchAfterFirst ==
  \A c \in calls :
    LET first == runs[c[1]].config.first IN
    first # NoRun =>
      /\ first \in won
      /\ \E v \in verdicts : v[1] = first /\ v[3] = First /\ <<v[2], First>> \in calls

=============================================================================
