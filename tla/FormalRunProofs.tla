-------------------------- MODULE FormalRunProofs --------------------------
(***************************************************************************)
(* Theorems about module FormalRun, for every frozen plan and any number   *)
(* of workflow attempts.                                                   *)
(***************************************************************************)
EXTENDS FormalRun, TLAPS

(* Types. *)

Endings == {"success", "failure", "cancelled"}

\* One more execution of the job of a batch.
LEMMA ExecuteType ==
  ASSUME NEW job \in Job, NEW how \in Endings, NEW reached \in BOOLEAN
  PROVE  /\ Execute(job, how, reached) \in Job
         /\ Execute(job, how, reached).executions = job.executions + 1
         /\ Execute(job, how, reached).conclusion = how
         /\ Execute(job, how, reached).generated = reached
  BY DEF Execute, Job, Endings

\* One more execution of a job.
LEMMA ExecutesType ==
  ASSUME NEW jobs \in [Batches -> Job], NEW b \in Batches,
         NEW how \in Endings, NEW reached \in BOOLEAN,
         NEW new, new = [jobs EXCEPT ![b] = Execute(@, how, reached)]
  PROVE  /\ new \in [Batches -> Job]
         /\ new[b].executions = jobs[b].executions + 1
         /\ new[b].conclusion = how /\ new[b].generated = reached
         /\ \A c \in Batches \ {b} : new[c] = jobs[c]
<1>1. Execute(jobs[b], how, reached) \in Job
  BY ExecuteType
<1>2. new \in [Batches -> Job] /\ new[b] = Execute(jobs[b], how, reached)
  BY <1>1
<1>3. jobs[b] \in Job
  OBVIOUS
<1> QED
  BY <1>2, <1>3, ExecuteType

\* A job after "re-run failed jobs": it waits again, or stays as it was, perhaps listed twice.
LEMMA AgainType ==
  ASSUME NEW job \in Job, NEW rerun \in BOOLEAN, NEW carried \in BOOLEAN
  PROVE  /\ Again(job, rerun, carried) \in Job
         /\ \/ Again(job, rerun, carried).executions = job.executions
            \/ ~Waiting(job) /\ Again(job, rerun, carried).executions = job.executions + 1
         /\ \/ Waiting(Again(job, rerun, carried))
            \/ /\ Again(job, rerun, carried).conclusion = job.conclusion
               /\ Again(job, rerun, carried).generated = job.generated
<1> USE DEF Job, Waiting
<1>1. CASE rerun
  <2>1. Again(job, rerun, carried) = [job EXCEPT !.conclusion = "none", !.generated = FALSE]
    BY <1>1 DEF Again
  <2> QED
    BY <2>1
<1>2. CASE ~rerun /\ carried /\ ~Waiting(job)
  <2> DEFINE next == Again(job, rerun, carried)
  <2>1. next = [job EXCEPT !.executions = @ + 1]
    BY <1>2 DEF Again
  <2>2. next \in Job /\ next.executions = job.executions + 1
    BY <2>1
  <2>3. next.conclusion = job.conclusion /\ next.generated = job.generated
    BY <2>1
  <2> QED
    BY <1>2, <2>2, <2>3
<1>3. CASE ~rerun /\ ~(carried /\ ~Waiting(job))
  <2>1. Again(job, rerun, carried) = job
    BY <1>3 DEF Again
  <2> QED
    BY <2>1
<1> QED
  BY <1>1, <1>2, <1>3

\* At most one more model attempt per task.
LEMMA AttemptedType ==
  ASSUME attempts \in [Tasks -> Nat], NEW ts
  PROVE  /\ Attempted(ts) \in [Tasks -> Nat]
         /\ \A t \in Tasks : Attempted(ts)[t] = IF t \in ts THEN attempts[t] + 1 ELSE attempts[t]
  BY DEF Attempted

\* The receipts of some tasks, next to those there were.
LEMMA SourceReceiptsType ==
  ASSUME TypeOK, NEW b \in Batches, NEW new \in Receipts(receipt, TasksOf(b), Outcomes)
  PROVE  /\ new \in [Tasks -> Outcomes \cup {"none"}]
         /\ \A t \in Tasks : IF t \in TasksOf(b) THEN new[t] \in Outcomes ELSE new[t] = receipt[t]
<1>1. PICK out \in [TasksOf(b) -> Outcomes] :
        new = [t \in Tasks |-> IF t \in TasksOf(b) THEN out[t] ELSE receipt[t]]
  BY DEF Receipts
<1>2. receipt \in [Tasks -> Outcomes \cup {"none"}]
  BY DEF TypeOK
<1> QED
  BY <1>1, <1>2

\* Every step keeps the types: one step of the proof per action.
LEMMA NextType == TypeOK /\ [Next]_vars => TypeOK'
<1> SUFFICES ASSUME TypeOK, [Next]_vars PROVE TypeOK'
  OBVIOUS
<1>1. ASSUME NEW b \in Batches, SourceFailsEarly(b) PROVE TypeOK'
  <2>1. PICK how \in Endings, reached \in BOOLEAN :
          source' = [source EXCEPT ![b] = Execute(@, how, reached)]
    BY <1>1 DEF SourceFailsEarly, Endings
  <2>2. source' \in [Batches -> Job]
    BY <2>1, ExecutesType DEF TypeOK
  <2> QED
    BY <1>1, <2>2 DEF SourceFailsEarly, TypeOK, plannerVars, recoveryVars, admissionVars
<1>2. ASSUME NEW b \in Batches, SourceReports(b) PROVE TypeOK'
  <2>1. source' \in [Batches -> Job]
    <3>1. PICK how \in Endings, reached \in BOOLEAN :
            source' = [source EXCEPT ![b] = Execute(@, how, reached)]
      BY <1>2 DEF SourceReports, Endings
    <3> QED
      BY <3>1, ExecutesType DEF TypeOK
  <2>2. receipt' \in [Tasks -> Outcomes \cup {"none"}]
    BY <1>2, SourceReceiptsType DEF SourceReports
  <2>3. attempts' \in [Tasks -> Nat]
    BY <1>2, AttemptedType DEF SourceReports, TypeOK
  <2> QED
    BY <1>2, <2>1, <2>2, <2>3
       DEF SourceReports, TypeOK, Fragments, plannerVars, recoveryVars, admissionVars
<1>3. ASSUME NEW b \in Batches, SourceLost(b) PROVE TypeOK'
  <2>1. source' \in [Batches -> Job]
    <3>1. PICK how \in Endings, reached \in BOOLEAN :
            source' = [source EXCEPT ![b] = Execute(@, how, reached)]
      BY <1>3 DEF SourceLost, Endings
    <3> QED
      BY <3>1, ExecutesType DEF TypeOK
  <2>2. attempts' \in [Tasks -> Nat]
    BY <1>3, AttemptedType DEF SourceLost, TypeOK
  <2> QED
    BY <1>3, <2>1, <2>2
       DEF SourceLost, TypeOK, Fragments, plannerVars, recoveryVars, admissionVars
<1>4. ASSUME NEW seen \in SUBSET Batches, PlannerRuns(seen) PROVE TypeOK'
  <2>1. planner' \in Job
    BY <1>4 DEF PlannerRuns, TypeOK, Execute, Job
  <2>2. manifest'.tasks \subseteq Tasks
    BY <1>4 DEF PlannerRuns, RecoveryPlan, Eligible
  <2> QED
    BY <1>4, <2>1, <2>2 DEF PlannerRuns, TypeOK, sourceVars, recoveryVars, admissionVars
<1>5. CASE PlannerFails
  <2>1. planner' \in Job
    BY <1>5 DEF PlannerFails, TypeOK, Execute, Job
  <2> QED
    BY <1>5, <2>1 DEF PlannerFails, TypeOK, sourceVars, recoveryVars, admissionVars
<1>6. ASSUME NEW b \in Batches, RecoveryLost(b) PROVE TypeOK'
  <2>1. recovery' \in [Batches -> Job]
    <3>1. PICK how \in Endings, reached \in BOOLEAN :
            recovery' = [recovery EXCEPT ![b] = Execute(@, how, reached)]
      BY <1>6 DEF RecoveryLost, Endings
    <3> QED
      BY <3>1, ExecutesType DEF TypeOK
  <2>2. attempts' \in [Tasks -> Nat]
    <3>1. attempts' = attempts \/ attempts' = Attempted(TasksOf(b) \cap manifest.tasks)
      BY <1>6 DEF RecoveryLost
    <3> QED
      BY <3>1, AttemptedType DEF TypeOK
  <2> QED
    BY <1>6, <2>1, <2>2
       DEF RecoveryLost, TypeOK, Fragments, sourceVars, plannerVars, admissionVars
<1>7. ASSUME NEW b \in Batches, RecoveryReports(b) PROVE TypeOK'
  <2>1. recovery' \in [Batches -> Job]
    <3>1. PICK how \in Endings, reached \in BOOLEAN :
            recovery' = [recovery EXCEPT ![b] = Execute(@, how, reached)]
      BY <1>7 DEF RecoveryReports, Endings
    <3> QED
      BY <3>1, ExecutesType DEF TypeOK
  <2>2. recReceipt' \in [Tasks -> RecoveryOutcomes \cup {"none"}]
    <3> DEFINE ts == TasksOf(b) \cap manifest.tasks
    <3>1. PICK out \in [ts -> RecoveryOutcomes] :
            recReceipt' = [t \in Tasks |-> IF t \in ts THEN out[t] ELSE recReceipt[t]]
      BY <1>7 DEF RecoveryReports, Receipts
    <3>2. recReceipt \in [Tasks -> RecoveryOutcomes \cup {"none"}]
      BY DEF TypeOK
    <3> QED
      BY <3>1, <3>2
  <2>3. attempts' \in [Tasks -> Nat]
    BY <1>7, AttemptedType DEF RecoveryReports, TypeOK
  <2> QED
    BY <1>7, <2>1, <2>2, <2>3
       DEF RecoveryReports, TypeOK, Fragments, sourceVars, plannerVars, admissionVars
<1>8. ASSUME NEW seen \in SUBSET Batches, NEW seenRec \in SUBSET Batches, Admit(seen, seenRec)
      PROVE  TypeOK'
  BY <1>8 DEF Admit, TypeOK, Report, sourceVars, recoveryVars
<1>9. CASE ReRunFailedJobs
  <2>1. PICK carried \in BOOLEAN, planAgain \in BOOLEAN :
          /\ source' = [b \in Batches |-> Again(source[b], Failed(source[b]), carried)]
          /\ planner' = Again(planner, planAgain, carried)
          /\ recovery' =
               [b \in Batches |-> Again(recovery[b], planAgain \/ Failed(recovery[b]), carried)]
    BY <1>9 DEF ReRunFailedJobs, Failed
  <2>2. planner' \in Job
    BY <2>1, AgainType DEF TypeOK
  <2>3. ASSUME NEW b \in Batches
        PROVE  /\ Again(source[b], Failed(source[b]), carried) \in Job
               /\ Again(recovery[b], planAgain \/ Failed(recovery[b]), carried) \in Job
    <3>1. source[b] \in Job /\ recovery[b] \in Job
      BY DEF TypeOK
    <3>2. Failed(source[b]) \in BOOLEAN /\ (planAgain \/ Failed(recovery[b])) \in BOOLEAN
      BY DEF Failed
    <3> QED
      BY <3>1, <3>2, AgainType
  <2>4. source' \in [Batches -> Job] /\ recovery' \in [Batches -> Job]
    BY <2>1, <2>3
  <2>5. attempt' \in 1..MaxAttempts
    BY <1>9, MaxAttemptsAssumption DEF ReRunFailedJobs, TypeOK
  <2> QED
    BY <1>9, <2>2, <2>4, <2>5 DEF ReRunFailedJobs, TypeOK
<1>10. CASE UNCHANGED vars
  BY <1>10 DEF vars, TypeOK, sourceVars, plannerVars, recoveryVars, admissionVars
<1> QED
  BY <1>1, <1>2, <1>3, <1>4, <1>5, <1>6, <1>7, <1>8, <1>9, <1>10
     DEF Next, GenerationJobs, RecoveryJobs

\* No job has run.
LEMMA InitType == Init => TypeOK
<1> SUFFICES ASSUME Init PROVE TypeOK
  OBVIOUS
<1>1. NotRun \in Job
  BY DEF NotRun, Job
<1>2. manifest.tasks = {}
  <2>1. manifest = NoManifest
    BY DEF Init
  <2> QED
    BY <2>1 DEF NoManifest
<1>3. attempt \in 1..MaxAttempts
  BY MaxAttemptsAssumption DEF Init
<1> QED
  BY <1>1, <1>2, <1>3 DEF Init, TypeOK, Fragments

\* Every variable keeps its type in every behaviour.
THEOREM TypeCorrect == Spec => []TypeOK
  BY InitType, NextType, PTL DEF Spec

-----------------------------------------------------------------------------
(* What is known of the run between the steps, whatever was re-run. *)

\* Every model attempt is one of an execution the jobs listing shows.
CountedAttempts ==
  \A t \in Tasks :
    LET b == BatchOf[t] IN
    /\ attempts[t] <= source[b].executions + recovery[b].executions
    /\ t \notin manifest.tasks => attempts[t] <= source[b].executions

\* What the first execution of a generation job left: nothing before it, and neither an
\* attempt nor a receipt nor a report if it failed before the model.
FirstExecution(b) ==
  LET first == source[b].executions = 1 /\ MissingBeforeModel(b) IN
  /\ source[b].executions = 0 \/ first =>
       /\ fragment[b] = "missing"
       /\ \A t \in TasksOf(b) : receipt[t] = "none" /\ attempts[t] <= recovery[b].executions
  /\ \A t \in TasksOf(b) :
       source[b].executions = 1 /\ receipt[t] = "environment" =>
         attempts[t] <= recovery[b].executions

FirstExecutions == \A b \in Batches : FirstExecution(b)

\* A job that succeeded left a report of some kind, and a plan was made from some.
Reports ==
  /\ \A b \in Batches : source[b].conclusion = "success" => fragment[b] # "missing"
  /\ planner.conclusion = "success" => Uploaded(fragment) # {}

\* In the first workflow attempt the jobs listing has no job twice.
RunOnce(job) == job.executions = IF Waiting(job) THEN 0 ELSE 1
FirstAttempt ==
  attempt = 1 =>
    /\ RunOnce(planner)
    /\ \A b \in Batches : RunOnce(source[b]) /\ RunOnce(recovery[b])

History == TypeOK /\ CountedAttempts /\ FirstExecutions /\ Reports /\ FirstAttempt

\* The end of a generation job, whichever it is: what it adds to its batch, and that it
\* leaves the other batches alone.
SourceEnds(b, how, reached) ==
  /\ UNCHANGED <<attempt, planner, manifest, recovery>>
  /\ Waiting(source[b])
  /\ source'[b].executions = source[b].executions + 1
  /\ source'[b].conclusion = how /\ source'[b].generated = reached
  /\ \A c \in Batches \ {b} : source'[c] = source[c] /\ fragment'[c] = fragment[c]
  /\ fragment[b] # "missing" \/ how = "success" => fragment'[b] # "missing"
  /\ reached = FALSE => UNCHANGED <<fragment, receipt, attempts>>
  /\ \A t \in Tasks \ TasksOf(b) : receipt'[t] = receipt[t] /\ attempts'[t] = attempts[t]
  /\ \A t \in TasksOf(b) :
       /\ attempts'[t] \in {attempts[t], attempts[t] + 1}
       /\ receipt'[t] = "environment" =>
            receipt[t] = "environment" \/ attempts'[t] = attempts[t]

\* However a generation job ends, it has one more execution.
LEMMA SourceEffect ==
  ASSUME TypeOK, NEW b \in Batches, SourceFailsEarly(b) \/ SourceReports(b) \/ SourceLost(b)
  PROVE  \E how \in Endings, reached \in BOOLEAN : SourceEnds(b, how, reached)
<1>1. /\ UNCHANGED <<attempt, planner, manifest, recovery>>
      /\ Waiting(source[b])
  BY DEF SourceFailsEarly, SourceReports, SourceLost, plannerVars, recoveryVars
<1>2. /\ source \in [Batches -> Job] /\ attempts \in [Tasks -> Nat]
      /\ fragment \in [Batches -> Fragments] /\ TasksOf(b) \subseteq Tasks
  BY DEF TypeOK, TasksOf
<1>3. ASSUME NEW how \in Endings, NEW reached \in BOOLEAN,
             source' = [source EXCEPT ![b] = Execute(@, how, reached)]
      PROVE  /\ source'[b].executions = source[b].executions + 1
             /\ source'[b].conclusion = how /\ source'[b].generated = reached
             /\ \A c \in Batches \ {b} : source'[c] = source[c]
  BY <1>2, <1>3, ExecutesType
<1>4. CASE SourceFailsEarly(b)
  <2>1. PICK how \in Endings, reached \in BOOLEAN :
          /\ source' = [source EXCEPT ![b] = Execute(@, how, reached)]
          /\ how # "success"
    BY <1>4 DEF SourceFailsEarly, Endings
  <2>2. SourceEnds(b, how, reached)
    <3>1. UNCHANGED <<fragment, receipt, attempts>>
      BY <1>4 DEF SourceFailsEarly
    <3> QED
      BY <1>1, <1>2, <1>3, <2>1, <3>1 DEF SourceEnds
  <2> QED
    BY <2>2
<1>5. CASE SourceReports(b)
  <2>1. PICK how \in Endings, reached \in BOOLEAN :
          /\ source' = [source EXCEPT ![b] = Execute(@, how, reached)]
          /\ reached = TRUE
    BY <1>5 DEF SourceReports, Endings
  <2>2. \A t \in Tasks \ TasksOf(b) : receipt'[t] = receipt[t]
    BY <1>5, SourceReceiptsType DEF SourceReports
  <2>3. \A t \in Tasks : attempts'[t] = IF t \in TasksOf(b) /\ receipt'[t] # "environment"
                                       THEN attempts[t] + 1 ELSE attempts[t]
    <3> DEFINE ts == {t \in TasksOf(b) : receipt'[t] # "environment"}
    <3>1. attempts' = Attempted(ts)
      BY <1>5 DEF SourceReports
    <3>2. \A t \in Tasks : Attempted(ts)[t] = IF t \in ts THEN attempts[t] + 1 ELSE attempts[t]
      BY <1>2, AttemptedType
    <3> QED
      BY <3>1, <3>2
  <2>4. fragment' = [fragment EXCEPT ![b] = "good"]
    BY <1>5 DEF SourceReports
  <2>5. SourceEnds(b, how, reached)
    BY <1>1, <1>2, <1>3, <2>1, <2>2, <2>3, <2>4 DEF SourceEnds
  <2> QED
    BY <2>5
<1>6. CASE SourceLost(b)
  <2>1. PICK how \in Endings, reached \in BOOLEAN :
          /\ source' = [source EXCEPT ![b] = Execute(@, how, reached)]
          /\ reached = TRUE
          /\ \/ fragment' = fragment /\ how # "success"
             \/ fragment' = [fragment EXCEPT ![b] = "mismatched"]
    BY <1>6 DEF SourceLost, Endings
  <2>2. receipt' = receipt
    BY <1>6 DEF SourceLost
  <2>3. \A t \in Tasks : attempts'[t] = IF t \in TasksOf(b) THEN attempts[t] + 1 ELSE attempts[t]
    BY <1>2, <1>6, AttemptedType DEF SourceLost
  <2>5. SourceEnds(b, how, reached)
    BY <1>1, <1>2, <1>3, <2>1, <2>2, <2>3 DEF SourceEnds
  <2> QED
    BY <2>5
<1> QED
  BY <1>4, <1>5, <1>6

\* The counters of the jobs listing are numbers, and every task has a batch.
LEMMA Counters ==
  ASSUME TypeOK
  PROVE  /\ \A b \in Batches : source[b].executions \in Nat /\ recovery[b].executions \in Nat
         /\ planner.executions \in Nat
         /\ \A t \in Tasks : attempts[t] \in Nat
         /\ \A t \in Tasks : BatchOf[t] \in Batches
<1>1. \A b \in Batches : source[b] \in Job /\ recovery[b] \in Job
  BY DEF TypeOK
<1> QED
  BY <1>1, PlanAssumption DEF TypeOK, Job

\* A generation job ends.
LEMMA SourceHistory ==
  ASSUME History, TypeOK', NEW b \in Batches, NEW how \in Endings, NEW reached \in BOOLEAN,
         SourceEnds(b, how, reached)
  PROVE  History'
<1>1. /\ \A c \in Batches : source[c].executions \in Nat /\ recovery[c].executions \in Nat
      /\ \A t \in Tasks : attempts[t] \in Nat
      /\ \A t \in Tasks : BatchOf[t] \in Batches
  BY Counters DEF History
<1>2. CountedAttempts'
  <2> SUFFICES ASSUME NEW t \in Tasks
               PROVE  /\ attempts'[t] <= source'[BatchOf[t]].executions + recovery[BatchOf[t]].executions
                      /\ t \notin manifest.tasks => attempts'[t] <= source'[BatchOf[t]].executions
    BY DEF SourceEnds, CountedAttempts
  <2>1. /\ attempts[t] <= source[BatchOf[t]].executions + recovery[BatchOf[t]].executions
        /\ t \notin manifest.tasks => attempts[t] <= source[BatchOf[t]].executions
    BY DEF History, CountedAttempts
  <2>2. CASE BatchOf[t] = b
    <3>1. attempts'[t] \in {attempts[t], attempts[t] + 1}
      BY <2>2 DEF SourceEnds, TasksOf
    <3>2. source'[b].executions = source[b].executions + 1
      BY DEF SourceEnds
    <3> QED
      BY <1>1, <2>1, <2>2, <3>1, <3>2
  <2>3. CASE BatchOf[t] # b
    <3>1. attempts'[t] = attempts[t] /\ source'[BatchOf[t]] = source[BatchOf[t]]
      BY <1>1, <2>3 DEF SourceEnds, TasksOf
    <3> QED
      BY <2>1, <3>1
  <2> QED
    BY <2>2, <2>3
<1>3. FirstExecutions'
  <2> SUFFICES ASSUME NEW c \in Batches PROVE FirstExecution(c)'
    BY DEF FirstExecutions
  <2>1. FirstExecution(c)
    BY DEF History, FirstExecutions
  <2>2. CASE c = b
    <3>1. source'[b].executions # 0
      BY <1>1 DEF SourceEnds
    <3>2. ASSUME source'[b].executions = 1
          PROVE  source[b].executions = 0 /\ \A t \in TasksOf(b) : receipt[t] # "environment"
      <4>1. source[b].executions = 0
        BY <1>1, <3>2 DEF SourceEnds
      <4> QED
        BY <2>1, <2>2, <4>1 DEF FirstExecution
    <3>3. ASSUME source'[b].executions = 1, MissingBeforeModel(b)'
          PROVE  UNCHANGED <<fragment, receipt, attempts>>
      BY <3>3 DEF MissingBeforeModel, SourceEnds
    <3>4. \A t \in TasksOf(b) : source'[b].executions = 1 /\ receipt'[t] = "environment" =>
            attempts'[t] = attempts[t]
      BY <3>2 DEF SourceEnds
    <3>5. UNCHANGED recovery
      BY DEF SourceEnds
    <3> QED
      BY <2>1, <2>2, <3>1, <3>2, <3>3, <3>4, <3>5 DEF FirstExecution, TasksOf
  <2>3. CASE c # b
    <3>1. source'[c] = source[c] /\ fragment'[c] = fragment[c] /\ recovery'[c] = recovery[c]
      BY <2>3 DEF SourceEnds
    <3>2. \A t \in TasksOf(c) : receipt'[t] = receipt[t] /\ attempts'[t] = attempts[t]
      BY <2>3 DEF SourceEnds, TasksOf
    <3> QED
      BY <2>1, <3>1, <3>2 DEF FirstExecution, MissingBeforeModel, TasksOf
  <2> QED
    BY <2>2, <2>3
<1>4. Reports'
  BY DEF History, Reports, SourceEnds, Uploaded
<1>5. FirstAttempt'
  <2>1. how # "none"
    BY DEF Endings
  <2> QED
    BY <2>1, <1>1 DEF History, FirstAttempt, RunOnce, Waiting, SourceEnds
<1> QED
  BY <1>2, <1>3, <1>4, <1>5 DEF History

\* A recovery job ends: only the tasks of the plan may have been attempted again.
LEMMA RecoveryHistory ==
  ASSUME History, TypeOK', NEW b \in Batches, RecoveryLost(b) \/ RecoveryReports(b)
  PROVE  History'
<1>1. /\ \A c \in Batches : source[c].executions \in Nat /\ recovery[c].executions \in Nat
      /\ \A t \in Tasks : attempts[t] \in Nat
      /\ \A t \in Tasks : BatchOf[t] \in Batches
  BY Counters DEF History
<1>2. /\ UNCHANGED <<attempt, source, fragment, receipt, planner, manifest>>
      /\ Waiting(recovery[b])
  BY DEF RecoveryLost, RecoveryReports, RecoveryWaits, sourceVars, plannerVars
<1>3. PICK how \in Endings, reached \in BOOLEAN :
        recovery' = [recovery EXCEPT ![b] = Execute(@, how, reached)]
  BY DEF RecoveryLost, RecoveryReports, Endings
<1>4. /\ recovery'[b].executions = recovery[b].executions + 1
      /\ recovery'[b].conclusion = how
      /\ \A c \in Batches \ {b} : recovery'[c] = recovery[c]
  BY <1>3, ExecutesType DEF History, TypeOK
<1>5. \A t \in Tasks :
        /\ attempts'[t] \in {attempts[t], attempts[t] + 1}
        /\ ~(t \in TasksOf(b) /\ t \in manifest.tasks) => attempts'[t] = attempts[t]
  <2>1. attempts' = attempts \/ attempts' = Attempted(TasksOf(b) \cap manifest.tasks)
    BY DEF RecoveryLost, RecoveryReports
  <2>2. attempts \in [Tasks -> Nat]
    BY DEF History, TypeOK
  <2> QED
    BY <2>1, <2>2, AttemptedType
<1>6. CountedAttempts'
  <2> SUFFICES ASSUME NEW t \in Tasks
               PROVE  /\ attempts'[t] <= source[BatchOf[t]].executions + recovery'[BatchOf[t]].executions
                      /\ t \notin manifest.tasks => attempts'[t] <= source[BatchOf[t]].executions
    BY <1>2 DEF CountedAttempts
  <2>1. /\ attempts[t] <= source[BatchOf[t]].executions + recovery[BatchOf[t]].executions
        /\ t \notin manifest.tasks => attempts[t] <= source[BatchOf[t]].executions
    BY DEF History, CountedAttempts
  <2>2. CASE BatchOf[t] = b
    BY <1>1, <1>4, <1>5, <2>1, <2>2
  <2>3. CASE BatchOf[t] # b
    BY <1>1, <1>4, <1>5, <2>1, <2>3 DEF TasksOf
  <2> QED
    BY <2>2, <2>3
<1>7. FirstExecutions'
  <2> SUFFICES ASSUME NEW c \in Batches PROVE FirstExecution(c)'
    BY DEF FirstExecutions
  <2>1. FirstExecution(c)
    BY DEF History, FirstExecutions
  <2>2. \A t \in TasksOf(c) :
          attempts[t] <= recovery[c].executions => attempts'[t] <= recovery'[c].executions
    <3>1. CASE c = b
      BY <1>1, <1>4, <1>5, <3>1 DEF TasksOf
    <3>2. CASE c # b
      BY <1>4, <1>5, <3>2 DEF TasksOf
    <3> QED
      BY <3>1, <3>2
  <2> QED
    BY <1>2, <2>1, <2>2 DEF FirstExecution, MissingBeforeModel, TasksOf
<1>8. Reports'
  BY <1>2 DEF History, Reports, Uploaded
<1>9. FirstAttempt'
  BY <1>1, <1>2, <1>4 DEF History, FirstAttempt, RunOnce, Waiting, Endings
<1> QED
  BY <1>6, <1>7, <1>8, <1>9 DEF History

\* The planner replaces the plan only while no recovery job is listed.
LEMMA PlannerHistory ==
  ASSUME History, TypeOK',
         PlannerFails \/ \E seen \in SUBSET Batches : PlannerRuns(seen)
  PROVE  History'
<1>1. /\ \A c \in Batches : source[c].executions \in Nat /\ recovery[c].executions \in Nat
      /\ planner.executions \in Nat
      /\ \A t \in Tasks : attempts[t] \in Nat
      /\ \A t \in Tasks : BatchOf[t] \in Batches
  BY Counters DEF History
<1>2. /\ UNCHANGED <<attempt, source, fragment, receipt, recovery, attempts>>
      /\ Waiting(planner)
      /\ planner'.executions = planner.executions + 1
      /\ ~Waiting(planner')
      /\ planner'.conclusion = "success" => Uploaded(fragment) # {}
  <2>1. CASE PlannerFails
    <3>1. planner'.executions = planner.executions + 1 /\ planner'.conclusion = "failure"
      BY <2>1 DEF PlannerFails, Execute
    <3>2. UNCHANGED <<attempt, source, fragment, receipt, recovery, attempts>> /\ Waiting(planner)
      BY <2>1 DEF PlannerFails, sourceVars, recoveryVars
    <3> QED
      BY <3>1, <3>2 DEF Waiting
  <2>2. ASSUME NEW seen \in SUBSET Batches, PlannerRuns(seen)
        PROVE  /\ UNCHANGED <<attempt, source, fragment, receipt, recovery, attempts>>
               /\ Waiting(planner)
               /\ planner'.executions = planner.executions + 1
               /\ planner'.conclusion = "success" /\ Uploaded(fragment) # {}
    <3>1. planner'.executions = planner.executions + 1 /\ planner'.conclusion = "success"
      BY <2>2 DEF PlannerRuns, Execute
    <3>2. Uploaded(fragment) # {}
      BY <2>2 DEF PlannerRuns, OneExecutionEach
    <3> QED
      BY <2>2, <3>1, <3>2 DEF PlannerRuns, sourceVars, recoveryVars
  <2> QED
    BY <2>1, <2>2 DEF Waiting
<1>3. manifest' = manifest \/ \A b \in Batches : recovery[b].executions = 0
  BY DEF PlannerFails, PlannerRuns
<1>4. CountedAttempts'
  BY <1>1, <1>2, <1>3 DEF History, CountedAttempts
<1>5. FirstExecutions'
  BY <1>2 DEF History, FirstExecutions, FirstExecution, MissingBeforeModel, TasksOf
<1>6. Reports'
  BY <1>2 DEF History, Reports, Uploaded
<1>7. FirstAttempt'
  BY <1>1, <1>2 DEF History, FirstAttempt, RunOnce, Waiting
<1> QED
  BY <1>4, <1>5, <1>6, <1>7 DEF History

\* "Re-run failed jobs": no execution is forgotten, and a job that failed waits again.
LEMMA ReRunHistory ==
  ASSUME History, TypeOK', ReRunFailedJobs
  PROVE  History'
<1>1. /\ \A c \in Batches : source[c].executions \in Nat /\ recovery[c].executions \in Nat
      /\ planner.executions \in Nat
      /\ \A t \in Tasks : attempts[t] \in Nat
      /\ \A t \in Tasks : BatchOf[t] \in Batches
  BY Counters DEF History
<1>2. PICK carried \in BOOLEAN, planAgain \in BOOLEAN :
        /\ source' = [b \in Batches |-> Again(source[b], Failed(source[b]), carried)]
        /\ planner' = Again(planner, planAgain, carried)
        /\ recovery' =
             [b \in Batches |-> Again(recovery[b], planAgain \/ Failed(recovery[b]), carried)]
  BY DEF ReRunFailedJobs, Failed
<1>3. UNCHANGED <<fragment, receipt, manifest, attempts>> /\ attempt' = attempt + 1
  BY DEF ReRunFailedJobs
<1>4. /\ planner.conclusion = "success" \/ planner'.conclusion # "success"
  <2>1. planner \in Job
    BY DEF History, TypeOK
  <2>2. Waiting(planner') \/ planner'.conclusion = planner.conclusion
    BY <1>2, <2>1, AgainType
  <2> QED
    BY <2>2 DEF Waiting
<1>5. ASSUME NEW b \in Batches
      PROVE  /\ source'[b].executions \in {source[b].executions, source[b].executions + 1}
             /\ source[b].conclusion = "success" \/ source'[b].conclusion # "success"
             /\ source'[b].conclusion # "failure"
             /\ recovery'[b].executions \in {recovery[b].executions, recovery[b].executions + 1}
  <2>1. /\ source[b] \in Job /\ recovery[b] \in Job
        /\ Failed(source[b]) \in BOOLEAN /\ (planAgain \/ Failed(recovery[b])) \in BOOLEAN
    BY DEF History, TypeOK, Failed
  <2>2. /\ source'[b] = Again(source[b], Failed(source[b]), carried)
        /\ recovery'[b] = Again(recovery[b], planAgain \/ Failed(recovery[b]), carried)
    BY <1>2
  <2>3. /\ source'[b].executions \in {source[b].executions, source[b].executions + 1}
        /\ Waiting(source'[b]) \/ source'[b].conclusion = source[b].conclusion
    <3> DEFINE next == Again(source[b], Failed(source[b]), carried)
    <3>1. /\ next.executions = source[b].executions \/ next.executions = source[b].executions + 1
          /\ Waiting(next) \/ next.conclusion = source[b].conclusion
      BY <2>1, AgainType
    <3> QED
      BY <2>2, <3>1
  <2>4. recovery'[b].executions \in {recovery[b].executions, recovery[b].executions + 1}
    <3> DEFINE again == planAgain \/ Failed(recovery[b])
               next == Again(recovery[b], again, carried)
    <3>1. again \in BOOLEAN
      BY <2>1
    <3> HIDE DEF again
    <3>2. next.executions = recovery[b].executions \/ next.executions = recovery[b].executions + 1
      BY <2>1, <3>1, AgainType
    <3> QED
      BY <2>2, <3>2 DEF again
  <2>5. Failed(source[b]) => Waiting(source'[b])
    BY <2>1, <2>2 DEF Again, Waiting, Job
  <2> QED
    BY <2>3, <2>4, <2>5 DEF Waiting, Failed
<1>6. CountedAttempts'
  BY <1>1, <1>3, <1>5 DEF History, CountedAttempts
<1>7. FirstExecutions'
  <2> SUFFICES ASSUME NEW b \in Batches PROVE FirstExecution(b)'
    BY DEF FirstExecutions
  <2>1. FirstExecution(b)
    BY DEF History, FirstExecutions
  <2>2. \A t \in TasksOf(b) : attempts[t] \in Nat
    BY <1>1 DEF TasksOf
  <2>3. ~MissingBeforeModel(b)'
    BY <1>5 DEF MissingBeforeModel
  <2>4. /\ source'[b].executions = 0 => source[b].executions = 0
        /\ source'[b].executions = 1 => source[b].executions \in {0, 1}
        /\ recovery[b].executions <= recovery'[b].executions
    BY <1>1, <1>5
  <2>5. \A t \in TasksOf(b) :
          attempts[t] <= recovery[b].executions => attempts[t] <= recovery'[b].executions
    BY <1>1, <1>5, <2>2, <2>4
  <2> QED
    BY <1>3, <2>1, <2>3, <2>4, <2>5 DEF FirstExecution, TasksOf
<1>8. Reports'
  BY <1>3, <1>4, <1>5 DEF History, Reports, Uploaded
<1>9. FirstAttempt'
  BY <1>3 DEF History, TypeOK, FirstAttempt
<1> QED
  BY <1>6, <1>7, <1>8, <1>9 DEF History

\* Every step keeps the history.
LEMMA NextHistory == History /\ [Next]_vars => History'
<1> SUFFICES ASSUME History, [Next]_vars PROVE History'
  OBVIOUS
<1>1. TypeOK'
  BY NextType DEF History
<1>2. CASE GenerationJobs
  <2>1. PICK b \in Batches : SourceFailsEarly(b) \/ SourceReports(b) \/ SourceLost(b)
    BY <1>2 DEF GenerationJobs
  <2>2. PICK how \in Endings, reached \in BOOLEAN : SourceEnds(b, how, reached)
    BY <2>1, SourceEffect DEF History
  <2> QED
    BY <1>1, <2>2, SourceHistory
<1>3. CASE PlannerFails \/ \E seen \in SUBSET Batches : PlannerRuns(seen)
  BY <1>1, <1>3, PlannerHistory
<1>4. CASE RecoveryJobs
  BY <1>1, <1>4, RecoveryHistory DEF RecoveryJobs
<1>5. CASE ReRunFailedJobs
  BY <1>1, <1>5, ReRunHistory
<1>6. CASE (\E seen, seenRec \in SUBSET Batches : Admit(seen, seenRec)) \/ UNCHANGED vars
  <2>1. UNCHANGED <<attempt, source, fragment, receipt, planner, manifest, recovery, attempts>>
    BY <1>6 DEF Admit, vars, sourceVars, plannerVars, recoveryVars
  <2> QED
    BY <1>1, <2>1 DEF History, CountedAttempts, FirstExecutions, FirstExecution, MissingBeforeModel,
                      Reports, FirstAttempt, Uploaded, TasksOf
<1> QED
  BY <1>2, <1>3, <1>4, <1>5, <1>6 DEF Next

\* There is no history yet.
LEMMA InitHistory == Init => History
<1> SUFFICES ASSUME Init PROVE History
  OBVIOUS
<1>1. /\ \A b \in Batches : source[b] = NotRun /\ recovery[b] = NotRun
      /\ planner = NotRun
      /\ \A t \in Tasks : BatchOf[t] \in Batches
  BY PlanAssumption DEF Init
<1>2. NotRun.executions = 0 /\ NotRun.conclusion = "none"
  BY DEF NotRun
<1>3. \A t \in Tasks : attempts[t] = 0 /\ receipt[t] = "none"
  BY DEF Init
<1>4. \A b \in Batches : fragment[b] = "missing"
  BY DEF Init
<1> QED
  BY <1>1, <1>2, <1>3, <1>4, InitType
     DEF History, CountedAttempts, FirstExecutions, FirstExecution, Reports, FirstAttempt, RunOnce,
         Waiting, TasksOf, MissingBeforeModel

\* The history is kept always.
LEMMA HistoryHolds == Spec => []History
  BY InitHistory, NextHistory, PTL DEF Spec

-----------------------------------------------------------------------------
(* What an accepted population consists of. *)

\* The admission accepts only what it can account for: a task that was not recovered
\* has a readable source report with an accepted receipt.
LEMMA AcceptsAccounts ==
  ASSUME NEW seen \in SUBSET Batches, NEW seenRec \in SUBSET Batches,
         Accepts(seen, seenRec), NEW t \in Tasks, t \notin Recovered(seenRec)
  PROVE  fragment[BatchOf[t]] = "good" /\ receipt[t] = "accepted"
<1> DEFINE b == BatchOf[t]
           done == Recovered(seenRec)
<1>0. b \in Batches
  BY PlanAssumption
<1>1. \A r \in Reasons(seen) : Cleared(r, seen, done)
  BY DEF Accepts
<1> HIDE DEF done
<1>2. b \in seen
  <2> SUFFICES ASSUME b \notin seen PROVE FALSE
    OBVIOUS
  <2>1. <<"fragment", b>> \in Reasons(seen)
    BY <1>0 DEF Reasons
  <2>2. Cleared(<<"fragment", b>>, seen, done)
    BY <1>1, <2>1
  <2>3. b \in RecoveredShards(done)
    BY <2>2 DEF Cleared
  <2> QED
    BY <2>3 DEF RecoveredShards, TasksOf, done
<1>3. b \in Readable(seen)
  <2> SUFFICES ASSUME b \notin Readable(seen) PROVE FALSE
    OBVIOUS
  <2>1. <<"configuration", b>> \in Reasons(seen)
    BY <1>2 DEF Reasons
  <2>2. Cleared(<<"configuration", b>>, seen, done)
    BY <1>1, <2>1
  <2> QED
    BY <2>2 DEF Cleared
<1>4. receipt[t] = "accepted"
  <2> SUFFICES ASSUME receipt[t] # "accepted" PROVE FALSE
    OBVIOUS
  <2>1. <<"task", t, receipt[t]>> \in Reasons(seen)
    BY <1>3 DEF Reasons
  <2>2. Cleared(<<"task", t, receipt[t]>>, seen, done)
    BY <1>1, <2>1
  <2> QED
    BY <2>2 DEF Cleared, done
<1> QED
  BY <1>3, <1>4 DEF Readable

\* Every admitted job ran once, and a task of the plan was made eligible by what its one
\* source execution left.
LEMMA AcceptsPlanned ==
  ASSUME History, NEW seen \in SUBSET Batches, NEW seenRec \in SUBSET Batches,
         Accepts(seen, seenRec), NEW t \in manifest.tasks
  PROVE  LET b == BatchOf[t] IN
         /\ t \in Tasks /\ b \in Batches
         /\ source[b].executions = 1 /\ recovery[b].executions = 1
         /\ \/ b \in seen /\ receipt[t] = "transport"
            \/ b \in seen /\ receipt[t] = "environment" /\ attempts[t] <= 1
            \/ b \notin seen /\ fragment[b] = "missing" /\ receipt[t] = "none" /\ attempts[t] <= 1
<1> DEFINE b == BatchOf[t]
<1>1. t \in Tasks /\ b \in Batches /\ t \in TasksOf(b)
  BY PlanAssumption DEF History, TypeOK, TasksOf
<1>2. source[b].executions = 1
  BY <1>1 DEF Accepts, OneExecutionEach
<1>3. recovery[b].executions = 1
  BY <1>1 DEF Accepts, RecoveryJobsAdmit, RecoveryBatches
<1>4. FirstExecution(b)
  BY <1>1 DEF History, FirstExecutions
<1>5. manifest.tasks = Eligible(seen)
  BY DEF Accepts, ManifestReproduces, RecoveryPlan
<1>6. \/ b \in Readable(seen) /\ receipt[t] \in {"environment", "transport"}
      \/ b \notin seen /\ MissingBeforeModel(b)
  BY <1>5 DEF Eligible, Recoverable
<1>7. receipt[t] = "environment" => attempts[t] <= 1
  BY <1>1, <1>2, <1>3, <1>4 DEF FirstExecution
<1>8. MissingBeforeModel(b) => fragment[b] = "missing" /\ receipt[t] = "none" /\ attempts[t] <= 1
  BY <1>1, <1>2, <1>3, <1>4 DEF FirstExecution
<1> QED
  BY <1>1, <1>2, <1>3, <1>6, <1>7, <1>8 DEF Readable

\* The inductive invariant: an accepted run has no job left to wait for, or the properties
\* would not survive a job that reports after the admission; and the history of the run.
Inv ==
  /\ History
  /\ Accepted => NeedsDone
  /\ AcceptedIsExact /\ AcceptedAttempts /\ AcceptedKeepsSource

\* A run is accepted by one step, the admission, and nothing happens to it afterwards.
LEMMA AcceptingStep ==
  ASSUME Accepted => NeedsDone, [Next]_vars, Accepted'
  PROVE  \/ Accepted /\ UNCHANGED vars
         \/ \E seen, seenRec \in SUBSET Batches :
              /\ Accepts(seen, seenRec) /\ report' = Report(Recovered(seenRec))
              /\ NeedsDone
              /\ UNCHANGED <<sourceVars, plannerVars, recoveryVars, attempts>>
<1>1. CASE Accepted
  <2>1. NeedsDone /\ admission = "accepted" /\ admission' = "accepted"
    BY <1>1 DEF Accepted
  <2>2. ~GenerationJobs
    BY <2>1 DEF GenerationJobs, SourceFailsEarly, SourceReports, SourceLost, NeedsDone, SourcesDone
  <2>3. ~PlannerFails /\ ~\E seen \in SUBSET Batches : PlannerRuns(seen)
    BY <2>1 DEF PlannerFails, PlannerRuns, NeedsDone
  <2>4. ~RecoveryJobs
    BY <2>1 DEF RecoveryJobs, RecoveryLost, RecoveryReports, NeedsDone
  <2>5. ~\E seen, seenRec \in SUBSET Batches : Admit(seen, seenRec)
    BY <2>1 DEF Admit
  <2>6. ~ReRunFailedJobs
    BY <2>1 DEF ReRunFailedJobs
  <2> QED
    BY <1>1, <2>2, <2>3, <2>4, <2>5, <2>6 DEF Next
<1>2. CASE ~Accepted
  <2>1. PICK seen \in SUBSET Batches, seenRec \in SUBSET Batches : Admit(seen, seenRec)
    BY <1>2 DEF Accepted, Next, vars, admissionVars, GenerationJobs, SourceFailsEarly, SourceReports,
                SourceLost, PlannerRuns, PlannerFails, RecoveryJobs, RecoveryLost, RecoveryReports,
                ReRunFailedJobs
  <2>2. /\ Accepts(seen, seenRec) /\ report' = Report(Recovered(seenRec)) /\ NeedsDone
        /\ UNCHANGED <<sourceVars, plannerVars, recoveryVars, attempts>>
    BY <2>1 DEF Admit, Accepted, plannerVars
  <2> QED
    BY <2>2
<1> QED
  BY <1>1, <1>2

\* What the admission accepts satisfies the three properties: first the records,
LEMMA AcceptsExact ==
  ASSUME NEW seen \in SUBSET Batches, NEW seenRec \in SUBSET Batches, Accepts(seen, seenRec),
         report' = Report(Recovered(seenRec)), UNCHANGED <<sourceVars, recoveryVars>>
  PROVE  AcceptedIsExact'
<1> SUFFICES ASSUME NEW t \in Tasks
             PROVE  \/ /\ report'[t] = "source"
                       /\ fragment'[BatchOf[t]] = "good" /\ receipt'[t] = "accepted"
                    \/ /\ report'[t] = "recovery"
                       /\ recFragment'[BatchOf[t]] = "good" /\ recReceipt'[t] = "accepted"
  BY DEF AcceptedIsExact
<1>1. CASE t \in Recovered(seenRec)
  BY <1>1 DEF Report, Recovered, recoveryVars
<1>2. CASE t \notin Recovered(seenRec)
  BY <1>2, AcceptsAccounts DEF Report, sourceVars
<1> QED
  BY <1>1, <1>2

\* then the model attempts,
LEMMA AcceptsAttempts ==
  ASSUME History, NEW seen \in SUBSET Batches, NEW seenRec \in SUBSET Batches,
         Accepts(seen, seenRec), UNCHANGED <<sourceVars, attempts>>
  PROVE  AcceptedAttempts'
<1> SUFFICES ASSUME NEW t \in Tasks
             PROVE  attempts[t] <= IF receipt[t] = "transport" THEN 2 ELSE 1
  BY DEF AcceptedAttempts, sourceVars
<1> DEFINE b == BatchOf[t]
<1>1. /\ b \in Batches /\ attempts[t] \in Nat
      /\ source[b].executions = 1
  BY Counters DEF History, Accepts, OneExecutionEach
<1>2. /\ attempts[t] <= 1 + recovery[b].executions
      /\ t \notin manifest.tasks => attempts[t] <= 1
  BY <1>1 DEF History, CountedAttempts
<1>3. CASE t \in manifest.tasks
  <2>1. /\ recovery[b].executions = 1
        /\ receipt[t] = "transport" \/ attempts[t] <= 1
    BY <1>3, AcceptsPlanned
  <2> QED
    BY <1>1, <1>2, <2>1
<1>4. CASE t \notin manifest.tasks
  BY <1>1, <1>2, <1>4
<1> QED
  BY <1>3, <1>4

\* and where each record came from.
LEMMA AcceptsSource ==
  ASSUME History, NEW seen \in SUBSET Batches, NEW seenRec \in SUBSET Batches,
         Accepts(seen, seenRec), report' = Report(Recovered(seenRec)),
         UNCHANGED <<sourceVars, plannerVars>>
  PROVE  AcceptedKeepsSource'
<1>1. ASSUME NEW t \in Tasks, report'[t] = "recovery"
      PROVE  t \in manifest.tasks /\ receipt[t] # "accepted"
  <2>1. t \in manifest.tasks
    BY <1>1 DEF Report, Recovered
  <2> QED
    BY <2>1, AcceptsPlanned
<1>2. ASSUME NEW b \in Uploaded(fragment), <<"fragment", b>> \in manifest.reasons
      PROVE  FALSE
  <2>1. <<"fragment", b>> \in Reasons(seen)
    BY <1>2 DEF Accepts, ManifestReproduces, RecoveryPlan
  <2>2. b \in Batches /\ b \notin seen
    BY <2>1 DEF Reasons, Uploaded
  <2>3. b \in RecoveredShards(Recovered(seenRec))
    <3>1. Cleared(<<"fragment", b>>, seen, Recovered(seenRec))
      BY <2>1 DEF Accepts
    <3> QED
      BY <3>1 DEF Cleared
  <2>4. PICK t \in Tasks : BatchOf[t] = b
    BY <2>2, BatchesAssumption
  <2>5. t \in manifest.tasks
    BY <2>3, <2>4 DEF RecoveredShards, Recovered, TasksOf
  <2>6. fragment[b] = "missing"
    BY <2>2, <2>4, <2>5, AcceptsPlanned
  <2> QED
    BY <1>2, <2>6 DEF Uploaded
<1> QED
  BY <1>1, <1>2 DEF AcceptedKeepsSource, Uploaded, sourceVars, plannerVars

\* Every step keeps the invariant.
LEMMA NextInv == Inv /\ [Next]_vars => Inv'
<1> SUFFICES ASSUME Inv, [Next]_vars PROVE Inv'
  OBVIOUS
<1>1. History'
  BY NextHistory DEF Inv
<1>2. CASE ~Accepted'
  BY <1>1, <1>2 DEF Inv, AcceptedIsExact, AcceptedAttempts, AcceptedKeepsSource
<1>3. CASE Accepted /\ UNCHANGED vars
  BY <1>1, <1>3
     DEF Inv, Accepted, NeedsDone, SourcesDone, RecoveryWaits, RecoveryBatches, AcceptedIsExact,
         AcceptedAttempts, AcceptedKeepsSource, Uploaded, vars, sourceVars, plannerVars, recoveryVars,
         admissionVars
<1>4. ASSUME NEW seen \in SUBSET Batches, NEW seenRec \in SUBSET Batches,
             Accepts(seen, seenRec), report' = Report(Recovered(seenRec)), NeedsDone,
             UNCHANGED <<sourceVars, plannerVars, recoveryVars, attempts>>
      PROVE  Inv'
  <2>1. NeedsDone'
    BY <1>4 DEF NeedsDone, SourcesDone, RecoveryWaits, RecoveryBatches, sourceVars, plannerVars,
                recoveryVars
  <2> QED
    BY <1>1, <1>4, <2>1, AcceptsExact, AcceptsAttempts, AcceptsSource DEF Inv
<1> QED
  BY <1>2, <1>3, <1>4, AcceptingStep DEF Inv

\* The invariant holds always.
LEMMA InvHolds == Spec => []Inv
<1>1. Init => Inv
  BY InitHistory DEF Init, Inv, Accepted, AcceptedIsExact, AcceptedAttempts, AcceptedKeepsSource
<1> QED
  BY <1>1, NextInv, PTL DEF Spec

\* An accepted population holds exactly one accepted record per planned task, whatever
\* the jobs, the downloads and the re-runs did.
THEOREM AcceptedIsExactHolds == Spec => []AcceptedIsExact
<1>1. Inv => AcceptedIsExact
  BY DEF Inv
<1> QED
  BY <1>1, InvHolds, PTL

\* In an accepted population every task had one model attempt, or a second after a
\* recoverable "transport" receipt, however often jobs were re-run and reports lost.
THEOREM AcceptedAttemptsHolds == Spec => []AcceptedAttempts
<1>1. Inv => AcceptedAttempts
  BY DEF Inv
<1> QED
  BY <1>1, InvHolds, PTL

\* An accepted population takes from recovery only planned tasks whose source attempt was
\* not accepted, by a plan frozen in sight of every uploaded source report.
THEOREM AcceptedKeepsSourceHolds == Spec => []AcceptedKeepsSource
<1>1. Inv => AcceptedKeepsSource
  BY DEF Inv
<1> QED
  BY <1>1, InvHolds, PTL

-----------------------------------------------------------------------------
(* What the admission may not refuse. *)

\* In a complete first attempt each of the admission's conditions is met.
LEMMA CompleteIsAccepted ==
  ASSUME History, Complete, planner' = planner
  PROVE  Accepts(Uploaded(fragment), Uploaded(recFragment))
<1> DEFINE seen == Uploaded(fragment)
           done == Recovered(Uploaded(recFragment))
<1>0. seen \in SUBSET Batches /\ Readable(seen) = seen /\ \A t \in Tasks : BatchOf[t] \in Batches
  BY Counters DEF History, Complete, Uploaded
<1>1. /\ planner.executions = 1 /\ planner.conclusion = "success"
      /\ \A b \in Batches : source[b].executions = 1
      /\ \A b \in Batches : recovery[b].conclusion = "success" => recovery[b].executions = 1
  BY DEF History, FirstAttempt, RunOnce, Complete, NeedsDone, SourcesDone, Waiting
<1>2. OneExecutionEach(seen)
  BY <1>1 DEF History, Reports, OneExecutionEach
<1>3. manifest.tasks = done
  <2>1. manifest.tasks \subseteq Tasks
    BY DEF History, TypeOK
  <2>2. \A t \in manifest.tasks : BatchOf[t] \in RecoveryBatches /\ BatchOf[t] \in Batches
    BY <1>0, <2>1 DEF RecoveryBatches
  <2> QED
    BY <2>2 DEF Recovered, Complete, Uploaded
<1>4. ManifestReproduces(seen)
  BY DEF Complete, ManifestReproduces
<1>5. \A b \in Batches \ seen : b \in RecoveredShards(done)
  <2> SUFFICES ASSUME NEW b \in Batches \ seen PROVE TasksOf(b) \subseteq manifest.tasks
    BY <1>3 DEF RecoveredShards
  <2>1. fragment[b] = "missing"
    BY DEF Uploaded
  <2>2. source[b].conclusion # "success"
    BY <2>1 DEF History, Reports
  <2> QED
    BY <2>2 DEF Complete
<1>6. \A r \in Reasons(seen) : Cleared(r, seen, done)
  <2>1. \A t \in Tasks : receipt[t] = "accepted" \/ t \in done
    BY <1>3 DEF Complete
  <2>2. \A t \in Tasks : t \in done \/ BatchOf[t] \in Readable(seen)
    BY <1>0, <1>5 DEF RecoveredShards, TasksOf
  <2>3. gates
    BY DEF Complete
  <2> HIDE DEF done, seen
  <2>4. ASSUME NEW b \in Batches \ seen PROVE Cleared(<<"fragment", b>>, seen, done)
    BY <1>5 DEF Cleared
  <2>5. Cleared(<<"fragments", Cardinality(seen)>>, seen, done)
    BY <1>5 DEF Cleared
  <2>6. ASSUME NEW t \in Tasks, receipt[t] # "accepted"
        PROVE  Cleared(<<"task", t, receipt[t]>>, seen, done)
    BY <2>1, <2>6 DEF Cleared
  <2>7. Cleared(<<"population">>, seen, done)
    BY <2>2 DEF Cleared
  <2>8. Cleared(<<"ci-jobs", {b \in Batches : source[b].conclusion # "success"}>>, seen, done)
    BY DEF Cleared
  <2>9. ASSUME NEW r \in Reasons(seen)
        PROVE  \/ \E b \in Batches \ seen : r = <<"fragment", b>>
               \/ r = <<"fragments", Cardinality(seen)>>
               \/ \E t \in Tasks : receipt[t] # "accepted" /\ r = <<"task", t, receipt[t]>>
               \/ r = <<"population">>
               \/ r = <<"ci-jobs", {b \in Batches : source[b].conclusion # "success"}>>
    BY <1>0, <2>3, <2>9 DEF Reasons
  <2> QED
    BY <2>4, <2>5, <2>6, <2>7, <2>8, <2>9
<1>7. JobsAdmit({b \in RecoveryBatches : TasksOf(b) \subseteq manifest.tasks})
  <2> SUFFICES ASSUME NEW b \in Batches, TasksOf(b) \subseteq manifest.tasks
               PROVE  b \in RecoveryBatches
    BY <1>1 DEF JobsAdmit, Complete
  <2> QED
    BY BatchesAssumption DEF RecoveryBatches, TasksOf
<1>8. RecoveryJobsAdmit
  <2>1. RecoveryBatches \subseteq Batches
    BY <1>0 DEF RecoveryBatches, History, TypeOK
  <2> QED
    BY <1>1, <2>1 DEF RecoveryJobsAdmit, Complete
<1> QED
  BY <1>2, <1>3, <1>4, <1>6, <1>7, <1>8 DEF Accepts

\* A first attempt whose only gaps were eligible and recovered is accepted once the
\* admission sees everything: no leftover reason keeps it out.
THEOREM GapsCloseOnceHolds == Spec => GapsCloseOnce
<1>1. History /\ [Next]_vars =>
        [Complete /\ Admit(Uploaded(fragment), Uploaded(recFragment)) => Accepted']_vars
  <2> SUFFICES ASSUME History, Complete, Admit(Uploaded(fragment), Uploaded(recFragment))
               PROVE  Accepted'
    OBVIOUS
  <2>1. planner' = planner
    BY DEF Admit
  <2> QED
    BY <2>1, CompleteIsAccepted DEF Admit, Accepted
<1> QED
  BY <1>1, HistoryHolds, PTL DEF Spec, GapsCloseOnce

=============================================================================
