--------------------------- MODULE NodeRunsProofs ---------------------------
(***************************************************************************)
(* Theorems about the runs of the Node bundle, for every number of tasks,  *)
(* batches, dispatches and re-runs: each property of NodeRuns holds of     *)
(* every behaviour.  The inductive invariant says what a run was           *)
(* dispatched with stays true of the runs it names, what an admitted run   *)
(* may rely on while it is the one in progress, and which job made each    *)
(* call and each verdict.                                                  *)
(***************************************************************************)
EXTENDS NodeRuns, SequenceTheorems, FiniteSetTheorems, FunctionTheorems, TLAPS

(* What the listing holds, and what the steps make of it. *)

Config ==
  [pre : SUBSET Nat, source : Nat, recovered : SUBSET Nat, first : Nat,
   prior : SUBSET Declarations]

JobLists == [{} -> JobStates] \cup UNION {[Jobs(flow) -> JobStates] : flow \in Flows}

Run ==
  [flow : Flows, status : {"pending", "in_progress", "completed"},
   conclusion : {"none", "success", "failure", "cancelled"}, attempt : 1..2,
   jobs : JobLists, config : Config]

Typed == runs \in Seq(Run) /\ TypeOK

InProgress(r) == runs[r].status = "in_progress"

\* Runs are numbered.
LEMMA IdsType ==
  ASSUME runs \in Seq(Run)
  PROVE  /\ Len(runs) \in Nat
         /\ \A r \in Ids : r \in Nat \ {0} /\ runs[r] \in Run
<1>1. Len(runs) \in Nat
  BY LenProperties
<1>2. \A r \in Ids : runs[r] \in Run
  BY ElementOfSeq DEF Ids
<1> QED
  BY <1>1, <1>2 DEF Ids

\* The jobs of each workflow are ordered, the first one has no other before it.
LEMMA JobsType ==
  /\ "one" \in Flows /\ Jobs("one") = {First} /\ "recovery" \in Flows /\ Jobs("recovery") = {First}
  /\ \A b \in Batches : b \in Flows /\ b \notin {"one", "recovery"} /\ Jobs(b) \subseteq Tasks
  /\ \A flow \in Flows :
       /\ Jobs(flow) \subseteq {First} \cup Tasks /\ Jobs(flow) \subseteq Nat
       /\ FirstJob(flow) \in Jobs(flow)
       /\ \A j \in Jobs(flow) : FirstJob(flow) <= j
  /\ First \notin Tasks
<1>1. ASSUME NEW b \in Batches
      PROVE  /\ b \in Flows /\ b \notin {"one", "recovery"} /\ Jobs(b) \subseteq Tasks
             /\ FirstJob(b) \in Jobs(b) /\ \A j \in Jobs(b) : FirstJob(b) <= j
  <2>1. Batch[b].from \in Tasks /\ Batch[b].to \in Tasks /\ Batch[b].from <= Batch[b].to
    BY RunsAssumption
  <2> QED
    BY <2>1, RunsAssumption DEF Jobs, FirstJob, Tasks, Flows
<1>2. /\ "one" \notin Batches /\ "recovery" \notin Batches
      /\ First \notin Tasks /\ First \in Nat /\ Tasks \subseteq Nat
  BY RunsAssumption DEF Tasks, First
<1>3. ASSUME NEW flow \in {"one", "recovery"}
      PROVE  flow \in Flows /\ Jobs(flow) = {First} /\ FirstJob(flow) = First
  BY <1>2 DEF Jobs, FirstJob, Flows
<1>4. ASSUME NEW flow \in Flows
      PROVE  /\ Jobs(flow) \subseteq {First} \cup Tasks
             /\ FirstJob(flow) \in Jobs(flow) /\ \A j \in Jobs(flow) : FirstJob(flow) <= j
  <2>1. CASE flow \in Batches
    BY <1>1, <2>1
  <2>2. CASE flow \in {"one", "recovery"}
    <3>1. Jobs(flow) = {First} /\ FirstJob(flow) = First /\ First <= First
      BY <1>3, <2>2 DEF First
    <3> QED
      BY <3>1
  <2> QED
    BY <2>1, <2>2 DEF Flows
<1>5. \A flow \in Flows : Jobs(flow) \subseteq Nat
  BY <1>2, <1>4
<1> QED
  BY <1>1, <1>2, <1>3, <1>4, <1>5

\* A step that gives one listed run another entry leaves the others as they are.
Kept(r) ==
  /\ runs' \in Seq(Run) /\ Len(runs') = Len(runs)
  /\ \A q \in Ids \ {r} : runs'[q] = runs[q]
  /\ runs'[r].flow = runs[r].flow /\ runs'[r].config = runs[r].config

\* A run has changed, but neither its workflow nor its configuration.
LEMMA UpdateRun ==
  ASSUME runs \in Seq(Run), NEW r \in Ids, NEW new \in Run,
         new.flow = runs[r].flow, new.config = runs[r].config,
         runs' = [runs EXCEPT ![r] = new]
  PROVE  Kept(r) /\ runs'[r] = new
<1>1. r \in 1..Len(runs)
  BY DEF Ids
<1>2. /\ [runs EXCEPT ![r] = new] \in Seq(Run)
      /\ Len([runs EXCEPT ![r] = new]) = Len(runs)
      /\ \A j \in 1 .. Len(runs) : [runs EXCEPT ![r] = new][j] = IF j = r THEN new ELSE runs[j]
  BY <1>1, ExceptSeq
<1> QED
  BY <1>1, <1>2 DEF Kept, Ids

\* The entry of a run whose jobs are those of its workflow.
JobsOf(r) == DOMAIN runs[r].jobs = Jobs(runs[r].flow)

\* A run that has begun lists every job of its workflow.
LEMMA ListedJobs ==
  ASSUME runs \in Seq(Run), NEW r \in Ids, JobsOf(r)
  PROVE  runs[r].jobs \in [Jobs(runs[r].flow) -> JobStates]
<1>1. runs[r].jobs \in JobLists
  BY IdsType DEF Run
<1>2. runs[r].jobs \in [DOMAIN runs[r].jobs -> JobStates]
  BY <1>1 DEF JobLists
<1> QED
  BY <1>2 DEF JobsOf

\* Any list of states of those jobs is one GitHub can show.
LEMMA ListsOfJobs ==
  ASSUME NEW flow \in Flows, NEW list \in [Jobs(flow) -> JobStates]
  PROVE  list \in JobLists
  BY DEF JobLists

\* Goto: one job is at another command.
LEMMA GotoRun ==
  ASSUME runs \in Seq(Run), NEW r \in Ids, JobsOf(r), NEW j \in Jobs(runs[r].flow),
         NEW stage \in JobStates, Goto(r, j, stage)
  PROVE  /\ Kept(r)
         /\ runs'[r].status = runs[r].status /\ runs'[r].conclusion = runs[r].conclusion
         /\ runs'[r].attempt = runs[r].attempt
         /\ runs'[r].jobs = [runs[r].jobs EXCEPT ![j] = stage]
<1> DEFINE list == [runs[r].jobs EXCEPT ![j] = stage]
           new == [runs[r] EXCEPT !.jobs = list]
<1>1. runs[r] \in Run /\ runs[r].flow \in Flows
  BY IdsType DEF Run
<1>2. list \in JobLists
  BY <1>1, ListedJobs, ListsOfJobs
<1>3. new \in Run
  BY <1>1, <1>2 DEF Run
<1>4. /\ new.flow = runs[r].flow /\ new.config = runs[r].config
      /\ new.status = runs[r].status /\ new.conclusion = runs[r].conclusion
      /\ new.attempt = runs[r].attempt /\ new.jobs = list
  BY <1>1 DEF Run
<1>5. runs' = [runs EXCEPT ![r] = new]
  BY DEF Goto
<1> HIDE DEF new
<1> QED
  BY <1>3, <1>4, <1>5, UpdateRun

\* Fail: the run is over, and the jobs that were waiting are skipped.
LEMMA FailRun ==
  ASSUME runs \in Seq(Run), NEW r \in Ids, JobsOf(r), NEW j \in Jobs(runs[r].flow),
         runs[r].jobs[j] \in Running, Fail(r, j)
  PROVE  /\ Kept(r)
         /\ runs'[r].status = "completed" /\ runs'[r].conclusion = "failure"
         /\ runs'[r].attempt = runs[r].attempt
         /\ JobsOf(r)'
         /\ \A i \in Jobs(runs[r].flow) :
              runs'[r].jobs[i] = IF i = j THEN "failure"
                                 ELSE IF runs[r].jobs[i] = "queued" THEN "skipped"
                                 ELSE runs[r].jobs[i]
<1> DEFINE old == runs[r].jobs
           list == [i \in DOMAIN old |-> CASE i = j -> "failure"
                                          [] old[i] = "queued" -> "skipped"
                                          [] OTHER -> old[i]]
           new == [runs[r] EXCEPT !.status = "completed", !.conclusion = "failure", !.jobs = list]
<1>1. runs[r] \in Run /\ runs[r].flow \in Flows
  BY IdsType DEF Run
<1>2. old \in [Jobs(runs[r].flow) -> JobStates] /\ DOMAIN old = Jobs(runs[r].flow)
  BY ListedJobs DEF JobsOf
<1>3. \A i \in Jobs(runs[r].flow) :
        list[i] = IF i = j THEN "failure" ELSE IF old[i] = "queued" THEN "skipped" ELSE old[i]
  <2> SUFFICES ASSUME NEW i \in DOMAIN old
               PROVE  list[i] = IF i = j THEN "failure"
                                ELSE IF old[i] = "queued" THEN "skipped" ELSE old[i]
    BY <1>2
  <2>1. CASE i = j
    BY <2>1 DEF Running
  <2>2. CASE i # j /\ old[i] = "queued"
    BY <2>2
  <2>3. CASE i # j /\ old[i] # "queued"
    BY <2>3
  <2> QED
    BY <2>1, <2>2, <2>3
<1>4. list \in [Jobs(runs[r].flow) -> JobStates]
  BY <1>2, <1>3 DEF JobStates
<1>5. list \in JobLists
  BY <1>1, <1>4, ListsOfJobs
<1> HIDE DEF list
<1>6. new \in Run
  <2>1. 2 \in 1..2 /\ "failure" \in {"none", "success", "failure", "cancelled"}
    OBVIOUS
  <2> QED
    BY <1>1, <1>5, <2>1 DEF Run
<1>7. /\ new.flow = runs[r].flow /\ new.config = runs[r].config
      /\ new.status = "completed" /\ new.conclusion = "failure"
      /\ new.attempt = runs[r].attempt /\ new.jobs = list
  BY <1>1 DEF Run
<1>8. runs' = [runs EXCEPT ![r] = new]
  BY DEF Fail, list
<1> HIDE DEF new
<1>9. Kept(r) /\ runs'[r] = new
  BY <1>6, <1>7, <1>8, UpdateRun
<1> QED
  BY <1>3, <1>4, <1>7, <1>9 DEF JobsOf, Kept

\* Succeed: the next job of the chain is at work, or the run has succeeded.
LEMMA SucceedRun ==
  ASSUME runs \in Seq(Run), NEW r \in Ids, JobsOf(r), NEW j \in Jobs(runs[r].flow), Succeed(r, j)
  PROVE  /\ Kept(r) /\ JobsOf(r)' /\ runs'[r].attempt = runs[r].attempt
         /\ \/ /\ j + 1 \in Jobs(runs[r].flow)
               /\ runs'[r].status = runs[r].status /\ runs'[r].conclusion = runs[r].conclusion
               /\ \A i \in Jobs(runs[r].flow) :
                    runs'[r].jobs[i] = IF i = j THEN "success"
                                       ELSE IF i = j + 1 THEN "prepare"
                                       ELSE runs[r].jobs[i]
               /\ won' = won
            \/ /\ j + 1 \notin Jobs(runs[r].flow)
               /\ runs'[r].status = "completed" /\ runs'[r].conclusion = "success"
               /\ \A i \in Jobs(runs[r].flow) :
                    runs'[r].jobs[i] = IF i = j THEN "success" ELSE runs[r].jobs[i]
               /\ won' = won \cup {r}
<1> DEFINE old == runs[r].jobs
           flow == runs[r].flow
<1>1. runs[r] \in Run /\ flow \in Flows
  BY IdsType DEF Run
<1>2. old \in [Jobs(flow) -> JobStates] /\ DOMAIN old = Jobs(flow)
  BY ListedJobs DEF JobsOf
<1>3. CASE j + 1 \in Jobs(flow)
  <2> DEFINE list == [old EXCEPT ![j] = "success", ![j + 1] = "prepare"]
             new == [runs[r] EXCEPT !.jobs = list]
  <2>1. list \in [Jobs(flow) -> JobStates]
    BY <1>2 DEF JobStates, Running
  <2>2. \A i \in Jobs(flow) :
          list[i] = IF i = j THEN "success" ELSE IF i = j + 1 THEN "prepare" ELSE old[i]
    <3>1. j # j + 1
      BY <1>1, JobsType
    <3> QED
      BY <1>2, <1>3, <3>1
  <2>3. runs' = [runs EXCEPT ![r] = new] /\ won' = won
    BY <1>2, <1>3 DEF Succeed
  <2> HIDE DEF list
  <2>4. list \in JobLists
    BY <1>1, <2>1, ListsOfJobs
  <2>5. new \in Run
    BY <1>1, <2>4 DEF Run
  <2>6. /\ new.flow = runs[r].flow /\ new.config = runs[r].config
        /\ new.status = runs[r].status /\ new.conclusion = runs[r].conclusion
        /\ new.attempt = runs[r].attempt /\ new.jobs = list
    BY <1>1 DEF Run
  <2> HIDE DEF new
  <2>7. Kept(r) /\ runs'[r] = new
    BY <2>3, <2>5, <2>6, UpdateRun
  <2> QED
    BY <1>3, <2>1, <2>2, <2>3, <2>6, <2>7 DEF JobsOf, Kept
<1>4. CASE j + 1 \notin Jobs(flow)
  <2> DEFINE list == [old EXCEPT ![j] = "success"]
             new == [runs[r] EXCEPT !.status = "completed", !.conclusion = "success",
                                    !.jobs = list]
  <2>1. list \in [Jobs(flow) -> JobStates]
    BY <1>2 DEF JobStates
  <2>2. \A i \in Jobs(flow) : list[i] = IF i = j THEN "success" ELSE old[i]
    BY <1>2
  <2>3. runs' = [runs EXCEPT ![r] = new] /\ won' = won \cup {r}
    <3>1. runs \in [Ids -> Run]
      BY LenProperties DEF Ids
    <3>2. /\ runs' = [runs EXCEPT ![r].status = "completed", ![r].conclusion = "success",
                                  ![r].jobs[j] = "success"]
          /\ won' = won \cup {r}
      BY <1>2, <1>4 DEF Succeed
    <3>3. [runs EXCEPT ![r].status = "completed", ![r].conclusion = "success",
                       ![r].jobs[j] = "success"] = [runs EXCEPT ![r] = new]
      BY <1>1, <3>1 DEF Run
    <3> QED
      BY <3>2, <3>3
  <2> HIDE DEF list
  <2>4. list \in JobLists
    BY <1>1, <2>1, ListsOfJobs
  <2>5. new \in Run
    BY <1>1, <2>4 DEF Run
  <2>6. /\ new.flow = runs[r].flow /\ new.config = runs[r].config
        /\ new.status = "completed" /\ new.conclusion = "success"
        /\ new.attempt = runs[r].attempt /\ new.jobs = list
    BY <1>1 DEF Run
  <2> HIDE DEF new
  <2>7. Kept(r) /\ runs'[r] = new
    BY <2>3, <2>5, <2>6, UpdateRun
  <2> QED
    BY <1>4, <2>1, <2>2, <2>3, <2>6, <2>7 DEF JobsOf, Kept
<1> QED
  BY <1>3, <1>4

\* A pending run is cancelled before any of its jobs started.
LEMMA UnstartedRun ==
  ASSUME NEW run \in Run, NEW c \in Unstarted(run)
  PROVE  /\ c \in Run /\ c.flow = run.flow /\ c.config = run.config /\ c.attempt = run.attempt
         /\ c.status = "completed" /\ c.conclusion = "cancelled"
         /\ DOMAIN c.jobs \in {{}, Jobs(run.flow)}
<1>1. PICK js \in {<<>>, [j \in Jobs(run.flow) |-> "cancelled"]} :
        c = [run EXCEPT !.status = "completed", !.conclusion = "cancelled", !.jobs = js]
  BY DEF Unstarted
<1>2. js \in JobLists /\ DOMAIN js \in {{}, Jobs(run.flow)}
  <2>1. run.flow \in Flows
    BY DEF Run
  <2>2. CASE js = [j \in Jobs(run.flow) |-> "cancelled"]
    <3>1. js \in [Jobs(run.flow) -> JobStates]
      BY <2>2 DEF JobStates
    <3> QED
      BY <2>1, <2>2, <3>1, ListsOfJobs
  <2>3. CASE js = <<>>
    BY <2>3 DEF JobLists
  <2> QED
    BY <2>2, <2>3
<1> HIDE DEF JobLists
<1> QED
  BY <1>1, <1>2 DEF Run

\* Start: the first job prepares, the others wait.
LEMMA StartRun ==
  ASSUME runs \in Seq(Run), NEW r \in Ids, Start(r)
  PROVE  /\ Kept(r) /\ JobsOf(r)'
         /\ runs'[r].status = "in_progress" /\ runs'[r].conclusion = runs[r].conclusion
         /\ runs'[r].attempt = runs[r].attempt
         /\ \A i \in Jobs(runs[r].flow) :
              runs'[r].jobs[i] = IF i = FirstJob(runs[r].flow) THEN "prepare" ELSE "queued"
<1> DEFINE list == NewJobs(runs[r].flow)
           new == [runs[r] EXCEPT !.status = "in_progress", !.jobs = list]
<1>1. runs[r] \in Run /\ runs[r].flow \in Flows
  BY IdsType DEF Run
<1>2. /\ list \in [Jobs(runs[r].flow) -> JobStates]
      /\ \A i \in Jobs(runs[r].flow) :
           list[i] = IF i = FirstJob(runs[r].flow) THEN "prepare" ELSE "queued"
  BY DEF NewJobs, JobStates, Running
<1>3. runs' = [runs EXCEPT ![r] = new]
  <2>1. runs \in [Ids -> Run]
    BY LenProperties DEF Ids
  <2>2. runs' = [runs EXCEPT ![r].status = "in_progress", ![r].jobs = list]
    BY DEF Start
  <2> HIDE DEF list
  <2> QED
    BY <1>1, <2>1, <2>2 DEF Run
<1> HIDE DEF list
<1>4. list \in JobLists
  BY <1>1, <1>2, ListsOfJobs
<1>5. new \in Run
  BY <1>1, <1>4 DEF Run
<1>6. /\ new.flow = runs[r].flow /\ new.config = runs[r].config
      /\ new.status = "in_progress" /\ new.conclusion = runs[r].conclusion
      /\ new.attempt = runs[r].attempt /\ new.jobs = list
  BY <1>1 DEF Run
<1> HIDE DEF new
<1>7. Kept(r) /\ runs'[r] = new
  BY <1>3, <1>5, <1>6, UpdateRun
<1> QED
  BY <1>2, <1>6, <1>7 DEF JobsOf, Kept

\* Cancel: nothing of the run is at work any more.
LEMMA CancelRun ==
  ASSUME runs \in Seq(Run), NEW r \in Ids, Cancel(r), InProgress(r) => JobsOf(r)
  PROVE  /\ Kept(r) /\ runs'[r].attempt = runs[r].attempt
         /\ runs'[r].status = "completed" /\ runs'[r].conclusion = "cancelled"
         /\ DOMAIN runs'[r].jobs \in {{}, Jobs(runs[r].flow)}
         /\ runs[r].status # "completed"
<1>1. runs[r] \in Run /\ runs[r].flow \in Flows
  BY IdsType DEF Run
<1>2. CASE runs[r].status = "pending"
  <2>1. PICK c \in Unstarted(runs[r]) : runs' = [runs EXCEPT ![r] = c]
    BY <1>2 DEF Cancel
  <2>2. /\ c \in Run /\ c.flow = runs[r].flow /\ c.config = runs[r].config
        /\ c.attempt = runs[r].attempt /\ c.status = "completed" /\ c.conclusion = "cancelled"
        /\ DOMAIN c.jobs \in {{}, Jobs(runs[r].flow)}
    BY <1>1, UnstartedRun
  <2>3. Kept(r) /\ runs'[r] = c
    BY <2>1, <2>2, UpdateRun
  <2> QED
    BY <1>2, <2>2, <2>3
<1>3. CASE runs[r].status # "pending"
  <2> DEFINE old == runs[r].jobs
             flow == runs[r].flow
             list(j, rest) == [i \in DOMAIN old |-> CASE i = j -> "cancelled"
                                                      [] old[i] = "queued" -> rest
                                                      [] OTHER -> old[i]]
  <2>1. InProgress(r) /\ JobsOf(r)
    BY <1>3 DEF Cancel, InProgress
  <2>2. old \in [Jobs(flow) -> JobStates] /\ DOMAIN old = Jobs(flow)
    BY <2>1, ListedJobs DEF JobsOf
  <2>3. PICK j \in DOMAIN old, rest \in {"cancelled", "skipped"} :
          /\ old[j] \in Running
          /\ runs' = [runs EXCEPT
               ![r].status = "completed", ![r].conclusion = "cancelled",
               ![r].jobs = [i \in DOMAIN @ |-> CASE i = j -> "cancelled"
                                                [] @[i] = "queued" -> rest
                                                [] OTHER -> @[i]]]
    BY <1>3 DEF Cancel
  <2>4. list(j, rest) \in [Jobs(flow) -> JobStates]
    <3> SUFFICES ASSUME NEW i \in DOMAIN old
                 PROVE  list(j, rest)[i] \in JobStates
      BY <2>2
    <3>1. old[i] \in JobStates
      BY <2>2
    <3>2. CASE i = j
      BY <2>3, <3>2 DEF Running, JobStates
    <3>3. CASE i # j /\ old[i] = "queued"
      BY <3>3 DEF JobStates
    <3>4. CASE i # j /\ old[i] # "queued"
      BY <3>1, <3>4
    <3> QED
      BY <3>2, <3>3, <3>4
  <2> DEFINE mine == list(j, rest)
             new == [runs[r] EXCEPT !.status = "completed", !.conclusion = "cancelled",
                                    !.jobs = mine]
  <2>5. mine \in JobLists /\ DOMAIN mine = Jobs(flow)
    BY <1>1, <2>4, ListsOfJobs
  <2>6. runs' = [runs EXCEPT ![r] = new]
    BY <2>3
  <2> HIDE DEF mine
  <2>7. new \in Run
    BY <1>1, <2>5 DEF Run
  <2>8. /\ new.flow = runs[r].flow /\ new.config = runs[r].config
        /\ new.status = "completed" /\ new.conclusion = "cancelled"
        /\ new.attempt = runs[r].attempt /\ new.jobs = mine
    BY <1>1 DEF Run
  <2> HIDE DEF new
  <2>9. Kept(r) /\ runs'[r] = new
    BY <2>6, <2>7, <2>8, UpdateRun
  <2> QED
    BY <2>1, <2>5, <2>8, <2>9 DEF InProgress
<1> QED
  BY <1>2, <1>3

\* A re-run run has failed, and is listed with attempt 2.
LEMMA ReRunRun ==
  ASSUME runs \in Seq(Run), NEW r \in Ids, ReRun(r)
  PROVE  /\ Kept(r) /\ JobsOf(r)'
         /\ runs'[r].status = "completed" /\ runs'[r].conclusion = "failure"
         /\ runs'[r].attempt = 2 /\ runs[r].status = "completed"
<1> DEFINE flow == runs[r].flow
           list == [j \in Jobs(flow) |-> IF j = FirstJob(flow) THEN "failure" ELSE "skipped"]
           new == [runs[r] EXCEPT !.attempt = 2, !.conclusion = "failure", !.jobs = list]
<1>1. runs[r] \in Run /\ flow \in Flows /\ runs[r].status = "completed"
  BY IdsType DEF Run, ReRun
<1>2. list \in [Jobs(flow) -> JobStates]
  BY DEF JobStates
<1>3. runs' = [runs EXCEPT ![r] = new]
  <2>1. runs \in [Ids -> Run]
    BY LenProperties DEF Ids
  <2>2. runs' = [runs EXCEPT ![r].attempt = 2, ![r].conclusion = "failure", ![r].jobs = list]
    BY <1>1, <2>1 DEF ReRun, Run
  <2> HIDE DEF list
  <2> QED
    BY <1>1, <2>1, <2>2 DEF Run
<1>4. DOMAIN list = Jobs(flow)
  OBVIOUS
<1> HIDE DEF list
<1>5. list \in JobLists
  BY <1>1, <1>2, ListsOfJobs
<1>6. new \in Run
  <2>1. 2 \in 1..2 /\ "failure" \in {"none", "success", "failure", "cancelled"}
    OBVIOUS
  <2> QED
    BY <1>1, <1>5, <2>1 DEF Run
<1>7. /\ new.flow = runs[r].flow /\ new.config = runs[r].config
      /\ new.status = "completed" /\ new.conclusion = "failure"
      /\ new.attempt = 2 /\ new.jobs = list
  BY <1>1 DEF Run
<1> HIDE DEF new
<1>8. Kept(r) /\ runs'[r] = new
  BY <1>3, <1>6, <1>7, UpdateRun
<1> QED
  BY <1>1, <1>4, <1>7, <1>8 DEF JobsOf, Kept

------------------------------------------------------------------------------
(* What a run is dispatched with. *)

\* What a declaration says is true of the run it names, which is over: it is said of the run
\* as it ended, and so only as long as the run is listed with attempt 1.
TrueDeclaration(d) ==
  /\ d.run \in Ids /\ runs[d.run].flow \in Batches /\ runs[d.run].status = "completed"
  /\ d.task # First => Called(d.run, d.task)
  /\ d.pending => d.task # First
  /\ d.as = "cancelled" => Attempts(d.run) = {}
  /\ d.as = "failed" /\ Completed(d.run, "failure") =>
       Attempts(d.run) \cap FailedJobs(d.run) \subseteq {d.task}

TrueConfig(flow, c) ==
  /\ flow \notin Batches => c.prior = {} /\ c.first = NoRun
  /\ \A q \in c.pre : q \in Of("one") /\ runs[q].status = "completed" /\ ~Called(q, First)
  /\ flow = "recovery" =>
       c.source \in Of("one") /\ <<c.source, First>> \in calls \cap uploaded
  /\ \A d \in c.prior : TrueDeclaration(d)
  /\ \A d, e \in c.prior : d.run = e.run => d = e

\* Of lists runs of its workflow.
LEMMA OfType ==
  ASSUME runs \in Seq(Run)
  PROVE  /\ \A flow : Of(flow) \subseteq Ids /\ Of(flow) \subseteq Nat
         /\ \A flow, r : r \in Of(flow) => runs[r].flow = flow
  BY IdsType DEF Of

\* What can be declared of a run is true of it.
LEMMA ShapesTrue ==
  ASSUME Typed, NEW flow \in Batches, NEW r \in Of(flow), NEW d \in Shapes(r)
  PROVE  d \in Declarations /\ TrueDeclaration(d) /\ d.run = r
<1>1. /\ r \in Ids /\ r \in Nat \ {0} /\ runs[r] \in Run /\ runs[r].flow \in Batches
      /\ runs[r].conclusion # "none" => runs[r].status = "completed"
      /\ DOMAIN runs[r].jobs \subseteq Tasks
  BY IdsType, OfType, JobsType DEF Typed, TypeOK
<1>2. Attempts(r) \subseteq Tasks
  BY <1>1, JobsType DEF Attempts
<1>3. CASE runs[r].conclusion = "failure"
  <2>1. d \in FailureShapes(r)
    BY <1>3 DEF Shapes
  <2>2. PICK s \in {{}, SucceededJobs(r)}, t \in {First} \cup Attempts(r) :
          /\ Attempts(r) \cap FailedJobs(r) \subseteq {t}
          /\ d = [run |-> r, as |-> "failed", succeeded |-> s, task |-> t,
                  pending |-> t # First /\ ~Judged(r, t)]
    BY <2>1 DEF FailureShapes
  <2>3. /\ d.run = r /\ d.as = "failed" /\ d.task = t
        /\ d.pending => t # First
    BY <2>2
  <2>4. t # First => Called(r, t)
    BY DEF Attempts
  <2>5. s \subseteq Tasks
    BY <1>1 DEF SucceededJobs
  <2>6. d \in Declarations
    <3> DEFINE pending == t # First /\ ~Judged(r, t)
    <3>1. pending \in BOOLEAN
      OBVIOUS
    <3> HIDE DEF pending
    <3>2. d = [run |-> r, as |-> "failed", succeeded |-> s, task |-> t, pending |-> pending]
      BY <2>2 DEF pending
    <3> QED
      BY <1>1, <1>2, <2>5, <3>1, <3>2 DEF Declarations
  <2> QED
    BY <1>1, <1>3, <2>2, <2>3, <2>4, <2>6 DEF TrueDeclaration
<1>4. CASE runs[r].conclusion = "cancelled"
  <2>1. d \in CancelledShapes(r)
    BY <1>4 DEF Shapes
  <2>2. /\ Attempts(r) = {}
        /\ d = [run |-> r, as |-> "cancelled", succeeded |-> {}, task |-> First,
                pending |-> FALSE]
    BY <2>1 DEF CancelledShapes
  <2>3. d.run = r /\ d.as = "cancelled" /\ d.task = First /\ d.pending = FALSE
    BY <2>2
  <2>4. d \in Declarations
    BY <1>1, <2>2 DEF Declarations
  <2> QED
    BY <1>1, <1>4, <2>2, <2>3, <2>4 DEF TrueDeclaration
<1>5. CASE runs[r].conclusion \notin {"failure", "cancelled"}
  BY <1>5 DEF Shapes
<1> QED
  BY <1>3, <1>4, <1>5

\* What can be committed is true when it is committed.
LEMMA ConfigsTrue ==
  ASSUME Typed, NEW flow \in Flows, NEW c \in Configs(flow)
  PROVE  c \in Config /\ IsConfig(c) /\ TrueConfig(flow, c)
<1>1. /\ \A q \in PreModel : q \in Of("one") /\ runs[q].status = "completed" /\ ~Called(q, First)
  <2> SUFFICES ASSUME NEW q \in PreModel
               PROVE  q \in Of("one") /\ runs[q].status = "completed" /\ ~Called(q, First)
    OBVIOUS
  <2>1. q \in Of("one") /\ runs[q].conclusion = "failure" /\ Attempts(q) = {}
    BY DEF PreModel, Failed
  <2>2. q \in Ids /\ runs[q].flow = "one"
    BY <2>1, OfType DEF Typed
  <2>3. runs[q].status = "completed"
    BY <2>1, <2>2 DEF Typed, TypeOK
  <2> QED
    BY <2>1, <2>2, <2>3, JobsType DEF Attempts
<1>2. /\ PreModel \subseteq Ids /\ PreModel \subseteq Nat
      /\ Failed("recovery") \subseteq Ids /\ Failed("recovery") \subseteq Nat
  BY OfType DEF PreModel, Failed, Typed
<1>3. CASE flow \in Batches
  <2>1. c \in BatchConfigs(flow)
    BY <1>3, JobsType DEF Configs
  <2>2. PICK f \in {NoRun} \cup Of("recovery"), p \in SUBSET Declarable(flow) :
          /\ c = BatchConfig(f, p)
          /\ \A d, e \in p : d.run = e.run => d = e
    BY <2>1 DEF BatchConfigs
  <2>3. \A d \in p : d \in Declarations /\ TrueDeclaration(d)
    BY <1>3, ShapesTrue DEF Declarable
  <2>4. c.pre = {} /\ c.source = NoRun /\ c.recovered = {} /\ c.first = f /\ c.prior = p
    BY <2>2 DEF BatchConfig, Nothing
  <2>5. f \in {NoRun} \cup Ids /\ f \in Nat
    BY OfType DEF Typed, NoRun
  <2>6. c \in Config
    BY <2>2, <2>3, <2>5 DEF BatchConfig, Nothing, Config, NoRun
  <2> QED
    BY <1>3, <2>2, <2>3, <2>4, <2>5, <2>6, JobsType DEF IsConfig, TrueConfig
<1>4. CASE flow = "one"
  <2>1. PICK p \in SUBSET PreModel : c = [Nothing EXCEPT !.pre = p]
    BY <1>4, JobsType DEF Configs, OneConfigs
  <2>2. c.pre = p /\ c.source = NoRun /\ c.recovered = {} /\ c.first = NoRun /\ c.prior = {}
    BY <2>1 DEF Nothing
  <2>3. c \in Config
    BY <1>2, <2>1 DEF Nothing, Config, NoRun
  <2> QED
    BY <1>1, <1>2, <1>4, <2>2, <2>3 DEF IsConfig, TrueConfig
<1>5. CASE flow = "recovery"
  <2>1. PICK p \in SUBSET PreModel, s \in {s \in Failed("one") : Interrupted(s)},
             d \in SUBSET Failed("recovery") : c = RecoveryConfig(p, s, d)
    BY <1>5, JobsType DEF Configs, RecoveryConfigs
  <2>2. c.pre = p /\ c.source = s /\ c.recovered = d /\ c.first = NoRun /\ c.prior = {}
    BY <2>1 DEF RecoveryConfig, Nothing
  <2>3. s \in Of("one") /\ s \in Ids /\ s \in Nat /\ <<s, First>> \in calls \cap uploaded
    BY OfType DEF Interrupted, Failed, Typed
  <2>4. c \in Config
    BY <1>2, <2>1, <2>3 DEF RecoveryConfig, Nothing, Config, NoRun
  <2> QED
    BY <1>1, <1>2, <1>5, <2>2, <2>3, <2>4 DEF IsConfig, TrueConfig
<1> QED
  BY <1>3, <1>4, <1>5 DEF Flows

\* Dispatch: one more run, pending, and what was pending before it is cancelled.
LEMMA DispatchRun ==
  ASSUME Typed, NEW flow \in Flows, Dispatch(flow)
  PROVE  /\ runs' \in Seq(Run) /\ Len(runs') = Len(runs) + 1
         /\ \A q \in Ids :
              \/ runs'[q] = runs[q]
              \/ /\ runs[q].status = "pending"
                 /\ runs'[q].flow = runs[q].flow /\ runs'[q].config = runs[q].config
                 /\ runs'[q].attempt = runs[q].attempt
                 /\ runs'[q].status = "completed" /\ runs'[q].conclusion = "cancelled"
                 /\ DOMAIN runs'[q].jobs \in {{}, Jobs(runs[q].flow)}
         /\ \E c \in Configs(flow) :
              runs'[Len(runs) + 1] = [flow |-> flow, status |-> "pending", conclusion |-> "none",
                                      attempt |-> 1, jobs |-> <<>>, config |-> c]
<1>1. PICK c \in Configs(flow), rs \in Superseding :
        runs' = Append(rs, [flow |-> flow, status |-> "pending", conclusion |-> "none",
                            attempt |-> 1, jobs |-> <<>>, config |-> c])
  BY DEF Dispatch
<1> DEFINE new == [flow |-> flow, status |-> "pending", conclusion |-> "none",
                   attempt |-> 1, jobs |-> <<>>, config |-> c]
           superseded ==
             /\ rs \in Seq(Run) /\ Len(rs) = Len(runs)
             /\ \A q \in Ids :
                  \/ rs[q] = runs[q]
                  \/ /\ runs[q].status = "pending"
                     /\ rs[q].flow = runs[q].flow /\ rs[q].config = runs[q].config
                     /\ rs[q].attempt = runs[q].attempt
                     /\ rs[q].status = "completed" /\ rs[q].conclusion = "cancelled"
                     /\ DOMAIN rs[q].jobs \in {{}, Jobs(runs[q].flow)}
<1>2. new \in Run
  <2>1. <<>> \in JobLists
    BY DEF JobLists
  <2>2. c \in Config
    BY ConfigsTrue
  <2> QED
    BY <2>1, <2>2 DEF Run
<1>3. superseded
  <2>1. CASE rs = runs
    BY <2>1 DEF Typed
  <2>2. ASSUME rs # runs
        PROVE  \E q \in Ids : \E u \in Unstarted(runs[q]) :
                 runs[q].status = "pending" /\ rs = [runs EXCEPT ![q] = u]
    BY <2>2 DEF Superseding
  <2>3. ASSUME NEW q \in Ids, NEW u \in Unstarted(runs[q]), runs[q].status = "pending",
               rs = [runs EXCEPT ![q] = u]
        PROVE  superseded
    <3>1. runs[q] \in Run
      BY IdsType DEF Typed
    <3>2. /\ u \in Run /\ u.flow = runs[q].flow /\ u.config = runs[q].config
          /\ u.attempt = runs[q].attempt /\ u.status = "completed" /\ u.conclusion = "cancelled"
          /\ DOMAIN u.jobs \in {{}, Jobs(runs[q].flow)}
      BY <3>1, UnstartedRun
    <3>3. /\ [runs EXCEPT ![q] = u] \in Seq(Run)
          /\ Len([runs EXCEPT ![q] = u]) = Len(runs)
          /\ \A j \in 1 .. Len(runs) : [runs EXCEPT ![q] = u][j] = IF j = q THEN u ELSE runs[j]
      BY <3>2, ExceptSeq DEF Typed, Ids
    <3> QED
      BY <2>3, <3>2, <3>3 DEF Ids
  <2> QED
    BY <2>1, <2>2, <2>3
<1>4. /\ Append(rs, new) \in Seq(Run)
      /\ Len(Append(rs, new)) = Len(rs) + 1
      /\ \A i \in 1..Len(rs) : Append(rs, new)[i] = rs[i]
      /\ Append(rs, new)[Len(rs) + 1] = new
  BY <1>2, <1>3, AppendProperties
<1> HIDE DEF new
<1>5. runs' = Append(rs, new)
  BY <1>1 DEF new
<1>6. \A q \in Ids : runs'[q] = rs[q]
  BY <1>3, <1>4, <1>5 DEF Ids
<1>7. runs'[Len(runs) + 1] = new /\ runs' \in Seq(Run) /\ Len(runs') = Len(runs) + 1
  BY <1>3, <1>4, <1>5
<1> QED
  BY <1>3, <1>6, <1>7 DEF new

------------------------------------------------------------------------------
(* The inductive invariant. *)

Past == {"generate", "model", "evaluate", "publish"}

\* The group lets one run at a time work.
OneInProgress == \A q, r \in Ids : InProgress(q) /\ InProgress(r) => q = r

TrueConfigs == \A r \in Ids : TrueConfig(runs[r].flow, runs[r].config)

\* The jobs of a run in progress: one at work, those before it done, the rest waiting.
Chain(r) ==
  \E k \in Jobs(runs[r].flow) : \A i \in Jobs(runs[r].flow) :
    /\ i < k => runs[r].jobs[i] = "success"
    /\ i = k => runs[r].jobs[i] \in Running
    /\ i > k => runs[r].jobs[i] = "queued"

\* What admission has seen of the other runs, and what stays true while the run works.
Admitted(r) ==
  /\ won \cap Of(runs[r].flow) = {}
  /\ runs[r].config.first # NoRun => runs[r].config.first \in won \cap Of("recovery")

MayCall(r, j) ==
  \A q \in Of(runs[r].flow) \ {r} :
    Called(q, j) => j # First /\ SaysItIsOver(runs[r].config, q, j)

\* The attempts a verdict of this job might name.
Sources(r, j) ==
  IF runs[r].flow = "recovery" THEN {runs[r].config.source}
  ELSE IF FrozenPrior(runs[r].config, j) = {} THEN {r}
  ELSE FrozenPrior(runs[r].config, j)

SourceIsKnown(r, j) ==
  /\ Frozen(r, j)
  /\ \A s \in Sources(r, j) :
       /\ Called(s, j)
       /\ s # r => <<s, j>> \in uploaded /\ ~CallsModel(r, j)

\* What holds of a job at each of its commands.
Command(r, j) ==
  LET at == runs[r].jobs[j] IN
  /\ at \in Past => Admitted(r)
  /\ at = "generate" =>
       /\ CallsModel(r, j) => MayCall(r, j)
       /\ \A p, q \in FrozenPrior(runs[r].config, j) : p = q
  /\ at = "model" => CallsModel(r, j) /\ Called(r, j)
  /\ at = "evaluate" => SourceIsKnown(r, j)
  /\ at = "publish" => Judged(r, j)

Working(r) == JobsOf(r) /\ Chain(r) /\ \A j \in Jobs(runs[r].flow) : Command(r, j)

\* What a call tells of the run that made it.
Call(r, j) ==
  /\ j \in Jobs(runs[r].flow) /\ CallsModel(r, j)
  /\ runs[r].status # "pending"
  /\ InProgress(r) => runs[r].jobs[j] \in {"model", "evaluate", "publish", "success"}
  /\ Completed(r, "failure") => runs[r].jobs[j] \in {"success", "failure"}
  /\ runs[r].config.first # NoRun => runs[r].config.first \in won \cap Of("recovery")

Calls == \A r \in Ids : \A j \in {First} \cup Tasks : Called(r, j) => Call(r, j)

Wins ==
  /\ \A r \in Ids : runs[r].conclusion = "success" => r \in won
  /\ \A r \in won :
       /\ runs[r].status = "completed"
       /\ runs[r].attempt = 1 => runs[r].conclusion = "success"
       /\ runs[r].flow = "recovery" => Judged(r, First)
  /\ \A q, r \in won : runs[q].flow = runs[r].flow => q = r

Verdict(v) ==
  /\ Called(v[2], v[3]) /\ Frozen(v[1], v[3])
  /\ v[1] # v[2] => <<v[2], v[3]>> \in uploaded /\ ~CallsModel(v[1], v[3])

Verdicts == \A v \in verdicts : Verdict(v)

Inv ==
  /\ Typed /\ OneInProgress /\ TrueConfigs
  /\ \A r \in Ids : InProgress(r) => Working(r)
  /\ Calls /\ Wins /\ Verdicts

------------------------------------------------------------------------------
(* What every step leaves alone. *)

\* The listed runs keep what they were dispatched with; a run that is over stays over, and
\* as it was if it is still listed with attempt 1.  The history only grows.
Older ==
  /\ Ids \subseteq Ids'
  /\ \A q \in Ids :
       /\ runs'[q].flow = runs[q].flow /\ runs'[q].config = runs[q].config
       /\ runs[q].status = "completed" =>
            /\ runs'[q].status = "completed"
            /\ runs'[q].attempt = 1 => runs'[q] = runs[q]
            /\ \A t : Called(q, t)' => Called(q, t)
  /\ calls \subseteq calls' /\ frozen \subseteq frozen' /\ uploaded \subseteq uploaded'
  /\ verdicts \subseteq verdicts' /\ won \subseteq won'

\* What was committed stays true, because the runs it names are over.
LEMMA OlderConfig ==
  ASSUME Typed, Older, NEW flow, NEW c, TrueConfig(flow, c),
         NEW n \in Ids', runs'[n].flow = flow, runs'[n].config = c
  PROVE  TrueConfig(runs[n].flow, runs[n].config)'
<1>1. ASSUME NEW q \in Of("one") PROVE q \in Of("one")' /\ q \in Ids
  BY DEF Of, Older
<1>2. ASSUME NEW d \in c.prior PROVE TrueDeclaration(d)'
  <2>1. TrueDeclaration(d)
    BY DEF TrueConfig
  <2>2. /\ d.run \in Ids /\ runs[d.run].status = "completed"
        /\ d.run \in Ids' /\ runs'[d.run].flow \in Batches
    BY <2>1 DEF TrueDeclaration, Older
  <2>3. Attempts(d.run)' \subseteq Attempts(d.run)
    BY <2>2 DEF Attempts, Older
  <2>4. Completed(d.run, "failure")' =>
          Completed(d.run, "failure") /\ FailedJobs(d.run)' = FailedJobs(d.run)
    BY <2>2 DEF Completed, FailedJobs, Older
  <2>5. \A t : Called(d.run, t) => Called(d.run, t)'
    BY DEF Called, Older
  <2>6. runs'[d.run].status = "completed"
    BY <2>2 DEF Older
  <2> QED
    BY <2>1, <2>2, <2>3, <2>4, <2>5, <2>6 DEF TrueDeclaration
<1>3. ASSUME NEW q \in c.pre
      PROVE  q \in Of("one")' /\ runs'[q].status = "completed" /\ ~Called(q, First)'
  <2>1. q \in Of("one") /\ runs[q].status = "completed" /\ ~Called(q, First)
    BY DEF TrueConfig
  <2> QED
    BY <1>1, <2>1 DEF Older
<1> QED
  BY <1>1, <1>2, <1>3 DEF TrueConfig, Older

\* A verdict stays one of the run it names.
LEMMA OlderVerdict ==
  ASSUME Typed, Older, NEW v \in verdicts, Verdict(v)
  PROVE  Verdict(v)'
<1>1. v[1] \in Ids
  BY DEF Typed, TypeOK
<1>2. runs'[v[1]].flow = runs[v[1]].flow /\ runs'[v[1]].config = runs[v[1]].config
  BY <1>1 DEF Older
<1>3. CallsModel(v[1], v[3])' = CallsModel(v[1], v[3])
  BY <1>2 DEF CallsModel
<1> QED
  BY <1>3 DEF Verdict, Called, Frozen, Older

\* A step that changes the entry of one listed run.
Grows(r) ==
  /\ \A q, t : Called(q, t)' => Called(q, t) \/ q = r
  /\ calls \subseteq calls' /\ frozen \subseteq frozen' /\ uploaded \subseteq uploaded'
  /\ verdicts \subseteq verdicts' /\ won \subseteq won'

\* A step of one run leaves the others as they were.
LEMMA KeptIsOlder ==
  ASSUME NEW r \in Ids, Kept(r), Grows(r),
         runs[r].status = "completed" =>
           runs'[r].status = "completed" /\ runs'[r].attempt = 2 /\ UNCHANGED calls
  PROVE  Older /\ Ids' = Ids
<1>1. Ids' = Ids
  BY DEF Ids, Kept
<1>2. ASSUME NEW q \in Ids
      PROVE  /\ runs'[q].flow = runs[q].flow /\ runs'[q].config = runs[q].config
             /\ runs[q].status = "completed" =>
                  /\ runs'[q].status = "completed"
                  /\ runs'[q].attempt = 1 => runs'[q] = runs[q]
                  /\ \A t : Called(q, t)' => Called(q, t)
  <2>1. CASE q = r
    BY <2>1 DEF Kept, Called
  <2>2. CASE q # r
    BY <2>2 DEF Kept, Grows
  <2> QED
    BY <2>1, <2>2
<1> QED
  BY <1>1, <1>2 DEF Older, Grows

\* Such a step keeps the types.
LEMMA KeptTypes ==
  ASSUME Typed, NEW r \in Ids, Kept(r),
         (runs'[r].conclusion = "none") = (runs'[r].status # "completed"),
         DOMAIN runs'[r].jobs \in {{}, Jobs(runs[r].flow)},
         \A s \in {calls', frozen', uploaded'} : s \subseteq Ids \X ({First} \cup Tasks),
         verdicts' \subseteq Ids \X Ids \X ({First} \cup Tasks), won' \subseteq Ids
  PROVE  Typed'
<1>1. Ids' = Ids /\ runs' \in Seq(Run)
  BY DEF Ids, Kept
<1>2. \A q \in Ids : runs'[q] \in Run
  BY <1>1, ElementOfSeq DEF Ids
<1>3. ASSUME NEW q \in Ids
      PROVE  /\ runs'[q].flow \in Flows
             /\ runs'[q].status \in {"pending", "in_progress", "completed"}
             /\ runs'[q].conclusion \in {"none", "success", "failure", "cancelled"}
             /\ (runs'[q].conclusion = "none") = (runs'[q].status # "completed")
             /\ runs'[q].attempt \in 1..2
             /\ DOMAIN runs'[q].jobs \in {{}, Jobs(runs'[q].flow)}
             /\ \A j \in DOMAIN runs'[q].jobs : runs'[q].jobs[j] \in JobStates
             /\ IsConfig(runs[q].config)'
  <2>1. runs'[q] \in Run
    BY <1>2
  <2>2. \A j \in DOMAIN runs'[q].jobs : runs'[q].jobs[j] \in JobStates
    BY <2>1 DEF Run, JobLists
  <2>3. IsConfig(runs[q].config)'
    BY <1>1 DEF IsConfig, Typed, TypeOK, Kept
  <2>4. /\ (runs'[q].conclusion = "none") = (runs'[q].status # "completed")
        /\ DOMAIN runs'[q].jobs \in {{}, Jobs(runs'[q].flow)}
    <3>1. CASE q = r
      BY <3>1 DEF Kept
    <3>2. CASE q # r
      BY <3>2 DEF Kept, Typed, TypeOK
    <3> QED
      BY <3>1, <3>2
  <2> QED
    BY <2>1, <2>2, <2>3, <2>4 DEF Run
<1> QED
  BY <1>1, <1>3 DEF Typed, TypeOK

\* The attempt a verdict names is one of those it may be of.
LEMMA SourceIsOne == ASSUME NEW r, NEW j PROVE SourceOf(r, j) \in Sources(r, j)
<1>1. CASE runs[r].flow = "recovery"
  BY <1>1 DEF SourceOf, Sources
<1>2. CASE runs[r].flow # "recovery" /\ FrozenPrior(runs[r].config, j) = {}
  BY <1>2 DEF SourceOf, Sources
<1>3. CASE runs[r].flow # "recovery" /\ FrozenPrior(runs[r].config, j) # {}
  <2>1. SourceOf(r, j) = CHOOSE q \in FrozenPrior(runs[r].config, j) : TRUE
    BY <1>3 DEF SourceOf
  <2>2. (CHOOSE q \in FrozenPrior(runs[r].config, j) : TRUE) \in FrozenPrior(runs[r].config, j)
    BY <1>3
  <2> QED
    BY <1>3, <2>1, <2>2 DEF Sources
<1> QED
  BY <1>1, <1>2, <1>3

\* A step on the entry of one run: what the runs were dispatched with stays true, and so does
\* every verdict, and the calls of the others.
LEMMA KeptInv ==
  ASSUME Inv, NEW r \in Ids, Kept(r), Grows(r),
         runs[r].status = "completed" =>
           runs'[r].status = "completed" /\ runs'[r].attempt = 2 /\ UNCHANGED calls,
         \A v \in verdicts' \ verdicts : Verdict(v)'
  PROVE  /\ TrueConfigs' /\ Verdicts' /\ Ids' = Ids
         /\ \A flow : Of(flow)' = Of(flow)
         /\ \A q \in Ids \ {r} : \A t \in {First} \cup Tasks : Called(q, t)' => Call(q, t)'
<1>1. Older /\ Ids' = Ids
  BY KeptIsOlder
<1>2. TrueConfigs'
  <2> SUFFICES ASSUME NEW q \in Ids' PROVE TrueConfig(runs[q].flow, runs[q].config)'
    BY DEF TrueConfigs
  <2>1. TrueConfig(runs[q].flow, runs[q].config)
    BY <1>1 DEF Inv, TrueConfigs
  <2>2. runs'[q].flow = runs[q].flow /\ runs'[q].config = runs[q].config
    BY <1>1 DEF Older
  <2> QED
    BY <1>1, <2>1, <2>2, OlderConfig DEF Inv
<1>3. Verdicts'
  <2> SUFFICES ASSUME NEW v \in verdicts' PROVE Verdict(v)'
    BY DEF Verdicts
  <2>1. CASE v \in verdicts
    BY <1>1, <2>1, OlderVerdict DEF Inv, Verdicts
  <2> QED
    BY <2>1
<1>4. \A flow : Of(flow)' = Of(flow)
  BY <1>1 DEF Of, Older
<1>5. ASSUME NEW q \in Ids \ {r}, NEW t \in {First} \cup Tasks, Called(q, t)' PROVE Call(q, t)'
  <2>1. Called(q, t) /\ runs'[q] = runs[q]
    BY <1>5 DEF Grows, Kept
  <2>2. Call(q, t)
    BY <2>1 DEF Inv, Calls
  <2>3. won \subseteq won' /\ Of("recovery")' = Of("recovery")
    BY <1>4 DEF Grows
  <2> QED
    BY <2>1, <2>2, <2>3 DEF Call, CallsModel, InProgress, Completed
<1> QED
  BY <1>1, <1>2, <1>3, <1>4, <1>5

\* The run in progress is not disturbed by what happens to the entry of another one.
LEMMA KeptWorking ==
  ASSUME Inv, NEW r \in Ids, Kept(r), UNCHANGED <<calls, frozen, verdicts, won>>,
         uploaded \subseteq uploaded', NEW q \in Ids \ {r}, InProgress(q)'
  PROVE  Working(q)'
<1>1. /\ Ids' = Ids /\ runs'[q] = runs[q]
      /\ \A p \in Ids : runs'[p].flow = runs[p].flow
  BY DEF Kept, Ids
<1>2. \A flow : Of(flow)' = Of(flow)
  BY <1>1 DEF Of
<1>3. Working(q)
  BY <1>1 DEF Inv, InProgress
<1>4. ASSUME NEW j \in Jobs(runs[q].flow) PROVE Command(q, j)'
  <2>1. Command(q, j)
    BY <1>3 DEF Working
  <2>2. Admitted(q) => Admitted(q)'
    BY <1>1, <1>2 DEF Admitted
  <2>3. MayCall(q, j) => MayCall(q, j)'
    BY <1>1, <1>2 DEF MayCall, Called, SaysItIsOver
  <2>4. CallsModel(q, j)' = CallsModel(q, j) /\ Sources(q, j)' = Sources(q, j)
    BY <1>1 DEF CallsModel, Sources
  <2>5. SourceIsKnown(q, j) => SourceIsKnown(q, j)'
    BY <2>4 DEF SourceIsKnown, Called, Frozen
  <2> QED
    BY <1>1, <2>1, <2>2, <2>3, <2>4, <2>5 DEF Command, Called, Judged
<1> QED
  BY <1>1, <1>3, <1>4 DEF Working, JobsOf, Chain

\* A run that concludes neither way, or loses a conclusion it had to a re-run, wins nothing.
LEMMA KeptWins ==
  ASSUME Inv, NEW r \in Ids, Kept(r), Grows(r), won' = won, runs'[r].conclusion # "success",
         r \in won => runs'[r].status = "completed" /\ runs'[r].attempt = 2
  PROVE  Wins'
<1>1. Ids' = Ids /\ \A q \in Ids : runs'[q].flow = runs[q].flow
  BY DEF Kept, Ids
<1>2. \A q \in Ids : runs'[q].conclusion = "success" => q \in won'
  BY DEF Kept, Inv, Wins
<1>3. won \subseteq Ids
  BY DEF Inv, Typed, TypeOK
<1>4. ASSUME NEW q \in won
      PROVE  /\ runs'[q].status = "completed"
             /\ runs'[q].attempt = 1 => runs'[q].conclusion = "success"
             /\ runs'[q].flow = "recovery" => Judged(q, First)'
  <2>1. runs[q].flow = "recovery" => Judged(q, First)'
    BY DEF Inv, Wins, Judged, Grows
  <2>2. CASE q = r
    BY <1>1, <1>3, <2>1, <2>2
  <2>3. CASE q # r
    BY <1>3, <2>1, <2>3 DEF Kept, Inv, Wins
  <2> QED
    BY <2>2, <2>3
<1>5. \A q, p \in won : runs'[q].flow = runs'[p].flow => p = q
  BY <1>1, <1>3 DEF Inv, Wins
<1> QED
  BY <1>1, <1>2, <1>4, <1>5 DEF Wins

\* While a job is running, those before it succeeded and those after it wait.
LEMMA ChainAt ==
  ASSUME NEW r, Chain(r), runs[r].flow \in Flows, NEW j \in Jobs(runs[r].flow),
         runs[r].jobs[j] \in Running
  PROVE  \A i \in Jobs(runs[r].flow) :
           /\ i < j => runs[r].jobs[i] = "success"
           /\ i > j => runs[r].jobs[i] = "queued"
<1>1. PICK k \in Jobs(runs[r].flow) : \A i \in Jobs(runs[r].flow) :
        /\ i < k => runs[r].jobs[i] = "success"
        /\ i = k => runs[r].jobs[i] \in Running
        /\ i > k => runs[r].jobs[i] = "queued"
  BY DEF Chain
<1>2. Jobs(runs[r].flow) \subseteq Nat
  BY JobsType
<1>3. "success" \notin Running /\ "queued" \notin Running
  BY DEF Running
<1>4. ~(j < k) /\ ~(j > k)
  BY <1>1, <1>3
<1>5. j = k
  BY <1>2, <1>4
<1> QED
  BY <1>1, <1>5

\* The job at work, and what the rest of its run is meanwhile.
LEMMA JobAtWork ==
  ASSUME Inv, NEW r \in Ids, NEW j, NEW from \in Running, At(r, j, from)
  PROVE  /\ InProgress(r) /\ JobsOf(r) /\ j \in Jobs(runs[r].flow) /\ j \in {First} \cup Tasks
         /\ Jobs(runs[r].flow) \subseteq {First} \cup Tasks /\ Jobs(runs[r].flow) \subseteq Nat
         /\ runs \in Seq(Run) /\ runs[r] \in Run /\ runs[r].flow \in Flows
         /\ runs[r].jobs \in [Jobs(runs[r].flow) -> JobStates]
         /\ runs[r].status = "in_progress" /\ runs[r].conclusion = "none" /\ r \notin won
         /\ runs[r].jobs[j] \in Running /\ Command(r, j)
         /\ \A i \in Jobs(runs[r].flow) :
              /\ i < j => runs[r].jobs[i] = "success"
              /\ i > j => runs[r].jobs[i] = "queued"
<1>1. runs \in Seq(Run) /\ runs[r] \in Run /\ runs[r].flow \in Flows
  BY IdsType DEF Inv, Typed, Run
<1>2. j \in Jobs(runs[r].flow) /\ runs[r].jobs[j] = from /\ runs[r].status = "in_progress"
  BY DEF At
<1>3. InProgress(r) /\ Working(r)
  BY <1>2 DEF InProgress, Inv
<1>4. /\ Jobs(runs[r].flow) \subseteq {First} \cup Tasks
      /\ Jobs(runs[r].flow) \subseteq Nat
  BY <1>1, JobsType
<1>5. runs[r].conclusion = "none" /\ r \notin won
  BY <1>2 DEF Inv, Typed, TypeOK, Wins
<1>6. JobsOf(r) /\ Chain(r) /\ Command(r, j)
  BY <1>2, <1>3 DEF Working
<1>7. \A i \in Jobs(runs[r].flow) :
        /\ i < j => runs[r].jobs[i] = "success"
        /\ i > j => runs[r].jobs[i] = "queued"
  BY <1>1, <1>2, <1>6, ChainAt
<1> QED
  BY <1>1, <1>2, <1>3, <1>4, <1>5, <1>6, <1>7, ListedJobs

\* While one run is at work the others are not, and a step of it leaves that so.
LEMMA Alone ==
  ASSUME Inv, NEW r \in Ids, Kept(r), InProgress(r)
  PROVE  /\ OneInProgress' /\ \A q \in Ids \ {r} : ~InProgress(q)'
<1>1. Ids' = Ids
  BY DEF Kept, Ids
<1>2. \A q \in Ids \ {r} : ~InProgress(q)'
  BY DEF Inv, OneInProgress, Kept, InProgress
<1> QED
  BY <1>1, <1>2 DEF OneInProgress

\* The history of one job: what a step of it may add.
Adds(r, j) ==
  /\ calls \subseteq calls' /\ calls' \subseteq calls \cup {<<r, j>>}
  /\ frozen \subseteq frozen' /\ frozen' \subseteq frozen \cup {<<r, j>>}
  /\ uploaded \subseteq uploaded' /\ uploaded' \subseteq uploaded \cup {<<r, j>>}
  /\ verdicts \subseteq verdicts' /\ verdicts' \subseteq Ids \X Ids \X ({First} \cup Tasks)
  /\ \A v \in verdicts' \ verdicts : Verdict(v)'

\* What a job adds to the histories is of that job.
LEMMA AddsTypes ==
  ASSUME Inv, NEW r \in Ids, NEW j \in {First} \cup Tasks, Adds(r, j)
  PROVE  /\ \A s \in {calls', frozen', uploaded'} : s \subseteq Ids \X ({First} \cup Tasks)
         /\ verdicts' \subseteq Ids \X Ids \X ({First} \cup Tasks)
         /\ \A q, t : Called(q, t)' => Called(q, t) \/ (q = r /\ t = j)
         /\ \A q, t : Judged(q, t) => Judged(q, t)'
<1>1. \A s \in {calls, frozen, uploaded} : s \subseteq Ids \X ({First} \cup Tasks)
  BY DEF Inv, Typed, TypeOK
<1>2. <<r, j>> \in Ids \X ({First} \cup Tasks)
  OBVIOUS
<1> QED
  BY <1>1, <1>2 DEF Adds, Called, Judged

\* A job goes on to its next command.
LEMMA MoveInv ==
  ASSUME Inv, NEW r \in Ids, NEW j, NEW from \in Running, At(r, j, from),
         NEW stage \in Past, Goto(r, j, stage), Adds(r, j), won' = won,
         Called(r, j)' => CallsModel(r, j) /\ stage # "generate",
         Command(r, j)'
  PROVE  Inv'
<1>1. /\ InProgress(r) /\ JobsOf(r) /\ j \in Jobs(runs[r].flow) /\ j \in {First} \cup Tasks
      /\ Jobs(runs[r].flow) \subseteq {First} \cup Tasks /\ Jobs(runs[r].flow) \subseteq Nat
      /\ runs \in Seq(Run) /\ runs[r] \in Run /\ runs[r].flow \in Flows
      /\ runs[r].jobs \in [Jobs(runs[r].flow) -> JobStates]
      /\ runs[r].status = "in_progress" /\ runs[r].conclusion = "none" /\ r \notin won
      /\ \A i \in Jobs(runs[r].flow) :
              /\ i < j => runs[r].jobs[i] = "success"
              /\ i > j => runs[r].jobs[i] = "queued"
  BY JobAtWork
<1>2. stage \in Running /\ stage \in JobStates
  BY DEF Past, Running, JobStates
<1>3. /\ Kept(r)
      /\ runs'[r].status = "in_progress" /\ runs'[r].conclusion = "none"
      /\ runs'[r].attempt = runs[r].attempt
      /\ runs'[r].jobs = [runs[r].jobs EXCEPT ![j] = stage]
  BY <1>1, <1>2, GotoRun
<1>4. /\ runs'[r].jobs \in [Jobs(runs[r].flow) -> JobStates]
      /\ runs'[r].jobs[j] = stage
      /\ \A i \in Jobs(runs[r].flow) \ {j} : runs'[r].jobs[i] = runs[r].jobs[i]
  BY <1>1, <1>2, <1>3
<1>5. runs'[r].flow = runs[r].flow /\ runs'[r].config = runs[r].config
  BY <1>3 DEF Kept
<1>6. /\ \A s \in {calls', frozen', uploaded'} : s \subseteq Ids \X ({First} \cup Tasks)
      /\ verdicts' \subseteq Ids \X Ids \X ({First} \cup Tasks)
      /\ \A q, t : Called(q, t)' => Called(q, t) \/ (q = r /\ t = j)
      /\ \A q, t : Judged(q, t) => Judged(q, t)'
  BY <1>1, AddsTypes
<1>7. Grows(r)
  BY <1>6 DEF Grows, Adds
<1>8. /\ TrueConfigs' /\ Verdicts' /\ Ids' = Ids
      /\ \A flow : Of(flow)' = Of(flow)
      /\ \A q \in Ids \ {r} : \A t \in {First} \cup Tasks : Called(q, t)' => Call(q, t)'
  BY <1>1, <1>3, <1>7, KeptInv DEF Adds
<1>9. Typed'
  BY <1>1, <1>3, <1>4, <1>6, KeptTypes DEF Inv, Typed, TypeOK
<1>10. OneInProgress' /\ \A q \in Ids \ {r} : ~InProgress(q)'
  BY <1>1, <1>3, Alone
<1>11. Wins'
  BY <1>1, <1>3, <1>7, KeptWins
<1>12. Working(r)'
  <2>1. JobsOf(r)'
    BY <1>4, <1>5 DEF JobsOf
  <2>2. \A i \in Jobs(runs[r].flow) :
          /\ i < j => runs'[r].jobs[i] = "success"
          /\ i = j => runs'[r].jobs[i] \in Running
          /\ i > j => runs'[r].jobs[i] = "queued"
    BY <1>1, <1>2, <1>4
  <2>3. Chain(r)'
    BY <1>1, <1>5, <2>2 DEF Chain
  <2>4. ASSUME NEW i \in Jobs(runs[r].flow) PROVE Command(r, i)'
    <3>1. CASE i = j
      BY <3>1
    <3>2. CASE i # j
      <4>1. i < j \/ i > j
        BY <1>1, <3>2
      <4>2. runs'[r].jobs[i] \in {"success", "queued"}
        BY <2>2, <4>1
      <4> QED
        BY <4>2 DEF Command, Past
    <3> QED
      BY <3>1, <3>2
  <2> QED
    BY <1>5, <2>1, <2>3, <2>4 DEF Working
<1>13. ASSUME NEW i \in {First} \cup Tasks, Called(r, i)' PROVE Call(r, i)'
  <2>1. CASE i = j
    <3>1. CallsModel(r, j)' /\ stage \in {"model", "evaluate", "publish"}
      BY <1>5, <1>13, <2>1 DEF CallsModel, Past
    <3>2. Admitted(r)'
      BY <1>4 DEF Command
    <3>3. runs'[r].config.first # NoRun => runs'[r].config.first \in (won \cap Of("recovery"))'
      BY <3>2 DEF Admitted
    <3> QED
      BY <1>1, <1>3, <1>4, <1>5, <2>1, <3>1, <3>3 DEF Call, Completed, InProgress
  <2>2. CASE i # j
    <3>1. Call(r, i)
      BY <1>6, <1>13, <2>2 DEF Inv, Calls
    <3>2. runs'[r].jobs[i] = runs[r].jobs[i]
      BY <1>4, <2>2, <3>1 DEF Call
    <3>3. CallsModel(r, i)' = CallsModel(r, i)
      BY <1>5 DEF CallsModel
    <3> QED
      BY <1>1, <1>3, <1>5, <1>8, <3>1, <3>2, <3>3 DEF Call, Completed, InProgress
  <2> QED
    BY <2>1, <2>2
<1>14. Calls'
  BY <1>8, <1>13 DEF Calls
<1> QED
  BY <1>8, <1>9, <1>10, <1>11, <1>12, <1>14 DEF Inv

\* The job fails, and its run with it.
LEMMA FailInv ==
  ASSUME Inv, NEW r \in Ids, NEW j, NEW from \in Running, At(r, j, from),
         Fail(r, j), Adds(r, j), calls' = calls
  PROVE  Inv'
<1>1. /\ InProgress(r) /\ JobsOf(r) /\ j \in Jobs(runs[r].flow) /\ j \in {First} \cup Tasks
      /\ Jobs(runs[r].flow) \subseteq {First} \cup Tasks /\ Jobs(runs[r].flow) \subseteq Nat
      /\ runs \in Seq(Run) /\ runs[r] \in Run /\ runs[r].flow \in Flows
      /\ runs[r].status = "in_progress" /\ runs[r].conclusion = "none" /\ r \notin won
      /\ runs[r].jobs[j] \in Running
      /\ \A i \in Jobs(runs[r].flow) :
              /\ i < j => runs[r].jobs[i] = "success"
              /\ i > j => runs[r].jobs[i] = "queued"
  BY JobAtWork
<1>2. /\ Kept(r)
      /\ runs'[r].status = "completed" /\ runs'[r].conclusion = "failure"
      /\ runs'[r].attempt = runs[r].attempt /\ JobsOf(r)'
      /\ \A i \in Jobs(runs[r].flow) :
           runs'[r].jobs[i] = IF i = j THEN "failure"
                              ELSE IF runs[r].jobs[i] = "queued" THEN "skipped"
                              ELSE runs[r].jobs[i]
  BY <1>1, FailRun
<1>3. runs'[r].flow = runs[r].flow /\ runs'[r].config = runs[r].config /\ won' = won
  BY <1>2 DEF Kept, Fail
<1>4. /\ \A s \in {calls', frozen', uploaded'} : s \subseteq Ids \X ({First} \cup Tasks)
      /\ verdicts' \subseteq Ids \X Ids \X ({First} \cup Tasks)
      /\ \A q, t : Called(q, t)' => Called(q, t) \/ (q = r /\ t = j)
      /\ \A q, t : Judged(q, t) => Judged(q, t)'
  BY <1>1, AddsTypes
<1>5. Grows(r)
  BY <1>3, <1>4 DEF Grows, Adds
<1>6. /\ TrueConfigs' /\ Verdicts' /\ Ids' = Ids
      /\ \A flow : Of(flow)' = Of(flow)
      /\ \A q \in Ids \ {r} : \A t \in {First} \cup Tasks : Called(q, t)' => Call(q, t)'
  BY <1>1, <1>2, <1>5, KeptInv DEF Adds
<1>7. Typed'
  <2>1. DOMAIN runs'[r].jobs \in {{}, Jobs(runs[r].flow)}
    BY <1>2, <1>3 DEF JobsOf
  <2>2. won' \subseteq Ids
    BY <1>3 DEF Inv, Typed, TypeOK
  <2> QED
    BY <1>2, <1>4, <2>1, <2>2, KeptTypes DEF Inv
<1>8. OneInProgress' /\ \A q \in Ids : ~InProgress(q)'
  BY <1>1, <1>2, Alone DEF InProgress
<1>9. Wins'
  BY <1>1, <1>2, <1>3, <1>5, KeptWins
<1>10. ASSUME NEW i \in {First} \cup Tasks, Called(r, i)' PROVE Call(r, i)'
  <2>1. Call(r, i)
    BY <1>10 DEF Inv, Calls, Called
  <2>2. i \in Jobs(runs[r].flow) /\ runs[r].jobs[i] \in {"model", "evaluate", "publish", "success"}
    BY <1>1, <2>1 DEF Call
  <2>3. runs'[r].jobs[i] \in {"success", "failure"}
    <3>1. ~(i > j)
      BY <1>1, <2>2
    <3>2. i = j \/ i < j
      BY <1>1, <2>2, <3>1
    <3> QED
      BY <1>1, <1>2, <2>2, <3>2
  <2>4. CallsModel(r, i)' = CallsModel(r, i)
    BY <1>3 DEF CallsModel
  <2> QED
    BY <1>2, <1>3, <1>6, <1>8, <2>1, <2>3, <2>4 DEF Call
<1>11. Calls'
  BY <1>6, <1>10 DEF Calls
<1> QED
  BY <1>6, <1>7, <1>8, <1>9, <1>11 DEF Inv

\* The job succeeds: the next one of the chain prepares, or the run has won.
LEMMA SucceedInv ==
  ASSUME Inv, NEW r \in Ids, NEW j, At(r, j, "publish"), Succeed(r, j),
         UNCHANGED <<calls, frozen, verdicts>>
  PROVE  Inv'
<1>1. /\ InProgress(r) /\ JobsOf(r) /\ j \in Jobs(runs[r].flow) /\ j \in {First} \cup Tasks
      /\ Jobs(runs[r].flow) \subseteq {First} \cup Tasks /\ Jobs(runs[r].flow) \subseteq Nat
      /\ runs \in Seq(Run) /\ runs[r] \in Run /\ runs[r].flow \in Flows
      /\ runs[r].status = "in_progress" /\ runs[r].conclusion = "none" /\ r \notin won
      /\ Command(r, j)
      /\ \A i \in Jobs(runs[r].flow) :
              /\ i < j => runs[r].jobs[i] = "success"
              /\ i > j => runs[r].jobs[i] = "queued"
  <2>1. "publish" \in Running
    BY DEF Running
  <2> QED
    BY <2>1, JobAtWork
<1>2. Admitted(r) /\ Judged(r, j)
  BY <1>1 DEF At, Command, Past
<1>3. /\ Kept(r) /\ JobsOf(r)' /\ runs'[r].attempt = runs[r].attempt
      /\ \/ /\ j + 1 \in Jobs(runs[r].flow)
            /\ runs'[r].status = "in_progress" /\ runs'[r].conclusion = "none"
            /\ \A i \in Jobs(runs[r].flow) :
                 runs'[r].jobs[i] = IF i = j THEN "success"
                                    ELSE IF i = j + 1 THEN "prepare"
                                    ELSE runs[r].jobs[i]
            /\ won' = won
         \/ /\ j + 1 \notin Jobs(runs[r].flow)
            /\ runs'[r].status = "completed" /\ runs'[r].conclusion = "success"
            /\ \A i \in Jobs(runs[r].flow) :
                 runs'[r].jobs[i] = IF i = j THEN "success" ELSE runs[r].jobs[i]
            /\ won' = won \cup {r}
  BY <1>1, SucceedRun
<1>4. runs'[r].flow = runs[r].flow /\ runs'[r].config = runs[r].config
  BY <1>3 DEF Kept
<1>5. uploaded' = uploaded \cup {<<r, j>>} /\ UNCHANGED <<calls, frozen, verdicts>>
  BY DEF Succeed
<1>6. Adds(r, j)
  BY <1>5 DEF Adds, Inv, Typed, TypeOK
<1>7. /\ \A s \in {calls', frozen', uploaded'} : s \subseteq Ids \X ({First} \cup Tasks)
      /\ verdicts' \subseteq Ids \X Ids \X ({First} \cup Tasks)
      /\ \A q, t : Called(q, t)' => Called(q, t) \/ (q = r /\ t = j)
      /\ \A q, t : Judged(q, t) => Judged(q, t)'
  BY <1>1, <1>6, AddsTypes
<1>8. Grows(r)
  <2>1. won \subseteq won'
    BY <1>3
  <2> QED
    BY <1>6, <1>7, <2>1 DEF Grows, Adds
<1>9. /\ TrueConfigs' /\ Verdicts' /\ Ids' = Ids
      /\ \A flow : Of(flow)' = Of(flow)
      /\ \A q \in Ids \ {r} : \A t \in {First} \cup Tasks : Called(q, t)' => Call(q, t)'
  BY <1>1, <1>3, <1>6, <1>8, KeptInv DEF Adds
<1>10. Typed'
  <2>1. DOMAIN runs'[r].jobs \in {{}, Jobs(runs[r].flow)}
    BY <1>3, <1>4 DEF JobsOf
  <2>2. won' \subseteq Ids
    BY <1>3 DEF Inv, Typed, TypeOK
  <2>3. (runs'[r].conclusion = "none") = (runs'[r].status # "completed")
    BY <1>3
  <2> QED
    BY <1>3, <1>7, <2>1, <2>2, <2>3, KeptTypes DEF Inv
<1>11. OneInProgress' /\ \A q \in Ids \ {r} : ~InProgress(q)'
  BY <1>1, <1>3, Alone
<1>12. ASSUME NEW i \in {First} \cup Tasks, Called(r, i)' PROVE Call(r, i)'
  <2>1. Call(r, i)
    BY <1>5, <1>12 DEF Inv, Calls, Called
  <2>2. i \in Jobs(runs[r].flow) /\ runs[r].jobs[i] \in {"model", "evaluate", "publish", "success"}
    BY <1>1, <2>1 DEF Call
  <2>3. ~(i > j)
    BY <1>1, <2>2
  <2>4. i = j \/ (i < j /\ i # j /\ i # j + 1)
    BY <1>1, <2>2, <2>3
  <2>5. runs'[r].jobs[i] = "success"
    BY <1>1, <1>3, <2>2, <2>4
  <2>6. CallsModel(r, i)' = CallsModel(r, i)
    BY <1>4 DEF CallsModel
  <2>7. won \cap Of("recovery") \subseteq (won \cap Of("recovery"))'
    BY <1>8, <1>9 DEF Grows
  <2>8. runs'[r].status # "pending"
    BY <1>3
  <2> QED
    BY <1>4, <2>1, <2>2, <2>5, <2>6, <2>7, <2>8 DEF Call
<1>13. Calls'
  BY <1>9, <1>12 DEF Calls
<1>14. CASE j + 1 \in Jobs(runs[r].flow)
  <2>1. /\ runs'[r].conclusion = "none" /\ won' = won
        /\ \A i \in Jobs(runs[r].flow) :
             runs'[r].jobs[i] = IF i = j THEN "success"
                                ELSE IF i = j + 1 THEN "prepare"
                                ELSE runs[r].jobs[i]
    BY <1>3, <1>14
  <2>2. Wins'
    BY <1>1, <1>3, <1>8, <2>1, KeptWins
  <2>3. \A i \in Jobs(runs[r].flow) :
          /\ i < j + 1 => runs'[r].jobs[i] = "success"
          /\ i = j + 1 => runs'[r].jobs[i] = "prepare"
          /\ i > j + 1 => runs'[r].jobs[i] = "queued"
    <3> SUFFICES ASSUME NEW i \in Jobs(runs[r].flow)
                 PROVE  /\ i < j + 1 => runs'[r].jobs[i] = "success"
                        /\ i = j + 1 => runs'[r].jobs[i] = "prepare"
                        /\ i > j + 1 => runs'[r].jobs[i] = "queued"
      OBVIOUS
    <3>1. i \in Nat /\ j \in Nat
      BY <1>1
    <3>2. i = j + 1 => i # j
      BY <3>1
    <3>3. i < j + 1 => i = j \/ (i < j /\ i # j + 1)
      BY <3>1
    <3>4. i > j + 1 => i > j /\ i # j /\ i # j + 1
      BY <3>1
    <3> QED
      BY <1>1, <2>1, <3>2, <3>3, <3>4
  <2>4. Chain(r)'
    <3>1. \A i \in Jobs(runs[r].flow) :
            /\ i < j + 1 => runs'[r].jobs[i] = "success"
            /\ i = j + 1 => runs'[r].jobs[i] \in Running
            /\ i > j + 1 => runs'[r].jobs[i] = "queued"
      BY <2>3 DEF Running
    <3> QED
      BY <1>4, <1>14, <3>1 DEF Chain
  <2>5. ASSUME NEW i \in Jobs(runs[r].flow) PROVE Command(r, i)'
    <3>1. i < j + 1 \/ i = j + 1 \/ i > j + 1
      BY <1>1
    <3>2. runs'[r].jobs[i] \in {"success", "prepare", "queued"}
      BY <2>3, <3>1
    <3> QED
      BY <3>2 DEF Command, Past
  <2>6. Working(r)'
    BY <1>3, <1>4, <2>4, <2>5 DEF Working
  <2> QED
    BY <1>9, <1>10, <1>11, <1>13, <2>2, <2>6 DEF Inv
<1>15. CASE j + 1 \notin Jobs(runs[r].flow)
  <2>1. runs'[r].status = "completed" /\ runs'[r].conclusion = "success" /\ won' = won \cup {r}
    BY <1>3, <1>15
  <2>2. ~InProgress(r)'
    BY <2>1 DEF InProgress
  <2>3. Wins'
    <3>1. \A q \in Ids : runs'[q].flow = runs[q].flow
      BY <1>3 DEF Kept
    <3>2. \A q \in Ids : runs'[q].conclusion = "success" => q \in won'
      BY <1>3, <2>1 DEF Kept, Inv, Wins
    <3>3. won \subseteq Ids
      BY DEF Inv, Typed, TypeOK
    <3>4. ASSUME NEW q \in won'
          PROVE  /\ runs'[q].status = "completed"
                 /\ runs'[q].attempt = 1 => runs'[q].conclusion = "success"
                 /\ runs'[q].flow = "recovery" => Judged(q, First)'
      <4>1. CASE q = r
        <5>1. runs[r].flow = "recovery" => j = First
          BY <1>1, JobsType
        <5> QED
          BY <1>2, <1>4, <1>7, <2>1, <4>1, <5>1
      <4>2. CASE q # r
        BY <1>3, <1>7, <2>1, <3>3, <4>2 DEF Kept, Inv, Wins
      <4> QED
        BY <4>1, <4>2
    <3>5. ASSUME NEW q \in won', NEW p \in won', runs'[q].flow = runs'[p].flow PROVE p = q
      <4>1. q \in Ids /\ p \in Ids /\ runs[q].flow = runs[p].flow
        BY <1>9, <1>10, <3>1, <3>5 DEF Typed, TypeOK
      <4>2. won \cap Of(runs[r].flow) = {}
        BY <1>2 DEF Admitted
      <4>3. q \in won /\ p \in won => p = q
        BY <4>1 DEF Inv, Wins
      <4> QED
        BY <2>1, <4>1, <4>2, <4>3 DEF Of
    <3> QED
      BY <1>9, <3>2, <3>4, <3>5 DEF Wins
  <2> QED
    BY <1>9, <1>10, <1>11, <1>13, <2>2, <2>3 DEF Inv
<1> QED
  BY <1>14, <1>15

------------------------------------------------------------------------------
(* Admission. *)

\* A set of which any two members are equal has at most one, and conversely.
LEMMA AtMostOne ==
  ASSUME NEW S, IsFiniteSet(S)
  PROVE  Cardinality(S) <= 1 <=> \A x, y \in S : x = y
<1>1. ASSUME Cardinality(S) <= 1 PROVE \A x, y \in S : x = y
  <2>1. Cardinality(S) \in {0, 1}
    BY <1>1, FS_CardinalityType
  <2>2. CASE Cardinality(S) = 0
    BY <2>2, FS_EmptySet
  <2>3. CASE Cardinality(S) = 1
    <3>1. \E x : S = {x}
      BY <2>3, FS_Singleton
    <3> QED
      BY <3>1
  <2> QED
    BY <2>1, <2>2, <2>3
<1>2. ASSUME \A x, y \in S : x = y PROVE Cardinality(S) <= 1
  <2>1. CASE S = {}
    BY <2>1, FS_EmptySet
  <2>2. CASE S # {}
    <3>1. PICK x \in S : S = {x}
      BY <1>2, <2>2
    <3> QED
      BY <3>1, FS_Singleton
  <2> QED
    BY <2>1, <2>2
<1> QED
  BY <1>1, <1>2

\* A prediction to be evaluated is one the commit declares as pending.
LEMMA FrozenPriorIs ==
  ASSUME NEW c, NEW t, NEW q
  PROVE  q \in FrozenPrior(c, t) <=> \E d \in c.prior : d.pending /\ d.task = t /\ d.run = q
  BY DEF FrozenPrior

\* What a run was dispatched with is true.
LEMMA ConfigOf ==
  ASSUME Inv, NEW r \in Ids
  PROVE  /\ runs[r].config.prior \subseteq Declarations
         /\ TrueConfig(runs[r].flow, runs[r].config)
  BY DEF Inv, Typed, TypeOK, IsConfig, TrueConfigs

\* A valid commit declares one attempt that still has to be evaluated, at most.
LEMMA OnePending ==
  ASSUME Inv, NEW r \in Ids, BatchConfigIsValid(runs[r].flow, runs[r].config.prior)
  PROVE  \A t : \A p, q \in FrozenPrior(runs[r].config, t) : p = q
<1> DEFINE prior == runs[r].config.prior
           pending == {d \in prior : d.pending}
           f == [d \in prior |-> d.run]
<1>1. /\ \A d \in prior : d.run \in Ids
      /\ \A d, e \in prior : d.run = e.run => d = e
  BY ConfigOf DEF TrueConfig, TrueDeclaration, Of
<1>2. f \in Injection(prior, Ids)
  BY <1>1, Fun_IsInj
<1>3. IsFiniteSet(Ids)
  <2>1. Len(runs) \in Int
    BY IdsType DEF Inv, Typed
  <2> QED
    BY <2>1, FS_Interval DEF Ids
<1>4. IsFiniteSet(prior)
  BY <1>2, <1>3, FS_Injection
<1>5. IsFiniteSet(pending)
  BY <1>4, FS_Subset
<1>6. Cardinality(pending) <= 1
  BY DEF BatchConfigIsValid
<1>7. \A d, e \in pending : d = e
  BY <1>5, <1>6, AtMostOne
<1> QED
  BY <1>7, FrozenPriorIs

\* Of another run that is listed as completed with another conclusion, no success is known.
LEMMA NotWon ==
  ASSUME Inv, NEW q, NEW conclusion, Completed(q, conclusion), conclusion # "success"
  PROVE  q \notin won
  BY DEF Inv, Wins, Completed

\* The run of the first task: who is admitted has no rival, and nobody called the model before.
LEMMA AdmitsOne ==
  ASSUME Inv, NEW r \in Ids, r \notin won, runs[r].flow = "one", Admits(r)
  PROVE  Admitted(r) /\ MayCall(r, First)
<1>1. \A q \in Others(r) : q \in runs[r].config.pre /\ Completed(q, "failure")
  BY JobsType DEF Admits, AdmitsOneRun
<1>2. \A q \in Of("one") : q = r \/ q \in Others(r)
  BY DEF Others
<1>3. Admitted(r)
  BY <1>1, <1>2, NotWon, ConfigOf, JobsType DEF Admitted, TrueConfig
<1>4. ASSUME NEW q \in Of("one") \ {r}, Called(q, First) PROVE FALSE
  <2>1. q \in runs[r].config.pre
    BY <1>1, <1>2
  <2> QED
    BY <1>4, <2>1, ConfigOf DEF TrueConfig
<1> QED
  BY <1>3, <1>4 DEF MayCall

\* The recovery run: who is admitted has no rival.
LEMMA AdmitsRecovery ==
  ASSUME Inv, NEW r \in Ids, r \notin won, runs[r].flow = "recovery", Admits(r)
  PROVE  Admitted(r)
<1>1. \A q \in Others(r) : Completed(q, "failure")
  BY JobsType DEF Admits, AdmitsRecoveryRun
<1>2. \A q \in Of("recovery") : q = r \/ q \in Others(r)
  BY DEF Others
<1>3. runs[r].config.first = NoRun
  BY ConfigOf, JobsType DEF TrueConfig
<1> QED
  BY <1>1, <1>2, <1>3, NotWon DEF Admitted

\* admitBatchRun: who is admitted has no rival, and a job that calls the model may.
LEMMA AdmitsBatch ==
  ASSUME Inv, NEW r \in Ids, r \notin won, runs[r].flow \in Batches, Admits(r), NEW j \in Tasks
  PROVE  Admitted(r) /\ (CallsModel(r, j) => MayCall(r, j))
<1> DEFINE c == runs[r].config
           flow == runs[r].flow
<1>1. FirstTaskIsJudged(c) /\ \A q \in Others(r) : AdmitsPrior(q, c.prior)
  BY JobsType DEF Admits, AdmitsBatchRun
<1>2. \A q \in Of(flow) : q = r \/ q \in Others(r)
  BY DEF Others
<1>3. c.prior \subseteq Declarations /\ TrueConfig(flow, c)
  BY ConfigOf
<1>4. ASSUME NEW q \in Others(r)
      PROVE  \E d \in c.prior :
               /\ d.run = q
               /\ \/ d.as = "cancelled" /\ Completed(q, "cancelled")
                  \/ /\ d.as = "failed" /\ Completed(q, "failure")
                     /\ JobsOf(q) /\ JobsMatch(q, d)
  <2>1. PICK d \in c.prior :
          /\ d.run = q
          /\ CASE d.as = "cancelled" ->
                    /\ Completed(q, "cancelled")
                    /\ \A i \in DOMAIN runs[q].jobs : runs[q].jobs[i] = "cancelled"
               [] d.as = "failed" ->
                    Completed(q, "failure") /\ JobsOf(q) /\ JobsMatch(q, d)
    BY <1>1, <1>4 DEF AdmitsPrior, JobsOf
  <2>2. d.as \in {"failed", "cancelled"}
    BY <1>3 DEF Declarations
  <2>3. CASE d.as = "cancelled"
    BY <2>1, <2>3
  <2>4. CASE d.as = "failed"
    BY <2>1, <2>4
  <2> QED
    BY <2>2, <2>3, <2>4
<1>5. Admitted(r)
  <2>1. won \cap Of(flow) = {}
    BY <1>2, <1>4, NotWon
  <2>2. c.first # NoRun => c.first \in won \cap Of("recovery")
    BY <1>1 DEF FirstTaskIsJudged, Completed, Of, Inv, Wins
  <2> QED
    BY <2>1, <2>2 DEF Admitted
<1>6. ASSUME CallsModel(r, j), NEW q \in Of(flow) \ {r}, Called(q, j)
      PROVE  j # First /\ SaysItIsOver(c, q, j)
  <2>1. Call(q, j) /\ runs[q].flow \in Flows /\ j # First
    BY <1>6, JobsType DEF Inv, Calls, Typed, TypeOK, Of
  <2>2. j \in Attempts(q)
    BY <1>6, <2>1 DEF Call, Attempts
  <2>3. PICK d \in c.prior :
          /\ d.run = q
          /\ \/ d.as = "cancelled" /\ Completed(q, "cancelled")
             \/ /\ d.as = "failed" /\ Completed(q, "failure")
                /\ JobsOf(q) /\ JobsMatch(q, d)
    BY <1>2, <1>4, <1>6
  <2>4. TrueDeclaration(d)
    BY <1>3 DEF TrueConfig
  <2>5. /\ d.as = "failed" /\ Completed(q, "failure") /\ JobsOf(q)
        /\ JobsMatch(q, d)
    BY <2>2, <2>3, <2>4 DEF TrueDeclaration
  <2>6. runs[q].jobs[j] \in {"success", "failure"} /\ j \in DOMAIN runs[q].jobs
    BY <2>1, <2>5 DEF Call, JobsOf
  <2>7. CASE runs[q].jobs[j] = "success"
    <3>1. j \in d.succeeded
      BY <2>5, <2>6, <2>7 DEF JobsMatch, FailedJobs
    <3> QED
      BY <2>1, <2>3, <3>1 DEF SaysItIsOver
  <2>8. CASE runs[q].jobs[j] = "failure"
    <3>1. d.task = j
      BY <2>2, <2>3, <2>4, <2>5, <2>6, <2>8 DEF TrueDeclaration, FailedJobs
    <3>2. ~d.pending
      BY <1>6, <3>1, FrozenPriorIs DEF CallsModel
    <3> QED
      BY <2>1, <2>3, <3>1, <3>2 DEF SaysItIsOver
  <2> QED
    BY <2>6, <2>7, <2>8
<1> QED
  BY <1>5, <1>6 DEF MayCall

\* What an admitted run may rely on: no other run of the workflow has won, the task it is about
\* to give to the model is over where the workflow tried it, and one prediction waits at most.
LEMMA AdmitsSound ==
  ASSUME Inv, NEW r \in Ids, NEW j, At(r, j, "prepare"), Admits(r)
  PROVE  /\ Admitted(r)
         /\ CallsModel(r, j) => MayCall(r, j)
         /\ \A p, q \in FrozenPrior(runs[r].config, j) : p = q
<1>1. runs[r].flow \in Flows /\ r \notin won /\ j \in Jobs(runs[r].flow)
  BY DEF At, Inv, Typed, TypeOK, Wins
<1>2. runs[r].flow \notin Batches => FrozenPrior(runs[r].config, j) = {}
  BY ConfigOf, FrozenPriorIs DEF TrueConfig
<1>3. CASE runs[r].flow = "one"
  <2>1. j = First /\ runs[r].flow \notin Batches
    BY <1>1, <1>3, JobsType
  <2> QED
    BY <1>1, <1>2, <1>3, <2>1, AdmitsOne
<1>4. CASE runs[r].flow = "recovery"
  BY <1>1, <1>2, <1>4, AdmitsRecovery, JobsType DEF CallsModel
<1>5. CASE runs[r].flow \in Batches
  <2>1. BatchConfigIsValid(runs[r].flow, runs[r].config.prior) /\ j \in Tasks
    BY <1>1, <1>5, JobsType DEF Admits, AdmitsBatchRun
  <2> QED
    BY <1>1, <1>5, <2>1, AdmitsBatch, OnePending
<1> QED
  BY <1>1, <1>3, <1>4, <1>5 DEF Flows

------------------------------------------------------------------------------
(* The steps of a job. *)

\* A job that fails adds at most a prediction and a verdict of its own.
LEMMA FailAdds ==
  ASSUME Inv, NEW r \in Ids, NEW j \in {First} \cup Tasks, Fail(r, j), calls' = calls,
         frozen \subseteq frozen' /\ frozen' \subseteq frozen \cup {<<r, j>>},
         verdicts \subseteq verdicts' /\ verdicts' \subseteq Ids \X Ids \X ({First} \cup Tasks),
         \A v \in verdicts' \ verdicts : Verdict(v)'
  PROVE  Adds(r, j)
<1>1. uploaded' \in Publishing(r, j)
  BY DEF Fail
<1>2. uploaded \subseteq uploaded' /\ uploaded' \subseteq uploaded \cup {<<r, j>>}
  BY <1>1 DEF Publishing
<1> QED
  BY <1>2 DEF Adds

\* A step that leaves the histories alone adds nothing.
LEMMA UnchangedAdds ==
  ASSUME Inv, NEW r, NEW j, UNCHANGED <<calls, frozen, verdicts, uploaded>>
  PROVE  Adds(r, j)
  BY DEF Adds, Inv, Typed, TypeOK

\* A job fails and leaves nothing behind.
LEMMA FailsInv ==
  ASSUME Inv, NEW r \in Ids, NEW j, NEW from \in Running, At(r, j, from), Fail(r, j),
         UNCHANGED <<calls, frozen, verdicts>>
  PROVE  Inv'
<1>1. j \in {First} \cup Tasks
  BY JobAtWork
<1>2. verdicts' \subseteq Ids \X Ids \X ({First} \cup Tasks)
  BY DEF Inv, Typed, TypeOK
<1>3. Adds(r, j)
  BY <1>1, <1>2, FailAdds
<1> QED
  BY <1>3, FailInv

\* A job that goes on changes its own place only.
LEMMA MoveKeeps ==
  ASSUME Inv, NEW r \in Ids, NEW j, NEW from \in Running, At(r, j, from),
         NEW stage \in Past, Goto(r, j, stage)
  PROVE  /\ Ids' = Ids /\ runs'[r].jobs[j] = stage
         /\ runs'[r].flow = runs[r].flow /\ runs'[r].config = runs[r].config
         /\ CallsModel(r, j)' = CallsModel(r, j) /\ Sources(r, j)' = Sources(r, j)
         /\ won' = won /\ Admitted(r) => Admitted(r)'
         /\ calls' = calls /\ MayCall(r, j) => MayCall(r, j)'
<1>1. /\ JobsOf(r) /\ j \in Jobs(runs[r].flow) /\ runs \in Seq(Run)
      /\ runs[r].jobs \in [Jobs(runs[r].flow) -> JobStates]
  BY JobAtWork
<1>2. stage \in JobStates
  BY DEF Past, Running, JobStates
<1>3. Kept(r) /\ runs'[r].jobs = [runs[r].jobs EXCEPT ![j] = stage]
  BY <1>1, <1>2, GotoRun
<1>4. /\ Ids' = Ids /\ runs'[r].jobs[j] = stage
      /\ runs'[r].flow = runs[r].flow /\ runs'[r].config = runs[r].config
      /\ \A q \in Ids : runs'[q].flow = runs[q].flow
  BY <1>1, <1>3 DEF Kept, Ids
<1>5. \A flow : Of(flow)' = Of(flow)
  BY <1>4 DEF Of
<1> QED
  BY <1>4, <1>5 DEF CallsModel, Sources, Admitted, MayCall, Called, SaysItIsOver

\* A job that has not called the model yet has made no call.
LEMMA NotYetCalled ==
  ASSUME Inv, NEW r \in Ids, NEW j, NEW from \in {"prepare", "generate"}, At(r, j, from)
  PROVE  ~Called(r, j)
<1>1. from \in Running
  BY DEF Running
<1>2. InProgress(r) /\ j \in {First} \cup Tasks /\ runs[r].jobs[j] = from
  BY <1>1, JobAtWork DEF At
<1> QED
  BY <1>2 DEF Inv, Calls, Call

\* prepare, at which the run is admitted or refused.
LEMMA PrepareInv == ASSUME Inv, NEW r \in Ids, NEW j, Prepare(r, j) PROVE Inv'
<1>1. At(r, j, "prepare") /\ "prepare" \in Running /\ "generate" \in Past
  BY DEF Prepare, Running, Past
<1>2. CASE Fail(r, j)
  BY <1>1, <1>2, FailsInv DEF Prepare
<1>3. CASE Admits(r) /\ Goto(r, j, "generate") /\ UNCHANGED <<uploaded, won>>
  <2>1. /\ Admitted(r)
        /\ CallsModel(r, j) => MayCall(r, j)
        /\ \A p, q \in FrozenPrior(runs[r].config, j) : p = q
    BY <1>1, <1>3, AdmitsSound
  <2>2. UNCHANGED <<calls, frozen, verdicts, uploaded, won>>
    BY <1>3 DEF Prepare
  <2>3. /\ runs'[r].jobs[j] = "generate" /\ runs'[r].config = runs[r].config
        /\ CallsModel(r, j)' = CallsModel(r, j)
        /\ Admitted(r)' /\ (MayCall(r, j) => MayCall(r, j)')
    BY <1>1, <1>3, <2>1, <2>2, MoveKeeps
  <2>4. Command(r, j)'
    BY <2>1, <2>3 DEF Command
  <2>5. ~Called(r, j)'
    BY <1>1, <2>2, NotYetCalled DEF Called
  <2>6. Adds(r, j)
    BY <2>2, UnchangedAdds
  <2> QED
    BY <1>1, <1>3, <2>2, <2>4, <2>5, <2>6, MoveInv
<1> QED
  BY <1>2, <1>3 DEF Prepare

\* The model is called.
LEMMA StartModelInv == ASSUME Inv, NEW r \in Ids, NEW j, StartModel(r, j) PROVE Inv'
<1>1. /\ At(r, j, "generate") /\ CallsModel(r, j) /\ Goto(r, j, "model")
      /\ calls' = calls \cup {<<r, j>>} /\ UNCHANGED <<frozen, uploaded, verdicts, won>>
      /\ "generate" \in Running /\ "model" \in Past
  BY DEF StartModel, Running, Past
<1>2. Command(r, j) /\ runs[r].jobs[j] = "generate"
  BY <1>1, JobAtWork DEF At
<1>3. Admitted(r)
  BY <1>2 DEF Command, Past
<1>4. runs'[r].jobs[j] = "model" /\ CallsModel(r, j)' = CallsModel(r, j) /\ Admitted(r)'
  BY <1>1, <1>3, MoveKeeps
<1>5. Command(r, j)'
  BY <1>1, <1>4 DEF Command, Called
<1>6. Adds(r, j)
  BY <1>1 DEF Adds, Inv, Typed, TypeOK
<1> QED
  BY <1>1, <1>5, <1>6, MoveInv

\* The model is done, with a prediction or without.
LEMMA ModelEndsInv == ASSUME Inv, NEW r \in Ids, NEW j, ModelEnds(r, j) PROVE Inv'
<1>1. /\ At(r, j, "model") /\ UNCHANGED <<calls, verdicts>>
      /\ "model" \in Running /\ "evaluate" \in Past
  BY DEF ModelEnds, Running, Past
<1>2. Command(r, j) /\ runs[r].jobs[j] = "model" /\ j \in {First} \cup Tasks
  BY <1>1, JobAtWork DEF At
<1>3. Admitted(r) /\ CallsModel(r, j) /\ Called(r, j)
  BY <1>2 DEF Command, Past
<1>4. verdicts' \subseteq Ids \X Ids \X ({First} \cup Tasks)
  BY <1>1 DEF Inv, Typed, TypeOK
<1>5. CASE Fail(r, j) /\ frozen \subseteq frozen' /\ frozen' \subseteq frozen \cup {<<r, j>>}
  <2>1. Adds(r, j)
    BY <1>1, <1>2, <1>4, <1>5, FailAdds
  <2> QED
    BY <1>1, <1>5, <2>1, FailInv
<1>6. CASE /\ frozen' = frozen \cup {<<r, j>>}
           /\ Goto(r, j, "evaluate") /\ UNCHANGED <<uploaded, won>>
  <2>1. /\ runs'[r].jobs[j] = "evaluate" /\ Admitted(r)'
        /\ CallsModel(r, j)' = CallsModel(r, j) /\ Sources(r, j)' = Sources(r, j)
    BY <1>1, <1>3, <1>6, MoveKeeps
  <2>2. Sources(r, j) = {r}
    BY <1>3 DEF CallsModel, Sources
  <2>3. SourceIsKnown(r, j)'
    BY <1>1, <1>3, <1>6, <2>1, <2>2 DEF SourceIsKnown, Frozen, Called
  <2>4. Command(r, j)'
    BY <2>1, <2>3 DEF Command
  <2>5. Adds(r, j)
    BY <1>1, <1>4, <1>6 DEF Adds
  <2> QED
    BY <1>1, <1>3, <1>6, <2>4, <2>5, MoveInv
<1> QED
  BY <1>5, <1>6 DEF ModelEnds

\* The prediction of another run: the one attempt declared as not evaluated made it.
LEMMA RecoverPredictionInv == ASSUME Inv, NEW r \in Ids, NEW j, RecoverPrediction(r, j) PROVE Inv'
<1>1. /\ At(r, j, "generate") /\ Goto(r, j, "evaluate")
      /\ frozen' = frozen \cup {<<r, j>>} /\ UNCHANGED <<calls, uploaded, verdicts, won>>
      /\ "generate" \in Running /\ "evaluate" \in Past
  BY DEF RecoverPrediction, CopyFrozenEvidence, Running, Past
<1>2. PICK q \in FrozenPrior(runs[r].config, j) : ArtifactIsVerified(q, j)
  BY DEF RecoverPrediction
<1>3. Command(r, j) /\ runs[r].jobs[j] = "generate" /\ runs[r].flow \in Flows
  BY <1>1, JobAtWork DEF At
<1>4. Admitted(r) /\ \A p \in FrozenPrior(runs[r].config, j) : p = q
  BY <1>2, <1>3 DEF Command, Past
<1>5. PICK d \in runs[r].config.prior : d.pending /\ d.task = j /\ d.run = q
  BY <1>2, FrozenPriorIs
<1>6. Called(q, j) /\ runs[r].flow \in Batches /\ runs[r].flow # "recovery"
  BY <1>5, ConfigOf, JobsType DEF TrueConfig, TrueDeclaration
<1>7. ~CallsModel(r, j) /\ Sources(r, j) = {q}
  BY <1>2, <1>4, <1>6 DEF CallsModel, Sources
<1>8. /\ runs'[r].jobs[j] = "evaluate" /\ Admitted(r)'
      /\ CallsModel(r, j)' = CallsModel(r, j) /\ Sources(r, j)' = Sources(r, j)
  BY <1>1, <1>4, MoveKeeps
<1>9. SourceIsKnown(r, j)'
  BY <1>1, <1>2, <1>6, <1>7, <1>8 DEF SourceIsKnown, Frozen, Called, ArtifactIsVerified
<1>10. Command(r, j)'
  BY <1>8, <1>9 DEF Command
<1>11. ~Called(r, j)'
  BY <1>1, NotYetCalled DEF Called
<1>12. Adds(r, j)
  BY <1>1 DEF Adds, Inv, Typed, TypeOK
<1> QED
  BY <1>1, <1>10, <1>11, <1>12, MoveInv

\* The prediction of the interrupted attempt of the first task.
LEMMA CapturePredictionInv == ASSUME Inv, NEW r \in Ids, NEW j, CapturePrediction(r, j) PROVE Inv'
<1>1. /\ At(r, j, "generate") /\ Goto(r, j, "evaluate") /\ runs[r].flow = "recovery"
      /\ frozen' = frozen \cup {<<r, j>>} /\ UNCHANGED <<calls, uploaded, verdicts, won>>
      /\ "generate" \in Running /\ "evaluate" \in Past
  BY DEF CapturePrediction, Running, Past
<1>2. Command(r, j) /\ runs[r].jobs[j] = "generate" /\ j \in Jobs("recovery")
  BY <1>1, JobAtWork DEF At
<1>3. Admitted(r) /\ j = First
  BY <1>2, JobsType DEF Command, Past
<1>4. Called(runs[r].config.source, j) /\ <<runs[r].config.source, j>> \in uploaded
  BY <1>1, <1>3, ConfigOf DEF TrueConfig, Called
<1>5. ~CallsModel(r, j) /\ Sources(r, j) = {runs[r].config.source}
  BY <1>1 DEF CallsModel, Sources
<1>6. /\ runs'[r].jobs[j] = "evaluate" /\ Admitted(r)'
      /\ CallsModel(r, j)' = CallsModel(r, j) /\ Sources(r, j)' = Sources(r, j)
  BY <1>1, <1>3, MoveKeeps
<1>7. SourceIsKnown(r, j)'
  BY <1>1, <1>4, <1>5, <1>6 DEF SourceIsKnown, Frozen, Called
<1>8. Command(r, j)'
  BY <1>6, <1>7 DEF Command
<1>9. ~Called(r, j)'
  BY <1>1, NotYetCalled DEF Called
<1>10. Adds(r, j)
  BY <1>1 DEF Adds, Inv, Typed, TypeOK
<1> QED
  BY <1>1, <1>8, <1>9, <1>10, MoveInv

\* The prediction is evaluated.
LEMMA EvaluateInv == ASSUME Inv, NEW r \in Ids, NEW j, Evaluate(r, j) PROVE Inv'
<1> DEFINE record == <<r, SourceOf(r, j), j>>
<1>1. /\ At(r, j, "evaluate") /\ UNCHANGED <<calls, frozen>>
      /\ "evaluate" \in Running /\ "publish" \in Past
  BY DEF Evaluate, Running, Past
<1>2. /\ Command(r, j) /\ runs[r].jobs[j] = "evaluate" /\ j \in {First} \cup Tasks
      /\ InProgress(r)
  BY <1>1, JobAtWork DEF At
<1>3. Admitted(r) /\ SourceIsKnown(r, j)
  BY <1>2 DEF Command, Past
<1>4. /\ Called(SourceOf(r, j), j) /\ Frozen(r, j)
      /\ SourceOf(r, j) # r => <<SourceOf(r, j), j>> \in uploaded /\ ~CallsModel(r, j)
  BY <1>3, SourceIsOne DEF SourceIsKnown
<1>5. SourceOf(r, j) \in Ids
  BY <1>4 DEF Called, Inv, Typed, TypeOK
<1>6. record \in Ids \X Ids \X ({First} \cup Tasks)
  BY <1>2, <1>5
<1>7. CASE Fail(r, j) /\ UNCHANGED verdicts
  BY <1>1, <1>7, FailsInv
<1>8. CASE verdicts' = verdicts \cup {record} /\ Fail(r, j)
  <2>1. /\ JobsOf(r) /\ runs \in Seq(Run) /\ j \in Jobs(runs[r].flow)
        /\ runs[r].jobs[j] \in Running
    BY <1>1, JobAtWork
  <2>2. Kept(r)
    BY <1>8, <2>1, FailRun
  <2>3. CallsModel(r, j)' = CallsModel(r, j)
    BY <2>2 DEF Kept, CallsModel
  <2>4. uploaded' \in Publishing(r, j)
    BY <1>8 DEF Fail
  <2>5. uploaded \subseteq uploaded'
    BY <2>4 DEF Publishing
  <2>6. ASSUME NEW v \in verdicts' \ verdicts PROVE Verdict(v)'
    <3>1. v[1] = r /\ v[2] = SourceOf(r, j) /\ v[3] = j
      BY <1>8, <2>6
    <3> QED
      BY <1>1, <1>4, <2>3, <2>5, <3>1 DEF Verdict, Called, Frozen
  <2>7. verdicts' \subseteq Ids \X Ids \X ({First} \cup Tasks)
    BY <1>6, <1>8 DEF Inv, Typed, TypeOK
  <2>8. Adds(r, j)
    BY <1>1, <1>2, <1>8, <2>6, <2>7, FailAdds
  <2> QED
    BY <1>1, <1>8, <2>8, FailInv
<1>9. CASE /\ verdicts' = verdicts \cup {record}
           /\ Goto(r, j, "publish") /\ UNCHANGED <<uploaded, won>>
  <2>1. /\ runs'[r].jobs[j] = "publish" /\ Admitted(r)'
        /\ CallsModel(r, j)' = CallsModel(r, j)
    BY <1>1, <1>3, <1>9, MoveKeeps
  <2>2. Judged(r, j)'
    <3>1. record[1] = r /\ record[3] = j
      OBVIOUS
    <3> QED
      BY <1>9, <3>1 DEF Judged
  <2>3. Command(r, j)'
    BY <2>1, <2>2 DEF Command
  <2>4. ASSUME NEW v \in verdicts' \ verdicts PROVE Verdict(v)'
    <3>1. v[1] = r /\ v[2] = SourceOf(r, j) /\ v[3] = j
      BY <1>9, <2>4
    <3> QED
      BY <1>1, <1>4, <1>9, <2>1, <3>1 DEF Verdict, Called, Frozen
  <2>5. verdicts' \subseteq Ids \X Ids \X ({First} \cup Tasks)
    BY <1>6, <1>9 DEF Inv, Typed, TypeOK
  <2>6. Adds(r, j)
    BY <1>1, <1>9, <2>4, <2>5 DEF Adds
  <2>7. Called(r, j)' => CallsModel(r, j)
    BY <1>1, <1>2 DEF Called, Inv, Calls, Call
  <2> QED
    BY <1>1, <1>9, <2>3, <2>6, <2>7, MoveInv
<1> QED
  BY <1>7, <1>8, <1>9 DEF Evaluate

\* The evidence is published, and the job is over.
LEMMA PublishInv == ASSUME Inv, NEW r \in Ids, NEW j, Publish(r, j) PROVE Inv'
<1>1. At(r, j, "publish") /\ UNCHANGED <<calls, frozen, verdicts>> /\ "publish" \in Running
  BY DEF Publish, Running
<1> QED
  BY <1>1, SucceedInv, FailsInv DEF Publish

\* Every step of a job.
LEMMA JobStepInv == ASSUME Inv, NEW r \in Ids, NEW j, JobStep(r, j) PROVE Inv'
<1>1. CASE Prepare(r, j)
  BY <1>1, PrepareInv
<1>2. CASE StartModel(r, j)
  BY <1>2, StartModelInv
<1>3. CASE GenerateFails(r, j)
  <2>1. "generate" \in Running
    BY DEF Running
  <2> QED
    BY <1>3, <2>1, FailsInv DEF GenerateFails
<1>4. CASE ModelEnds(r, j)
  BY <1>4, ModelEndsInv
<1>5. CASE RecoverPrediction(r, j)
  BY <1>5, RecoverPredictionInv
<1>6. CASE CapturePrediction(r, j)
  BY <1>6, CapturePredictionInv
<1>7. CASE Evaluate(r, j)
  BY <1>7, EvaluateInv
<1>8. CASE Publish(r, j)
  BY <1>8, PublishInv
<1> QED
  BY <1>1, <1>2, <1>3, <1>4, <1>5, <1>6, <1>7, <1>8 DEF JobStep

------------------------------------------------------------------------------
(* The steps of GitHub and of the owner. *)

\* A pending run begins: nobody else is in progress.
LEMMA StartInv == ASSUME Inv, NEW r \in Ids, Start(r) PROVE Inv'
<1>1. /\ runs[r].status = "pending" /\ UNCHANGED <<calls, frozen, uploaded, verdicts, won>>
      /\ \A q \in Ids : ~InProgress(q)
  BY DEF Start, Busy, InProgress, history
<1>2. /\ Kept(r) /\ JobsOf(r)'
      /\ runs'[r].status = "in_progress" /\ runs'[r].conclusion = runs[r].conclusion
      /\ \A i \in Jobs(runs[r].flow) :
           runs'[r].jobs[i] = IF i = FirstJob(runs[r].flow) THEN "prepare" ELSE "queued"
  BY StartRun DEF Inv, Typed
<1>3. runs[r].conclusion = "none" /\ r \notin won /\ runs[r].flow \in Flows
  BY <1>1 DEF Inv, Typed, TypeOK, Wins
<1>4. runs'[r].flow = runs[r].flow /\ runs'[r].config = runs[r].config
  BY <1>2 DEF Kept
<1>5. Grows(r)
  BY <1>1 DEF Grows, Called
<1>6. /\ TrueConfigs' /\ Verdicts' /\ Ids' = Ids
      /\ \A q \in Ids \ {r} : \A t \in {First} \cup Tasks : Called(q, t)' => Call(q, t)'
  BY <1>1, <1>2, <1>5, KeptInv
<1>7. Typed'
  <2>1. DOMAIN runs'[r].jobs \in {{}, Jobs(runs[r].flow)}
    BY <1>2, <1>4 DEF JobsOf
  <2>2. /\ \A s \in {calls', frozen', uploaded'} : s \subseteq Ids \X ({First} \cup Tasks)
        /\ verdicts' \subseteq Ids \X Ids \X ({First} \cup Tasks) /\ won' \subseteq Ids
    BY <1>1 DEF Inv, Typed, TypeOK
  <2> QED
    BY <1>2, <1>3, <2>1, <2>2, KeptTypes DEF Inv
<1>8. OneInProgress' /\ \A q \in Ids \ {r} : ~InProgress(q)'
  BY <1>1, <1>2, <1>6 DEF Kept, InProgress, OneInProgress
<1>9. Wins'
  BY <1>1, <1>2, <1>3, <1>5, KeptWins
<1>10. Working(r)'
  <2>1. /\ FirstJob(runs[r].flow) \in Jobs(runs[r].flow)
        /\ \A i \in Jobs(runs[r].flow) : FirstJob(runs[r].flow) <= i /\ i \in Nat
    BY <1>3, JobsType
  <2>2. \A i \in Jobs(runs[r].flow) :
          /\ i < FirstJob(runs[r].flow) => runs'[r].jobs[i] = "success"
          /\ i = FirstJob(runs[r].flow) => runs'[r].jobs[i] \in Running
          /\ i > FirstJob(runs[r].flow) => runs'[r].jobs[i] = "queued"
    BY <1>2, <2>1 DEF Running
  <2>3. Chain(r)'
    BY <1>4, <2>1, <2>2 DEF Chain
  <2>4. \A i \in Jobs(runs[r].flow) : runs'[r].jobs[i] \in {"prepare", "queued"}
    BY <1>2
  <2>5. \A i \in Jobs(runs[r].flow) : Command(r, i)'
    BY <2>4 DEF Command, Past
  <2> QED
    BY <1>2, <1>4, <2>3, <2>5 DEF Working
<1>11. \A t \in {First} \cup Tasks : ~Called(r, t)'
  BY <1>1 DEF Inv, Calls, Call, Called
<1>12. Calls'
  BY <1>6, <1>11 DEF Calls
<1> QED
  BY <1>6, <1>7, <1>8, <1>9, <1>10, <1>12 DEF Inv

\* A run is over, cancelled or as a re-run.
LEMMA OverInv ==
  ASSUME Inv, NEW r \in Ids, Kept(r), UNCHANGED <<calls, frozen, verdicts, won>>,
         uploaded \subseteq uploaded', uploaded' \subseteq Ids \X ({First} \cup Tasks),
         runs'[r].status = "completed", DOMAIN runs'[r].jobs \in {{}, Jobs(runs[r].flow)},
         \/ runs'[r].conclusion = "cancelled" /\ runs[r].status # "completed"
         \/ runs'[r].conclusion = "failure" /\ runs'[r].attempt = 2
  PROVE  Inv'
<1>1. runs'[r].flow = runs[r].flow /\ runs'[r].config = runs[r].config
  BY DEF Kept
<1>2. Grows(r) /\ runs[r].status = "completed" => runs'[r].attempt = 2
  BY DEF Grows, Called
<1>3. Grows(r)
  BY DEF Grows, Called
<1>4. /\ TrueConfigs' /\ Verdicts' /\ Ids' = Ids
      /\ \A flow : Of(flow)' = Of(flow)
      /\ \A q \in Ids \ {r} : \A t \in {First} \cup Tasks : Called(q, t)' => Call(q, t)'
  BY <1>2, <1>3, KeptInv
<1>5. Typed'
  <2>1. /\ \A s \in {calls', frozen', uploaded'} : s \subseteq Ids \X ({First} \cup Tasks)
        /\ verdicts' \subseteq Ids \X Ids \X ({First} \cup Tasks) /\ won' \subseteq Ids
    BY DEF Inv, Typed, TypeOK
  <2>2. (runs'[r].conclusion = "none") = (runs'[r].status # "completed")
    OBVIOUS
  <2> QED
    BY <2>1, <2>2, KeptTypes DEF Inv
<1>6. ~InProgress(r)' /\ \A q \in Ids \ {r} : InProgress(q)' => InProgress(q)
  BY DEF InProgress, Kept
<1>7. OneInProgress'
  BY <1>4, <1>6 DEF OneInProgress, Inv
<1>8. Wins'
  <2>1. r \in won => runs'[r].attempt = 2
    BY DEF Inv, Wins
  <2> QED
    BY <1>3, <2>1, KeptWins
<1>9. \A q \in Ids : InProgress(q)' => Working(q)'
  BY <1>6, KeptWorking
<1>10. ASSUME NEW t \in {First} \cup Tasks, Called(r, t)' PROVE Call(r, t)'
  <2>1. Call(r, t)
    BY <1>10 DEF Called, Inv, Calls
  <2>2. CallsModel(r, t)' = CallsModel(r, t) /\ ~Completed(r, "failure")'
    BY <1>1 DEF CallsModel, Completed
  <2> QED
    BY <1>1, <1>4, <1>6, <2>1, <2>2 DEF Call
<1>11. Calls'
  BY <1>4, <1>10 DEF Calls
<1> QED
  BY <1>4, <1>5, <1>7, <1>8, <1>9, <1>11 DEF Inv

\* A run is cancelled.
LEMMA CancelInv == ASSUME Inv, NEW r \in Ids, Cancel(r) PROVE Inv'
<1>1. InProgress(r) => JobsOf(r)
  BY DEF Inv, Working
<1>2. /\ Kept(r) /\ runs'[r].status = "completed" /\ runs'[r].conclusion = "cancelled"
      /\ DOMAIN runs'[r].jobs \in {{}, Jobs(runs[r].flow)} /\ runs[r].status # "completed"
  BY <1>1, CancelRun DEF Inv, Typed
<1>3. UNCHANGED <<calls, frozen, verdicts, won>>
  BY DEF Cancel, history
<1>4. uploaded \subseteq Ids \X ({First} \cup Tasks)
  BY DEF Inv, Typed, TypeOK
<1>5. uploaded \subseteq uploaded' /\ uploaded' \subseteq Ids \X ({First} \cup Tasks)
  <2>1. CASE runs[r].status = "pending"
    BY <1>4, <2>1 DEF Cancel, history
  <2>2. CASE runs[r].status = "in_progress"
    <3>1. PICK j \in DOMAIN runs[r].jobs : uploaded' \in Publishing(r, j)
      BY <2>2 DEF Cancel
    <3>2. j \in {First} \cup Tasks
      BY JobsType DEF Inv, Typed, TypeOK
    <3> QED
      BY <1>4, <3>1, <3>2 DEF Publishing
  <2> QED
    BY <2>1, <2>2 DEF Cancel
<1> QED
  BY <1>2, <1>3, <1>5, OverInv

\* A run is run again.
LEMMA ReRunInv == ASSUME Inv, NEW r \in Ids, ReRun(r) PROVE Inv'
<1>1. /\ Kept(r) /\ JobsOf(r)'
      /\ runs'[r].status = "completed" /\ runs'[r].conclusion = "failure"
      /\ runs'[r].attempt = 2
  BY ReRunRun DEF Inv, Typed
<1>2. UNCHANGED <<calls, frozen, uploaded, verdicts, won>>
  BY DEF ReRun, history
<1>3. DOMAIN runs'[r].jobs \in {{}, Jobs(runs[r].flow)}
  BY <1>1 DEF JobsOf, Kept
<1>4. uploaded' \subseteq Ids \X ({First} \cup Tasks)
  BY <1>2 DEF Inv, Typed, TypeOK
<1> QED
  BY <1>1, <1>2, <1>3, <1>4, OverInv

\* A run is dispatched with a configuration that can be committed.
LEMMA DispatchInv == ASSUME Inv, NEW flow \in Flows, Dispatch(flow) PROVE Inv'
<1> DEFINE n == Len(runs) + 1
           superseded(q) ==
             /\ runs[q].status = "pending"
             /\ runs'[q].flow = runs[q].flow /\ runs'[q].config = runs[q].config
             /\ runs'[q].attempt = runs[q].attempt
             /\ runs'[q].status = "completed" /\ runs'[q].conclusion = "cancelled"
             /\ DOMAIN runs'[q].jobs \in {{}, Jobs(runs[q].flow)}
<1>1. /\ runs' \in Seq(Run) /\ Len(runs') = n
      /\ \A q \in Ids : runs'[q] = runs[q] \/ superseded(q)
  BY DispatchRun DEF Inv
<1>2. PICK c \in Configs(flow) :
        runs'[n] = [flow |-> flow, status |-> "pending", conclusion |-> "none",
                    attempt |-> 1, jobs |-> <<>>, config |-> c]
  BY DispatchRun DEF Inv
<1>3. /\ runs'[n].flow = flow /\ runs'[n].status = "pending" /\ runs'[n].conclusion = "none"
      /\ runs'[n].attempt = 1 /\ runs'[n].jobs = <<>> /\ runs'[n].config = c
  BY <1>2
<1>4. Ids' = Ids \cup {n} /\ n \notin Ids /\ Ids \subseteq Nat
  BY <1>1, IdsType DEF Inv, Typed, Ids
<1>5. UNCHANGED <<calls, frozen, uploaded, verdicts, won>>
  BY DEF Dispatch, history
<1>6. /\ \A q, t : Called(q, t)' = Called(q, t)
      /\ \A t : ~Called(n, t) /\ n \notin won
  BY <1>4, <1>5 DEF Called, Inv, Typed, TypeOK
<1>7. \A q \in Ids : runs'[q].flow = runs[q].flow /\ runs'[q].config = runs[q].config
  BY <1>1
<1>8. Older
  <2>1. \A q \in Ids : runs[q].status = "completed" => runs'[q] = runs[q]
    BY <1>1
  <2> QED
    BY <1>4, <1>5, <1>6, <1>7, <2>1 DEF Older
<1>9. c \in Config /\ IsConfig(c) /\ TrueConfig(flow, c)
  BY ConfigsTrue DEF Inv
<1>10. Typed'
  <2>1. \A q \in Ids' : runs'[q] \in Run
    BY <1>1, IdsType DEF Ids
  <2>2. ASSUME NEW q \in Ids'
        PROVE  /\ (runs'[q].conclusion = "none") = (runs'[q].status # "completed")
               /\ DOMAIN runs'[q].jobs \in {{}, Jobs(runs'[q].flow)}
               /\ IsConfig(runs[q].config)'
    <3>1. CASE q = n
      BY <1>3, <1>4, <1>9, <3>1 DEF IsConfig
    <3>2. CASE q \in Ids
      <4>1. IsConfig(runs[q].config)
        BY <3>2 DEF Inv, Typed, TypeOK
      <4>2. IsConfig(runs[q].config)'
        BY <1>4, <1>7, <3>2, <4>1 DEF IsConfig
      <4>3. CASE runs'[q] = runs[q]
        BY <3>2, <4>2, <4>3 DEF Inv, Typed, TypeOK
      <4>4. CASE superseded(q)
        BY <3>2, <4>2, <4>4
      <4> QED
        BY <1>1, <3>2, <4>3, <4>4
    <3> QED
      BY <1>4, <3>1, <3>2
  <2>3. \A q \in Ids' : \A j \in DOMAIN runs'[q].jobs : runs'[q].jobs[j] \in JobStates
    BY <2>1 DEF Run, JobLists
  <2>4. /\ \A s \in {calls', frozen', uploaded'} : s \subseteq Ids' \X ({First} \cup Tasks)
        /\ verdicts' \subseteq Ids' \X Ids' \X ({First} \cup Tasks) /\ won' \subseteq Ids'
    BY <1>4, <1>5 DEF Inv, Typed, TypeOK
  <2> QED
    BY <1>1, <2>1, <2>2, <2>3, <2>4 DEF Typed, TypeOK, Run
<1>11. \A q \in Ids' : InProgress(q)' => q \in Ids /\ InProgress(q) /\ runs'[q] = runs[q]
  BY <1>1, <1>3, <1>4 DEF InProgress
<1>12. OneInProgress'
  BY <1>11 DEF OneInProgress, Inv
<1>13. TrueConfigs'
  <2> SUFFICES ASSUME NEW q \in Ids' PROVE TrueConfig(runs[q].flow, runs[q].config)'
    BY DEF TrueConfigs
  <2>1. CASE q = n
    BY <1>3, <1>8, <1>9, <2>1, OlderConfig DEF Inv
  <2>2. CASE q \in Ids
    <3>1. TrueConfig(runs[q].flow, runs[q].config)
      BY <2>2 DEF Inv, TrueConfigs
    <3> QED
      BY <1>7, <1>8, <2>2, <3>1, OlderConfig DEF Inv
  <2> QED
    BY <1>4, <2>1, <2>2
<1>14. /\ \A f : won \cap Of(f)' = won \cap Of(f)
  BY <1>4, <1>6, <1>7 DEF Of
<1>15. ASSUME NEW q \in Ids, InProgress(q)' PROVE Working(q)'
  <2>1. runs'[q] = runs[q] /\ Working(q)
    BY <1>4, <1>11, <1>15 DEF Inv
  <2>2. ASSUME NEW j \in Jobs(runs[q].flow) PROVE Command(q, j)'
    <3>1. Command(q, j)
      BY <2>1 DEF Working
    <3>2. Admitted(q) => Admitted(q)'
      BY <1>5, <1>14, <2>1 DEF Admitted
    <3>3. MayCall(q, j) => MayCall(q, j)'
      BY <1>4, <1>6, <1>7, <2>1 DEF MayCall, SaysItIsOver, Of
    <3>4. CallsModel(q, j)' = CallsModel(q, j) /\ Sources(q, j)' = Sources(q, j)
      BY <2>1 DEF CallsModel, Sources
    <3>5. SourceIsKnown(q, j) => SourceIsKnown(q, j)'
      BY <1>5, <3>4 DEF SourceIsKnown, Called, Frozen
    <3> QED
      BY <1>5, <2>1, <3>1, <3>2, <3>3, <3>4, <3>5 DEF Command, Called, Judged
  <2> QED
    BY <2>1, <2>2 DEF Working, JobsOf, Chain
<1>16. Calls'
  <2> SUFFICES ASSUME NEW q \in Ids', NEW t \in {First} \cup Tasks, Called(q, t)'
               PROVE  Call(q, t)'
    BY DEF Calls
  <2>1. Called(q, t) /\ q \in Ids
    BY <1>4, <1>6
  <2>2. Call(q, t)
    BY <2>1 DEF Inv, Calls
  <2>3. runs'[q] = runs[q]
    BY <1>1, <2>1, <2>2 DEF Call
  <2> QED
    BY <1>5, <1>14, <2>2, <2>3 DEF Call, CallsModel, InProgress, Completed
<1>17. Wins'
  <2>1. ASSUME NEW q \in Ids', runs'[q].conclusion = "success" PROVE q \in won'
    BY <1>1, <1>3, <1>4, <1>5, <2>1 DEF Inv, Wins
  <2>2. won \subseteq Ids /\ \A q \in won : runs'[q] = runs[q]
    BY <1>1 DEF Inv, Wins, Typed, TypeOK
  <2> QED
    BY <1>5, <2>1, <2>2 DEF Inv, Wins, Judged
<1>18. Verdicts'
  BY <1>5, <1>8, OlderVerdict DEF Inv, Verdicts
<1> QED
  BY <1>10, <1>11, <1>12, <1>13, <1>15, <1>16, <1>17, <1>18 DEF Inv

------------------------------------------------------------------------------
(* The invariant holds, and with it the properties. *)

\* There is no run.
LEMMA InitInv == Init => Inv
<1> SUFFICES ASSUME Init PROVE Inv
  OBVIOUS
<1>1. runs = <<>> /\ calls = {} /\ frozen = {} /\ uploaded = {} /\ verdicts = {} /\ won = {}
  BY DEF Init
<1>2. runs \in Seq(Run) /\ Ids = {}
  <2>1. <<>> \in Seq(Run) /\ Len(runs) = 0
    BY <1>1, EmptySeq
  <2> QED
    BY <1>1, <2>1 DEF Ids
<1> QED
  BY <1>1, <1>2 DEF Inv, Typed, TypeOK, OneInProgress, TrueConfigs, Calls, Wins, Verdicts

\* Every step keeps the invariant.
LEMMA NextInv == ASSUME Inv, [Next]_vars PROVE Inv'
<1>1. CASE UNCHANGED vars
  <2>1. UNCHANGED <<runs, calls, frozen, uploaded, verdicts, won>>
    BY <1>1 DEF vars, history
  <2>2. Ids' = Ids /\ \A flow : Of(flow)' = Of(flow)
    BY <2>1 DEF Ids, Of
  <2>3. Typed'
    BY <2>1, <2>2 DEF Inv, Typed, TypeOK, IsConfig
  <2>4. Older
    BY <2>1, <2>2 DEF Older, Called
  <2>5. TrueConfigs' /\ Verdicts' /\ OneInProgress'
    <3>1. ASSUME NEW q \in Ids' PROVE TrueConfig(runs[q].flow, runs[q].config)'
      <4>1. TrueConfig(runs[q].flow, runs[q].config)
        BY <2>2 DEF Inv, TrueConfigs
      <4> QED
        BY <2>1, <2>4, <4>1, OlderConfig DEF Inv
    <3>2. Verdicts'
      BY <2>1, <2>4, OlderVerdict DEF Inv, Verdicts
    <3>3. OneInProgress'
      BY <2>1, <2>2 DEF Inv, OneInProgress, InProgress
    <3> QED
      BY <3>1, <3>2, <3>3 DEF TrueConfigs
  <2>6. ASSUME NEW q \in Ids, InProgress(q)' PROVE Working(q)'
    <3>1. Working(q)
      BY <2>1, <2>6 DEF Inv, InProgress
    <3>2. ASSUME NEW j \in Jobs(runs[q].flow) PROVE Command(q, j)'
      <4>1. Command(q, j)
        BY <3>1 DEF Working
      <4>2. Admitted(q)' = Admitted(q) /\ MayCall(q, j)' = MayCall(q, j)
        BY <2>1, <2>2 DEF Admitted, MayCall, Called, SaysItIsOver
      <4>3. CallsModel(q, j)' = CallsModel(q, j) /\ SourceIsKnown(q, j)' = SourceIsKnown(q, j)
        BY <2>1 DEF CallsModel, SourceIsKnown, Sources, Frozen, Called
      <4> QED
        BY <2>1, <4>1, <4>2, <4>3 DEF Command, Called, Judged
    <3> QED
      BY <2>1, <3>1, <3>2 DEF Working, JobsOf, Chain
  <2>7. Calls'
    BY <2>1, <2>2 DEF Inv, Calls, Called, Call, CallsModel, InProgress, Completed
  <2>8. Wins'
    BY <2>1, <2>2 DEF Inv, Wins, Judged
  <2> QED
    BY <2>2, <2>3, <2>5, <2>6, <2>7, <2>8 DEF Inv
<1>2. CASE Next
  BY <1>2, DispatchInv, StartInv, CancelInv, ReRunInv, JobStepInv DEF Next
<1> QED
  BY <1>1, <1>2

\* The invariant holds always.
LEMMA AlwaysInv == Spec => []Inv
  BY InitInv, NextInv, PTL DEF Spec

\* A success is one of an admitted run, and those have no rival.
LEMMA OneSuccessFollows == Inv => OneSuccess
<1> SUFFICES ASSUME Inv, NEW flow \in Flows PROVE Cardinality(won \cap Of(flow)) <= 1
  BY DEF OneSuccess
<1>1. won \subseteq Ids
  BY DEF Inv, Typed, TypeOK
<1>2. IsFiniteSet(won \cap Of(flow))
  <2>1. Len(runs) \in Int
    BY IdsType DEF Inv, Typed
  <2>2. IsFiniteSet(Ids)
    BY <2>1, FS_Interval DEF Ids
  <2> QED
    BY <1>1, <2>2, FS_Subset
<1>3. \A q, r \in won \cap Of(flow) : q = r
  BY DEF Inv, Wins, Of
<1> QED
  BY <1>2, <1>3, AtMostOne

\* A verdict is one of its job (Verdicts).
LEMMA VerdictNamesAttemptFollows == Inv => VerdictNamesAttempt
<1>1. ASSUME Inv, NEW v \in verdicts
      PROVE  /\ <<v[2], v[3]>> \in calls /\ <<v[1], v[3]>> \in frozen
             /\ v[1] # v[2] => <<v[2], v[3]>> \in uploaded /\ <<v[1], v[3]>> \notin calls
  <2>1. v[1] \in Ids /\ v[3] \in {First} \cup Tasks
    BY <1>1 DEF Inv, Typed, TypeOK
  <2>2. Called(v[1], v[3]) => CallsModel(v[1], v[3])
    BY <1>1, <2>1 DEF Inv, Calls, Call
  <2>3. Verdict(v)
    BY <1>1 DEF Inv, Verdicts
  <2> QED
    BY <2>2, <2>3 DEF Verdict, Called, Frozen
<1> QED
  BY <1>1, Zenon DEF VerdictNamesAttempt

\* A run whose commit names a recovery run called the model after that one had won.
LEMMA BatchAfterFirstFollows == Inv => BatchAfterFirst
<1> SUFFICES ASSUME Inv, NEW c \in calls, runs[c[1]].config.first # NoRun
             PROVE  LET first == runs[c[1]].config.first IN
                    /\ first \in won
                    /\ \E v \in verdicts : v[1] = first /\ v[3] = First /\ <<v[2], First>> \in calls
  BY DEF BatchAfterFirst
<1> DEFINE first == runs[c[1]].config.first
<1>1. c = <<c[1], c[2]>> /\ c[1] \in Ids /\ c[2] \in {First} \cup Tasks
  BY DEF Inv, Typed, TypeOK
<1>2. Call(c[1], c[2])
  BY <1>1 DEF Inv, Calls, Called
<1>3. first \in won /\ first \in Of("recovery")
  BY <1>2 DEF Call
<1>4. Judged(first, First)
  BY <1>3 DEF Inv, Wins, Of
<1>5. PICK v \in verdicts : v[1] = first /\ v[3] = First
  BY <1>4 DEF Judged
<1>6. <<v[2], v[3]>> \in calls
  BY DEF Inv, Verdicts, Verdict, Called
<1> QED
  BY <1>3, <1>5, <1>6

\* The one step that calls the model is of an admitted run, which has not called it before.
LEMMA RepeatIsDeclaredStep ==
  ASSUME Inv, [Next]_vars
  PROVE  \A c \in calls' \ calls : \A e \in calls :
           e[2] = c[2] /\ runs[e[1]].flow = runs[c[1]].flow =>
             c[2] # First /\ SaysItIsOver(runs[c[1]].config, e[1], c[2])
<1>1. CASE UNCHANGED calls
  BY <1>1
<1>2. CASE calls' # calls
  <2>1. PICK r \in Ids, j \in {First} \cup Tasks : StartModel(r, j)
    <3>1. Next
      BY <1>2 DEF vars, history
    <3>2. ASSUME NEW flow \in Flows, Dispatch(flow) PROVE FALSE
      BY <1>2, <3>2 DEF Dispatch, history
    <3>3. ASSUME NEW r \in Ids, Start(r) \/ Cancel(r) \/ ReRun(r) PROVE FALSE
      BY <1>2, <3>3 DEF Start, Cancel, ReRun, history
    <3>4. ASSUME NEW r \in Ids, NEW j \in {First} \cup Tasks, JobStep(r, j)
          PROVE  StartModel(r, j)
      BY <1>2, <3>4 DEF JobStep, Prepare, GenerateFails, ModelEnds, RecoverPrediction,
        CapturePrediction, Evaluate, Publish
    <3> QED
      BY <3>1, <3>2, <3>3, <3>4 DEF Next
  <2>2. /\ At(r, j, "generate") /\ CallsModel(r, j) /\ calls' = calls \cup {<<r, j>>}
        /\ "generate" \in Running
    BY <2>1 DEF StartModel, Running
  <2>3. MayCall(r, j)
    BY <2>2, JobAtWork DEF Command, At
  <2>4. ~Called(r, j)
    BY <2>2, NotYetCalled
  <2>5. ASSUME NEW c \in calls' \ calls, NEW e \in calls, e[2] = c[2],
               runs[e[1]].flow = runs[c[1]].flow
        PROVE  c[2] # First /\ SaysItIsOver(runs[c[1]].config, e[1], c[2])
    <3>1. c[1] = r /\ c[2] = j
      BY <2>2, <2>5
    <3>2. e = <<e[1], e[2]>> /\ e[1] \in Of(runs[r].flow)
      BY <2>5, <3>1 DEF Inv, Typed, TypeOK, Of
    <3>3. Called(e[1], j)
      BY <2>5, <3>1, <3>2 DEF Called
    <3>4. e[1] # r
      BY <2>4, <3>3
    <3> QED
      BY <2>3, <3>1, <3>2, <3>3, <3>4 DEF MayCall
  <2> QED
    BY <2>5
<1> QED
  BY <1>1, <1>2

\* The listing is one GitHub can give: a run has a conclusion exactly when it is completed, the
\* jobs of its workflow or none, and a commit that names listed runs; the history is of listed
\* runs and of their tasks.
THEOREM TypeCorrect == Spec => []TypeOK
<1>1. Inv => TypeOK
  BY DEF Inv, Typed
<1> QED
  BY <1>1, AlwaysInv, PTL

\* Of each workflow at most one run ever concludes with success: admission of a run fails once
\* another one has won, and a run that won can only be listed as a failed re-run.
THEOREM OneSuccessHolds == Spec => []OneSuccess
  BY OneSuccessFollows, AlwaysInv, PTL

\* Every official record names the run that called the model for what it judges, and another
\* run than its own only if that one published its evidence and its own called nothing.
THEOREM VerdictNamesAttemptHolds == Spec => []VerdictNamesAttempt
  BY VerdictNamesAttemptFollows, AlwaysInv, PTL

\* A batch whose commit names the recovery run of the first task gives none of its tasks to the
\* model before that run has won, with the official verdict it recorded of an attempt of it.
THEOREM BatchAfterFirstHolds == Spec => []BatchAfterFirst
  BY BatchAfterFirstFollows, AlwaysInv, PTL

\* A workflow gives a task to the model again only where the run's commit declares the attempt
\* that another of its runs made as over, and the first task never.
THEOREM RepeatIsDeclaredHolds == Spec => RepeatIsDeclared
<1>1. Inv /\ [Next]_vars =>
        [\A c \in calls' \ calls : \A e \in calls :
           e[2] = c[2] /\ runs[e[1]].flow = runs[c[1]].flow =>
             c[2] # First /\ SaysItIsOver(runs[c[1]].config, e[1], c[2])]_vars
  BY RepeatIsDeclaredStep
<1> QED
  BY <1>1, AlwaysInv, PTL DEF Spec, RepeatIsDeclared

=============================================================================
