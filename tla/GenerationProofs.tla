-------------------------- MODULE GenerationProofs --------------------------
(***************************************************************************)
(* Theorems about module Generation, for every number of tasks, every      *)
(* concurrency and any number of disk faults.                              *)
(***************************************************************************)
EXTENDS Generation, TLAPS

\* Every way a worker process can end is an outcome its caller knows.
LEMMA OutcomesAreCli ==
  /\ SpawnFailed \in CliOutcomes
  /\ \A c \in BOOLEAN : Closed(c) \in CliOutcomes /\ Graceful(c) \in CliOutcomes
  /\ \A e, c \in BOOLEAN : Forced(e, c) \in CliOutcomes
BY DEF CliOutcomes, SpawnedOutcomes

\* The fields of a result are the flags its callers test.
LEMMA CliFields == {Pending} \cup CliOutcomes \subseteq CliResult
<1> USE DEF CliResult, Closures
<1>1. Pending \in CliResult /\ SpawnFailed \in CliResult
  BY DEF Pending, SpawnFailed
<1>2. \A c \in BOOLEAN : Closed(c) \in CliResult /\ Graceful(c) \in CliResult
  BY DEF Closed, Graceful
<1>3. \A e, c \in BOOLEAN : Forced(e, c) \in CliResult
  BY DEF Forced
<1> QED
  BY <1>1, <1>2, <1>3 DEF CliOutcomes, SpawnedOutcomes

\* Every record runTask can be about to write is a disposition with a stage.
LEMMA RecordsAreOutcomes ==
  /\ \A s \in Stages : Inconclusive(s) \in Outcome
  /\ \A d \in Dispositions : Conclusive(d) \in Outcome
BY DEF Outcome, Inconclusive, Conclusive, Dispositions, Stages

\* The decision over a process result is always one of those records.
LEMMA DecisionIsOutcome ==
  ASSUME NEW c, NEW e, NEW p, c.error \in BOOLEAN, c.timedOut \in BOOLEAN
  PROVE  Decision(c, e, p) \in Outcome
BY RecordsAreOutcomes DEF Decision, Dispositions, Stages

\* The stage a failed finish() is recorded under is a stage.
LEMMA FrameStageIsStage ==
  ASSUME NEW o \in Outcome \cup {Absent}
  PROVE  FrameStage(o) \in Stages
BY DEF FrameStage, Outcome, Absent, Stages, CheckoutStages, Dispositions

-----------------------------------------------------------------------------
(* Type correctness. *)

\* The initial state has the type.
LEMMA InitType == Init => TypeOK
BY NTasksAssumption, MaxFaultsAssumption DEF Init, TypeOK, EvidenceKinds, Labels

-----------------------------------------------------------------------------
(* What the shorthand actions of a frame do to the type. *)

\* The program counter and the event loop keep their types in every move.
LEMMA MoveType ==
  ASSUME TypeOK, NEW t \in Task, NEW to \in Labels, Go(t, to) \/ Yield(t, to)
  PROVE  loop' \in Task \cup {0} /\ pc' \in [Task -> Labels]
BY DEF TypeOK, Go, Yield

\* The bound on disk faults is kept.
LEMMA FaultType == ASSUME TypeOK, DiskFault PROVE faults' \in 0..MaxFaults
BY MaxFaultsAssumption DEF TypeOK, DiskFault

\* A frame that finishes or throws has a record to write.
LEMMA RecordType ==
  ASSUME TypeOK, NEW t \in Task,
         \/ \E o \in Outcome : Finish(t, o)
         \/ \E s \in Stages : Throw(t, s)
  PROVE  /\ loop' \in Task \cup {0} /\ pc' \in [Task -> Labels]
         /\ pending' \in [Task -> Outcome \cup {Absent}]
BY MoveType, RecordsAreOutcomes DEF TypeOK, Finish, Throw, Go, Labels, Sync

\* Killing the account leaves every task with a result it knows.
LEMMA KillType ==
  ASSUME TypeOK, NEW t \in Task, NEW own \in {Pending} \cup CliOutcomes, KillAccount(t, own)
  PROVE  /\ worker' \in [Task -> BOOLEAN] /\ stray' \in [Task -> BOOLEAN]
         /\ victim' \in [Task -> BOOLEAN] /\ ran' \in [Task -> BOOLEAN]
         /\ cli' \in [Task -> {Pending} \cup CliOutcomes]
<1>1. KilledResults \subseteq CliOutcomes
  BY OutcomesAreCli DEF KilledResults
<1> QED
  BY <1>1 DEF TypeOK, KillAccount

\* Every step keeps the type: one step of the proof per action.
LEMMA NextType == TypeOK /\ [Next]_vars => TypeOK'
<1> SUFFICES ASSUME TypeOK, [Next]_vars PROVE TypeOK'
  OBVIOUS
<1> USE DEF Labels, Sync, Awaiting, Finished
<1>1. ASSUME NEW t \in Task, Start(t) PROVE TypeOK'
  BY <1>1, MoveType, FaultType DEF Start, TypeOK, procVars
<1>2. ASSUME NEW t \in Task, Checkout(t) PROVE TypeOK'
  BY <1>2, MoveType, RecordType, RecordsAreOutcomes
     DEF Checkout, TypeOK, procVars, diskVars, Stages, CheckoutStages
<1>3. ASSUME NEW t \in Task, Prepare(t) PROVE TypeOK'
  BY <1>3, MoveType, RecordType DEF Prepare, Spawn, TypeOK, procVars, diskVars, Stages
<1>4. ASSUME NEW t \in Task, Prepared(t) PROVE TypeOK'
  BY <1>4, MoveType, RecordType DEF Prepared, Spawn, TypeOK, procVars, diskVars, Stages
<1>5. ASSUME NEW t \in Task, Checked(t) PROVE TypeOK'
  BY <1>5, MoveType, RecordType DEF Checked, TypeOK, procVars, diskVars, Stages
<1>6. ASSUME NEW t \in Task, Probe(t) PROVE TypeOK'
  BY <1>6, MoveType, RecordType DEF Probe, Spawn, TypeOK, procVars, diskVars, Stages
<1>7. ASSUME NEW t \in Task, Probed(t) PROVE TypeOK'
  BY <1>7, MoveType, RecordType, RecordsAreOutcomes
     DEF Probed, TypeOK, procVars, diskVars, Stages, Dispositions
<1>8. ASSUME NEW t \in Task, Launch(t) PROVE TypeOK'
  <2>1. CASE \E s \in {"worker-probe", "cli-run"} : Throw(t, s) /\ UNCHANGED procVars
    BY <1>8, <2>1, RecordType DEF Launch, TypeOK, procVars, diskVars, Stages
  <2>2. CASE Spawn(t, "running") /\ UNCHANGED pending
    BY <1>8, <2>2, MoveType DEF Launch, Spawn, TypeOK, diskVars
  <2>3. CASE /\ Yield(t, "running") /\ cli' = [cli EXCEPT ![t] = SpawnFailed]
             /\ UNCHANGED <<worker, stray, ran, victim, pending>>
    BY <1>8, <2>3, MoveType, OutcomesAreCli DEF Launch, TypeOK, diskVars
  <2> QED
    BY <1>8, <2>1, <2>2, <2>3 DEF Launch
<1>9. ASSUME NEW t \in Task, Collect(t) PROVE TypeOK'
  BY <1>9, MoveType, RecordType, KillType DEF Collect, TypeOK, procVars, Stages, EvidenceKinds
<1>10. ASSUME NEW t \in Task, Decide(t) PROVE TypeOK'
  <2>1. CASE DiskFault /\ Throw(t, "cli-run")
    BY <1>10, <2>1, RecordType, FaultType DEF Decide, TypeOK, procVars, diskVars, Stages
  <2>2. ASSUME NEW p \in Patches, UNCHANGED faults,
               LET outcome == Decision(cli[t], evidence[t], p) IN
                 IF outcome = Conclusive("frozen-prediction")
                 THEN Go(t, "predict") /\ UNCHANGED pending
                 ELSE Finish(t, outcome)
        PROVE  TypeOK'
    <3>1. cli[t] \in CliResult
      BY CliFields DEF TypeOK
    <3>2. Decision(cli[t], evidence[t], p) \in Outcome
      BY <3>1, DecisionIsOutcome DEF CliResult
    <3> QED
      BY <1>10, <2>2, <3>2, MoveType, RecordType DEF Decide, TypeOK, procVars, diskVars
  <2> QED
    BY <1>10, <2>1, <2>2 DEF Decide
<1>11. ASSUME NEW t \in Task, Predict(t) PROVE TypeOK'
  BY <1>11, MoveType, RecordType, RecordsAreOutcomes, FaultType
     DEF Predict, TypeOK, procVars, Stages, Dispositions
<1>12. ASSUME NEW t \in Task, WriteReceipt(t) PROVE TypeOK'
  <2>1. FrameStage(pending[t]) \in Stages
    BY FrameStageIsStage DEF TypeOK
  <2> QED
    BY <1>12, <2>1, MoveType, RecordType, FaultType
       DEF WriteReceipt, ReceiptFaults, TypeOK, procVars
<1>13. ASSUME NEW t \in Task, CatchReceipt(t) PROVE TypeOK'
  BY <1>13, MoveType, FaultType DEF CatchReceipt, ReceiptFaults, TypeOK, procVars
<1>14. ASSUME NEW t \in Task, Cleanup(t) PROVE TypeOK'
  BY <1>14, MoveType, KillType DEF Cleanup, TypeOK, procVars
<1>15. ASSUME NEW t \in Task, Safe(t) PROVE TypeOK'
  <2>1. CASE SafeReadsReceipt(t)
    BY <1>15, <2>1, MoveType DEF Safe, SafeReadsReceipt, TypeOK, procVars
  <2>2. CASE SafeWritesReceipt(t)
    <3>1. Inconclusive("harness") \in Outcome
      BY RecordsAreOutcomes DEF Stages
    <3> QED
      BY <1>15, <2>2, <3>1, MoveType, FaultType
         DEF Safe, SafeWritesReceipt, ReceiptFaults, TypeOK, procVars
  <2> QED
    BY <1>15, <2>1, <2>2 DEF Safe
<1>16. ASSUME NEW t \in Task, WorkerExits(t) PROVE TypeOK'
  BY <1>16, OutcomesAreCli DEF WorkerExits, TypeOK, diskVars
<1>17. ASSUME NEW t \in Task, ForceFires(t) PROVE TypeOK'
  <2>1. CASE \E c \in BOOLEAN : KillAccount(t, Forced(FALSE, c))
    BY <1>17, <2>1, OutcomesAreCli, KillType DEF ForceFires, TypeOK, diskVars
  <2>2. CASE /\ worker' = [worker EXCEPT ![t] = FALSE]
             /\ \E c \in BOOLEAN : cli' = [cli EXCEPT ![t] = Forced(TRUE, c)]
             /\ \E s \in BOOLEAN : stray' = [stray EXCEPT ![t] = s]
             /\ UNCHANGED <<ran, victim>>
    <3>1. /\ UNCHANGED <<preflight, phase, base, loop, pc, pending, result>>
          /\ UNCHANGED <<diskVars, faults>>
      BY <1>17 DEF ForceFires
    <3>2. /\ worker' \in [Task -> BOOLEAN] /\ stray' \in [Task -> BOOLEAN]
          /\ UNCHANGED <<ran, victim>>
      BY <2>2 DEF TypeOK
    <3>3. cli' \in [Task -> {Pending} \cup CliOutcomes]
      <4>1. PICK c \in BOOLEAN : cli' = [cli EXCEPT ![t] = Forced(TRUE, c)]
        BY <2>2
      <4>2. Forced(TRUE, c) \in CliOutcomes
        BY OutcomesAreCli
      <4>3. cli \in [Task -> {Pending} \cup CliOutcomes]
        BY DEF TypeOK
      <4> QED
        BY <4>1, <4>2, <4>3
    <3> QED
      BY <3>1, <3>2, <3>3 DEF TypeOK, diskVars
  <2> QED
    BY <1>17, <2>1, <2>2 DEF ForceFires
<1>18. ASSUME NEW t \in Task, OutputFault(t) PROVE TypeOK'
  BY <1>18, FaultType DEF OutputFault, TypeOK, procVars, diskVars
<1>19. CASE NextBatch
  BY <1>19, ConcurrencyAssumption DEF NextBatch, TypeOK, procVars, diskVars
<1>20. CASE Report \/ Abort
  BY <1>20, FaultType DEF Report, Abort, TypeOK, procVars, diskVars
<1>21. CASE UNCHANGED vars
  BY <1>21 DEF vars, TypeOK, procVars, diskVars
<1> QED
  BY <1>1, <1>2, <1>3, <1>4, <1>5, <1>6, <1>7, <1>8, <1>9, <1>10, <1>11, <1>12, <1>13, <1>14,
     <1>15, <1>16, <1>17, <1>18, <1>19, <1>20, <1>21
     DEF Next, Controller, Frame, WorkerEnds, Stopped

\* Every variable keeps its type in every behaviour.
THEOREM TypeCorrect == Spec => []TypeOK
BY InitType, NextType, PTL DEF Spec

-----------------------------------------------------------------------------
(* The inductive invariant: what holds of the frame, the processes and the files of  *)
(* one task at every label.  None of the safety invariants is inductive by itself:   *)
(* a receipt is right because of what the frame knew before it wrote it.             *)

BeforeModel == {"idle", "cloning", "prepare", "preparing", "checking", "probe", "probing", "launch"}

\* No receipt has been attempted that left a file.
BeforeReceipt ==
  BeforeModel \cup {"running", "decide", "predict", "finish", "catch"}

Prepares == (BeforeModel \ {"idle"}) \cup {"running"}

\* What the record o may claim of task t.
Earned(t, o) ==
  /\ o.disposition \in {"no-diff", "frozen-prediction"} =>
       ran[t] /\ evidence[t] = "completed" /\ cli[t] = Closed(TRUE)
  /\ o.disposition = "frozen-prediction" => prediction[t]
  /\ o.disposition = "model-timeout" =>
       ran[t] /\ Complete(evidence[t]) /\ cli[t] \in {Graceful(c) : c \in BOOLEAN}
  /\ o.disposition = "environment-prepared" => ~ran[t]

\* The worker and the directory of the task.
Processes(t) ==
  /\ worker[t] => pc[t] \in Awaiting
  /\ pc[t] \in {"decide", "predict"} => ~stray[t]
  /\ worker[t] \/ stray[t] => taskDir[t]
  /\ pc[t] \in Prepares => taskDir[t]
  /\ pc[t] \in BeforeModel => ~ran[t]
  /\ pc[t] \in {"running", "decide"} => ran[t] \/ (cli[t] = SpawnFailed /\ ~worker[t])

\* The record the frame is about to write, and the one it has written.
Records(t) ==
  /\ pc[t] \in BeforeReceipt => receipt[t] = Absent
  /\ pc[t] = "predict" => ran[t] /\ evidence[t] = "completed" /\ cli[t] = Closed(TRUE)
  /\ pc[t] = "finish" => pending[t] \in Outcome /\ Earned(t, pending[t])
  /\ pc[t] = "catch" => /\ pending[t] \in Outcome
                        /\ pending[t].disposition = "generation-inconclusive"
  /\ pc[t] = "cleanup" => receipt[t] \in Outcome /\ result[t] = receipt[t]
  /\ pc[t] = "done" =>
       \/ receipt[t] \in Outcome /\ result[t] = receipt[t]
       \/ receipt[t] = Absent /\ artifacts[t] = "absent" /\ result[t] = Inconclusive("harness")
  /\ Earned(t, receipt[t])

\* Only the current batch is under way.
Batching(t) ==
  /\ t < base => pc[t] = "done"
  /\ t >= base + Concurrency => pc[t] = "idle"

FrameInv == TypeOK /\ \A t \in Task : Processes(t) /\ Records(t) /\ Batching(t)

\* It holds initially.
LEMMA InitFrame == Init => FrameInv
<1> SUFFICES ASSUME Init, NEW t \in Task PROVE Processes(t) /\ Records(t) /\ Batching(t)
  BY InitType DEF FrameInv
<1>1. pc[t] = "idle" /\ receipt[t] = Absent /\ ~worker[t] /\ ~stray[t] /\ ~ran[t]
  BY DEF Init
<1>2. Processes(t) /\ Records(t)
  BY <1>1 DEF Processes, Records, Earned, Absent, Prepares, BeforeModel, BeforeReceipt
<1>3. Batching(t)
  BY <1>1 DEF Init, Batching, Task
<1> QED
  BY <1>2, <1>3

\* What the steps of other tasks may do to u: nothing, or kill its processes.
Untouched(u) ==
  /\ pc'[u] = pc[u] /\ pending'[u] = pending[u] /\ result'[u] = result[u]
  /\ taskDir'[u] = taskDir[u] /\ artifacts'[u] = artifacts[u] /\ evidence'[u] = evidence[u]
  /\ prediction'[u] = prediction[u] /\ receipt'[u] = receipt[u] /\ ran'[u] = ran[u]
  /\ \/ worker'[u] = worker[u] /\ stray'[u] = stray[u] /\ cli'[u] = cli[u]
     \/ ~worker'[u] /\ ~stray'[u] /\ (worker[u] \/ cli'[u] = cli[u])

\* Being killed from outside disturbs nothing the invariant says of a task.
LEMMA UntouchedKeeps ==
  ASSUME FrameInv, NEW u \in Task, Untouched(u)
  PROVE  Processes(u)' /\ Records(u)'
<1>1. Processes(u) /\ Records(u) /\ worker[u] \in BOOLEAN /\ stray[u] \in BOOLEAN
  BY DEF FrameInv, TypeOK
<1>2. Processes(u)'
  BY <1>1 DEF Untouched, Processes, Awaiting
<1>3. CASE worker[u]
  <2>1. pc[u] \in Awaiting /\ receipt[u] = Absent
    BY <1>1, <1>3 DEF Processes, Records, BeforeReceipt, BeforeModel, Awaiting
  <2>2. Earned(u, receipt[u])'
    BY <2>1 DEF Untouched, Earned, Absent
  <2> QED
    BY <1>1, <1>2, <2>1, <2>2 DEF Untouched, Records, Awaiting
<1>4. CASE ~worker[u]
  <2>1. cli'[u] = cli[u]
    BY <1>4 DEF Untouched
  <2>2. ASSUME NEW o, Earned(u, o) PROVE Earned(u, o)'
    BY <2>1, <2>2 DEF Untouched, Earned
  <2> QED
    BY <1>1, <1>2, <2>1, <2>2 DEF Untouched, Records, Earned
<1> QED
  BY <1>1, <1>3, <1>4

\* Killing the account on behalf of t leaves every other task untouched.
LEMMA KillTouchesOne ==
  ASSUME TypeOK, NEW t \in Task, NEW u \in Task, u # t, NEW own, KillAccount(t, own)
  PROVE  /\ ~worker'[u] /\ ~stray'[u] /\ (worker[u] \/ cli'[u] = cli[u])
         /\ ran'[u] = ran[u]
BY DEF TypeOK, KillAccount

\* A step of one task leaves every other task untouched.
LEMMA StepTouchesOne ==
  ASSUME TypeOK, NEW t \in Task, NEW u \in Task, u # t,
         Frame(t) \/ WorkerEnds(t) \/ OutputFault(t)
  PROVE  Untouched(u)
<1> USE DEF Untouched, TypeOK, Go, Yield, Finish, Throw, procVars, diskVars
<1>1. CASE Start(t)
  BY <1>1 DEF Start
<1>2. CASE Checkout(t)
  BY <1>2 DEF Checkout
<1>3. CASE Prepare(t) \/ Prepared(t) \/ Checked(t)
  BY <1>3 DEF Prepare, Prepared, Checked, Spawn
<1>4. CASE Probe(t) \/ Probed(t)
  BY <1>4 DEF Probe, Probed, Spawn
<1>5. CASE Launch(t)
  BY <1>5 DEF Launch, Spawn
<1>6. CASE Collect(t)
  BY <1>6, KillTouchesOne DEF Collect
<1>7. CASE Decide(t)
  BY <1>7 DEF Decide
<1>8. CASE Predict(t)
  BY <1>8 DEF Predict
<1>9. CASE WriteReceipt(t) \/ CatchReceipt(t)
  BY <1>9 DEF WriteReceipt, CatchReceipt
<1>10. CASE Cleanup(t)
  BY <1>10, KillTouchesOne DEF Cleanup
<1>11. CASE Safe(t)
  BY <1>11 DEF Safe, SafeReadsReceipt, SafeWritesReceipt
<1>12. CASE WorkerEnds(t)
  BY <1>12, KillTouchesOne DEF WorkerEnds, WorkerExits, ForceFires
<1>13. CASE OutputFault(t)
  BY <1>13 DEF OutputFault
<1> QED
  BY <1>1, <1>2, <1>3, <1>4, <1>5, <1>6, <1>7, <1>8, <1>9, <1>10, <1>11, <1>12, <1>13 DEF Frame

\* Killing the account on behalf of t leaves t quiet and its result as it was given.
LEMMA KillOwn ==
  ASSUME TypeOK, NEW t \in Task, NEW own, KillAccount(t, own)
  PROVE  ~worker'[t] /\ ~stray'[t] /\ cli'[t] = own /\ ran'[t] = ran[t]
BY DEF TypeOK, KillAccount

\* An inconclusive record claims nothing, nor does an absent or a torn one.
LEMMA NothingToEarn ==
  ASSUME NEW t \in Task
  PROVE  /\ \A s \in Stages : /\ Inconclusive(s) \in Outcome
                            /\ Inconclusive(s).disposition = "generation-inconclusive"
                            /\ Earned(t, Inconclusive(s))
         /\ Earned(t, Absent) /\ Earned(t, Torn)
BY RecordsAreOutcomes DEF Inconclusive, Earned, Absent, Torn

\* The decision is earned: only a clean, complete process becomes a prediction, and
\* only a graceful timeout with complete evidence becomes the model's own.
LEMMA DecisionIsEarned ==
  ASSUME TypeOK, NEW t \in Task, NEW p \in Patches, ran[t] \/ cli[t] = SpawnFailed
  PROVE  LET o == Decision(cli[t], evidence[t], p) IN
         /\ o \in Outcome
         /\ o # Conclusive("frozen-prediction") => Earned(t, o)
         /\ o = Conclusive("frozen-prediction") =>
              ran[t] /\ evidence[t] = "completed" /\ cli[t] = Closed(TRUE)
<1> DEFINE c == cli[t]
           e == evidence[t]
           o == Decision(c, e, p)
<1>1. c \in CliResult /\ c \in {Pending} \cup CliOutcomes
  BY CliFields DEF TypeOK
<1>2. o \in Outcome
  BY <1>1, DecisionIsOutcome DEF CliResult
<1>3. ~c.error /\ ~c.timedOut /\ c.clean => c = Closed(TRUE)
  <2>1. CASE \E b \in BOOLEAN : c = Closed(b)
    <3>1. PICK b \in BOOLEAN : c = Closed(b)
      BY <2>1
    <3>2. c.clean = b
      BY <3>1 DEF Closed
    <3> QED
      BY <3>1, <3>2
  <2>2. CASE ~\E b \in BOOLEAN : c = Closed(b)
    BY <1>1, <2>2 DEF CliOutcomes, SpawnedOutcomes, SpawnFailed, Pending, Graceful, Forced
  <2> QED
    BY <2>1, <2>2
<1>4. ~c.error /\ c.timedOut /\ c.closure = "graceful" => c \in {Graceful(b) : b \in BOOLEAN}
  BY <1>1 DEF CliOutcomes, SpawnedOutcomes, SpawnFailed, Pending, Closed, Graceful, Forced
<1>5. ~c.error => ran[t]
  BY DEF SpawnFailed
<1>6. c.error \in BOOLEAN /\ c.timedOut \in BOOLEAN
  BY <1>1 DEF CliResult
<1> HIDE DEF c, e
<1>7. \/ o.disposition = "generation-inconclusive"
      \/ /\ o = Conclusive("model-timeout") /\ Complete(e)
         /\ ~c.error /\ c.timedOut /\ c.closure = "graceful"
      \/ /\ o = Conclusive("no-diff") \/ o = Conclusive("frozen-prediction")
         /\ ~c.error /\ ~c.timedOut /\ c.clean /\ e = "completed"
  BY <1>6 DEF Decision, Inconclusive
<1> HIDE DEF o
<1>8. \A d \in Dispositions : Conclusive(d).disposition = d
  BY DEF Conclusive
<1> USE <1>8 DEF Dispositions
<1>9. /\ o # Conclusive("frozen-prediction") => Earned(t, o)
      /\ o = Conclusive("frozen-prediction") => ran[t] /\ e = "completed" /\ c = Closed(TRUE)
  <2>1. CASE o.disposition = "generation-inconclusive"
    BY <2>1 DEF Earned
  <2>2. CASE o = Conclusive("model-timeout")
    <3>1. Complete(e) /\ c \in {Graceful(b) : b \in BOOLEAN} /\ ran[t]
      BY <1>4, <1>5, <1>7, <2>2
    <3>2. Earned(t, o)
      BY <2>2, <3>1 DEF Earned, c, e
    <3> QED
      BY <2>2, <3>2
  <2>3. CASE o = Conclusive("no-diff") \/ o = Conclusive("frozen-prediction")
    <3>1. e = "completed" /\ c = Closed(TRUE) /\ ran[t]
      BY <1>3, <1>5, <1>7, <2>3
    <3>2. o = Conclusive("no-diff") => Earned(t, o)
      BY <3>1 DEF Earned, c, e
    <3> QED
      BY <2>3, <3>1, <3>2
  <2> QED
    BY <1>7, <2>1, <2>2, <2>3
<1> QED
  BY <1>2, <1>9 DEF c, e, o

\* A receipt that is absent, torn or inconclusive claims nothing after the step.
LEMMA NothingClaimed ==
  ASSUME NEW t \in Task,
         receipt'[t].disposition \in {"absent", "torn", "generation-inconclusive"}
  PROVE  Earned(t, receipt[t])'
BY DEF Earned

\* A frame that throws with no receipt on disk may say so.
LEMMA CatchRecords ==
  ASSUME NEW t \in Task, NEW s \in Stages,
         pc'[t] = "catch", pending'[t] = Inconclusive(s), receipt'[t] = Absent
  PROVE  Records(t)'
<1>1. Earned(t, receipt[t])'
  BY NothingClaimed DEF Absent
<1>2. pending'[t] \in Outcome /\ pending'[t].disposition = "generation-inconclusive"
  BY RecordsAreOutcomes DEF Inconclusive
<1> QED
  BY <1>1, <1>2 DEF Records, BeforeReceipt, BeforeModel

\* A frame between two awaits, with no receipt on disk, records nothing.
LEMMA SilentRecords ==
  ASSUME NEW t \in Task, pc'[t] \in BeforeModel \cup {"running", "decide"}, receipt'[t] = Absent
  PROVE  Records(t)'
<1>1. Earned(t, receipt[t])'
  BY NothingClaimed DEF Absent
<1> QED
  BY <1>1 DEF Records, BeforeReceipt, BeforeModel

\* A step of a task keeps what the invariant says of that task, up to the model ...
LEMMA OwnStepBefore ==
  ASSUME FrameInv, NEW t \in Task,
         \/ Start(t) \/ Checkout(t) \/ Prepare(t) \/ Prepared(t) \/ Checked(t) \/ Probe(t)
         \/ Probed(t) \/ Launch(t)
  PROVE  Processes(t)' /\ Records(t)'
<1>0. TypeOK /\ Processes(t) /\ Records(t)
  BY DEF FrameInv
<1> USE <1>0 DEF TypeOK, Go, Yield, Finish, Throw, At, Resumes, Awaiting, procVars, diskVars,
                 Prepares, BeforeModel, BeforeReceipt
<1>1. CASE Start(t)
  BY <1>1 DEF Start, Processes, Records, Earned, Absent
<1>2. CASE Checkout(t)
  <2>1. \A s \in CheckoutStages : /\ Inconclusive(s) \in Outcome
                                 /\ Inconclusive(s).disposition = "generation-inconclusive"
    BY NothingToEarn DEF Stages
  <2> QED
    BY <1>2, <2>1 DEF Checkout, Processes, Records, Earned, Absent
<1>3. \A s \in {"preparation", "worker-probe", "cli-run"} :
        /\ Inconclusive(s) \in Outcome
        /\ Inconclusive(s).disposition = "generation-inconclusive"
  BY RecordsAreOutcomes DEF Stages, Inconclusive
<1>4. CASE Prepare(t) \/ Prepared(t) \/ Checked(t)
  BY <1>3, <1>4 DEF Prepare, Prepared, Checked, Spawn, Processes, Records, Earned, Absent
<1>5. CASE Probe(t)
  BY <1>3, <1>5 DEF Probe, Spawn, Processes, Records, Earned, Absent
<1>6. CASE Probed(t)
  <2>1. /\ Conclusive("environment-prepared") \in Outcome
        /\ Conclusive("environment-prepared").disposition = "environment-prepared"
    BY RecordsAreOutcomes DEF Dispositions, Conclusive
  <2> QED
    BY <1>3, <1>6, <2>1 DEF Probed, Processes, Records, Earned, Absent
<1>7. CASE Launch(t)
  <2>1. CASE \E s \in {"worker-probe", "cli-run"} : Throw(t, s) /\ UNCHANGED procVars
    <3>1. PICK s \in Stages : pc'[t] = "catch" /\ pending'[t] = Inconclusive(s)
      BY <2>1 DEF Stages
    <3>2. receipt'[t] = Absent
      BY <1>7 DEF Launch, Records
    <3>3. Processes(t)'
      BY <1>7, <2>1, <3>1 DEF Launch, Processes
    <3> QED
      BY <3>1, <3>2, <3>3, CatchRecords
  <2>2. CASE Spawn(t, "running") /\ UNCHANGED pending
    <3>1. pc'[t] = "running" /\ receipt'[t] = Absent /\ ran'[t] /\ taskDir'[t]
      BY <1>7, <2>2 DEF Launch, Spawn, Processes, Records
    <3> QED
      BY <3>1, SilentRecords DEF Processes
  <2>3. CASE /\ Yield(t, "running") /\ cli' = [cli EXCEPT ![t] = SpawnFailed]
             /\ UNCHANGED <<worker, stray, ran, victim, pending>>
    BY <1>7, <2>3 DEF Launch, Processes, Records, Earned, Absent
  <2> QED
    BY <1>7, <2>1, <2>2, <2>3 DEF Launch
<1> QED
  BY <1>1, <1>2, <1>4, <1>5, <1>6, <1>7

\* ... from the model to the decision ...
LEMMA OwnStepModel ==
  ASSUME FrameInv, NEW t \in Task,
         Collect(t) \/ Decide(t) \/ Predict(t) \/ WorkerEnds(t) \/ OutputFault(t)
  PROVE  Processes(t)' /\ Records(t)'
<1>0. TypeOK /\ Processes(t) /\ Records(t)
  BY DEF FrameInv
<1> USE <1>0 DEF TypeOK, Go, Yield, Finish, Throw, At, Resumes, Awaiting, procVars, diskVars,
                 Prepares, BeforeModel, BeforeReceipt
<1>1. \A s \in {"cli-run", "patch-freeze"} :
        /\ Inconclusive(s) \in Outcome
        /\ Inconclusive(s).disposition = "generation-inconclusive"
  BY RecordsAreOutcomes DEF Stages, Inconclusive
<1>2. CASE Collect(t)
  <2>1. CASE Throw(t, "cli-run")
    <3>1. /\ pc'[t] = "catch" /\ pending'[t] = Inconclusive("cli-run")
          /\ receipt'[t] = Absent /\ ~worker'[t] /\ (stray'[t] => taskDir'[t])
      BY <1>2, <2>1, KillOwn DEF Collect, Processes, Records
    <3>2. Records(t)'
      BY <3>1, CatchRecords DEF Stages
    <3> QED
      BY <3>1, <3>2 DEF Processes
  <2>2. CASE Go(t, "decide") /\ KillAccount(t, cli[t])
    <3>1. /\ pc'[t] = "decide" /\ receipt'[t] = Absent /\ ~worker'[t] /\ ~stray'[t]
          /\ cli'[t] = cli[t] /\ ran'[t] = ran[t] /\ pc[t] = "running"
      BY <1>2, <2>2, KillOwn DEF Collect, Records
    <3>2. Records(t)'
      BY <3>1, SilentRecords
    <3> QED
      BY <3>1, <3>2 DEF Processes
  <2> QED
    BY <1>2, <2>1, <2>2 DEF Collect
<1>3. CASE Decide(t)
  <2>1. CASE DiskFault /\ Throw(t, "cli-run")
    <3>1. pc'[t] = "catch" /\ pending'[t] = Inconclusive("cli-run") /\ receipt'[t] = Absent
      BY <1>3, <2>1 DEF Decide, Records
    <3>2. Records(t)'
      BY <3>1, CatchRecords DEF Stages
    <3> QED
      BY <1>3, <3>1, <3>2 DEF Decide, Processes
  <2>2. ASSUME NEW p \in Patches,
               LET outcome == Decision(cli[t], evidence[t], p) IN
                 IF outcome = Conclusive("frozen-prediction")
                 THEN Go(t, "predict") /\ UNCHANGED pending
                 ELSE Finish(t, outcome)
        PROVE  Processes(t)' /\ Records(t)'
    <3> DEFINE o == Decision(cli[t], evidence[t], p)
    <3>1. o \in Outcome /\ (o # Conclusive("frozen-prediction") => Earned(t, o))
          /\ (o = Conclusive("frozen-prediction") =>
               ran[t] /\ evidence[t] = "completed" /\ cli[t] = Closed(TRUE))
      <4>1. ran[t] \/ cli[t] = SpawnFailed
        BY <1>3 DEF Decide, Processes
      <4> QED
        BY <4>1, DecisionIsEarned
    <3>2. /\ UNCHANGED <<procVars, diskVars>> /\ receipt[t] = Absent /\ pc[t] = "decide"
          /\ \/ pc'[t] = "predict" /\ o = Conclusive("frozen-prediction")
             \/ pc'[t] = "finish" /\ pending'[t] = o /\ o # Conclusive("frozen-prediction")
      BY <1>3, <2>2 DEF Decide, Records
    <3> HIDE DEF o
    <3>3. Processes(t)'
      BY <3>2 DEF Processes
    <3>4. Earned(t, receipt[t])'
      BY <3>2, NothingClaimed DEF Absent
    <3>5. pc'[t] = "finish" => pending'[t] \in Outcome /\ Earned(t, pending[t])'
      BY <3>1, <3>2 DEF Earned
    <3> QED
      BY <3>1, <3>2, <3>3, <3>4, <3>5 DEF Records
  <2> QED
    BY <1>3, <2>1, <2>2 DEF Decide
<1>4. CASE Predict(t)
  <2>1. /\ Conclusive("frozen-prediction") \in Outcome
        /\ Conclusive("frozen-prediction").disposition = "frozen-prediction"
    BY RecordsAreOutcomes DEF Dispositions, Conclusive
  <2> QED
    BY <1>1, <1>4, <2>1 DEF Predict, Processes, Records, Earned, Absent
<1>5. CASE WorkerEnds(t)
  <2>1. /\ UNCHANGED <<pc, pending, result, diskVars>> /\ ran'[t] = ran[t] /\ worker[t] /\ ~worker'[t]
    BY <1>5, KillOwn DEF WorkerEnds, WorkerExits, ForceFires
  <2>2. pc[t] \in {"preparing", "checking", "probing", "running"} /\ receipt[t] = Absent /\ taskDir[t]
    BY <2>1 DEF Processes, Records
  <2>3. Records(t)'
    BY <2>1, <2>2, SilentRecords
  <2> QED
    BY <2>1, <2>2, <2>3 DEF Processes
<1>6. CASE OutputFault(t)
  BY <1>6 DEF OutputFault, Processes, Records, Earned
<1> QED
  BY <1>2, <1>3, <1>4, <1>5, <1>6

\* ... and from the first attempt to write the receipt to the end.
LEMMA OwnStepAfter ==
  ASSUME FrameInv, NEW t \in Task,
         WriteReceipt(t) \/ CatchReceipt(t) \/ Cleanup(t) \/ Safe(t)
  PROVE  Processes(t)' /\ Records(t)'
<1>0. TypeOK /\ Processes(t) /\ Records(t)
  BY DEF FrameInv
<1> USE <1>0 DEF TypeOK, Go, Yield, Finish, Throw, At, Resumes, Awaiting, procVars, diskVars,
                 Prepares, BeforeModel, BeforeReceipt
<1>1. CASE WriteReceipt(t)
  <2>1. /\ UNCHANGED <<procVars, taskDir, artifacts, evidence, prediction>>
        /\ pending[t] \in Outcome /\ Earned(t, pending[t])
        /\ \/ pc'[t] = "cleanup" /\ receipt'[t] = pending[t] /\ result'[t] = pending[t]
           \/ pc'[t] = "unwind" /\ receipt'[t] \in {Torn, pending[t]}
           \/ /\ pc'[t] = "catch" /\ receipt'[t] = Absent
              /\ pending'[t] = Inconclusive(FrameStage(pending[t]))
    BY <1>1 DEF WriteReceipt, ReceiptFaults, Records
  <2>2. FrameStage(pending[t]) \in Stages
    BY <2>1, FrameStageIsStage
  <2>3. Processes(t)'
    BY <1>1, <2>1 DEF WriteReceipt, Processes
  <2>4. CASE receipt'[t] = pending[t]
    <3>1. Earned(t, receipt[t])'
      BY <2>1, <2>4 DEF Earned
    <3>2. receipt'[t] # Absent
      BY <2>1, <2>4 DEF Absent, Outcome, Dispositions
    <3> QED
      BY <2>1, <2>3, <2>4, <3>1, <3>2 DEF Records
  <2>5. CASE pc'[t] = "unwind" /\ receipt'[t] = Torn
    <3>1. Earned(t, receipt[t])'
      BY <2>5, NothingClaimed DEF Torn
    <3> QED
      BY <2>3, <2>5, <3>1 DEF Records
  <2>6. CASE pc'[t] = "catch" /\ receipt'[t] = Absent
    <3>1. pending'[t] = Inconclusive(FrameStage(pending[t]))
      BY <1>1, <2>1, <2>6 DEF WriteReceipt, ReceiptFaults, Absent, Outcome, Dispositions
    <3> QED
      BY <2>2, <2>3, <2>6, <3>1, CatchRecords
  <2> QED
    BY <2>1, <2>4, <2>5, <2>6
<1>2. CASE CatchReceipt(t)
  <2>1. /\ UNCHANGED <<procVars, taskDir, artifacts, evidence, prediction>>
        /\ pending[t] \in Outcome /\ pending[t].disposition = "generation-inconclusive"
        /\ \/ pc'[t] = "cleanup" /\ receipt'[t] = pending[t] /\ result'[t] = pending[t]
           \/ pc'[t] = "unwind" /\ receipt'[t] \in {Absent, Torn, pending[t]}
    BY <1>2 DEF CatchReceipt, ReceiptFaults, Records
  <2> QED
    BY <1>2, <2>1, NothingToEarn DEF CatchReceipt, Processes, Records, Earned
<1>3. CASE Cleanup(t)
  <2>1. ~worker[t] /\ pc[t] \in {"cleanup", "unwind"}
    BY <1>3 DEF Cleanup, Processes
  <2>2. /\ UNCHANGED <<pending, result, artifacts, evidence, prediction, receipt>>
        /\ ~worker'[t] /\ cli'[t] = cli[t] /\ ran'[t] = ran[t]
        /\ \/ ~stray'[t]
           \/ stray'[t] = stray[t] /\ taskDir'[t] = taskDir[t]
        /\ \/ pc'[t] = "safe"
           \/ pc'[t] = "done" /\ pc[t] = "cleanup"
    BY <1>3, <2>1, KillOwn DEF Cleanup
  <2> QED
    BY <2>1, <2>2 DEF Processes, Records, Earned
<1>4. CASE Safe(t)
  <2>1. Inconclusive("harness") \in Outcome /\ Earned(t, Inconclusive("harness"))
    BY NothingToEarn DEF Stages
  <2>2. /\ UNCHANGED <<procVars, taskDir, artifacts, evidence, prediction>> /\ ~worker[t]
        /\ \/ pc'[t] = "rejected" /\ receipt'[t] \in {receipt[t], Absent, Torn, Inconclusive("harness")}
           \/ /\ pc'[t] = "done"
              /\ \/ receipt'[t] = receipt[t] /\ receipt[t] \in Outcome /\ result'[t] = receipt[t]
                 \/ /\ result'[t] = Inconclusive("harness")
                    /\ receipt'[t] = IF artifacts[t] = "absent" THEN Absent
                                     ELSE Inconclusive("harness")
    BY <1>4 DEF Safe, SafeReadsReceipt, SafeWritesReceipt, ReceiptFaults, Processes
  <2> QED
    BY <2>1, <2>2, NothingToEarn DEF Processes, Records, Earned
<1> QED
  BY <1>1, <1>2, <1>3, <1>4

\* Only a task of the current batch has a frame that moves, and its step leaves the
\* batch where it is.
LEMMA FrameInBatch ==
  ASSUME FrameInv, NEW t \in Task, Frame(t)
  PROVE  base' = base /\ t >= base /\ t < base + Concurrency
<1>1. base' = base /\ (pc[t] \notin {"idle", "done"} \/ t \in Batch)
  BY DEF Frame, Start, Checkout, Prepare, Prepared, Checked, Probe, Probed, Launch, Collect,
         Decide, Predict, WriteReceipt, CatchReceipt, Cleanup, Safe, At, Resumes
<1>2. Batching(t) /\ base \in Nat /\ t \in Nat
  BY DEF FrameInv, TypeOK, Task
<1> QED
  BY <1>1, <1>2, ConcurrencyAssumption DEF Batching, Batch

\* A step of the workers or of an output stream leaves every frame where it is.
LEMMA FramesStay ==
  ASSUME NEW t \in Task, WorkerEnds(t) \/ OutputFault(t)
  PROVE  base' = base /\ pc' = pc
BY DEF WorkerEnds, WorkerExits, ForceFires, OutputFault

\* Every step keeps the invariant.
LEMMA NextFrame == FrameInv /\ [Next]_vars => FrameInv'
<1> SUFFICES ASSUME FrameInv, [Next]_vars PROVE FrameInv'
  OBVIOUS
<1>1. TypeOK'
  BY NextType DEF FrameInv
<1>2. ASSUME NEW t \in Task, Frame(t), NEW u \in Task
      PROVE  Processes(u)' /\ Records(u)' /\ Batching(u)'
  <2>1. CASE u = t
    <3>1. Processes(u)' /\ Records(u)'
      BY <1>2, <2>1, OwnStepBefore, OwnStepModel, OwnStepAfter DEF Frame
    <3>2. Batching(u)'
      BY <1>2, <2>1, FrameInBatch, ConcurrencyAssumption DEF Batching, FrameInv, TypeOK, Task
    <3> QED
      BY <3>1, <3>2
  <2>2. CASE u # t
    <3>1. Untouched(u)
      BY <1>2, <2>2, StepTouchesOne DEF FrameInv
    <3>2. Batching(u)'
      BY <1>2, <3>1, FrameInBatch DEF Batching, FrameInv, Untouched
    <3> QED
      BY <3>1, <3>2, UntouchedKeeps
  <2> QED
    BY <2>1, <2>2
<1>3. ASSUME NEW t \in Task, WorkerEnds(t) \/ OutputFault(t), NEW u \in Task
      PROVE  Processes(u)' /\ Records(u)' /\ Batching(u)'
  <2>1. Batching(u)'
    BY <1>3, FramesStay DEF Batching, FrameInv
  <2>2. CASE u = t
    BY <1>3, <2>1, <2>2, OwnStepModel
  <2>3. CASE u # t
    BY <1>3, <2>1, <2>3, StepTouchesOne, UntouchedKeeps DEF FrameInv
  <2> QED
    BY <2>2, <2>3
<1>4. ASSUME NextBatch \/ Report \/ Abort \/ UNCHANGED vars, NEW u \in Task
      PROVE  Processes(u)' /\ Records(u)' /\ Batching(u)'
  <2>1. /\ Processes(u) /\ Records(u) /\ Batching(u)
        /\ UNCHANGED <<pc, pending, result, procVars, diskVars>>
    BY <1>4 DEF NextBatch, Report, Abort, vars, FrameInv
  <2>2. Processes(u)' /\ Records(u)'
    BY <2>1 DEF Processes, Records, Earned, procVars, diskVars
  <2>3. CASE NextBatch
    <3>1. base' = base + Concurrency /\ \A t \in Batch : pc[t] = "done"
      BY <2>3 DEF NextBatch
    <3>2. u < base + Concurrency => pc[u] = "done"
      BY <2>1, <3>1 DEF Batching, Batch, Task, FrameInv, TypeOK
    <3> QED
      BY <2>1, <2>2, <3>1, <3>2, ConcurrencyAssumption DEF Batching, Task, FrameInv, TypeOK
  <2>4. CASE Report \/ Abort \/ UNCHANGED vars
    <3>1. base' = base
      BY <2>4 DEF Report, Abort, vars
    <3> QED
      BY <2>1, <2>2, <3>1 DEF Batching
  <2> QED
    BY <1>4, <2>3, <2>4
<1> QED
  BY <1>1, <1>2, <1>3, <1>4 DEF FrameInv, Next, Controller, Stopped

\* The invariant holds in every behaviour.
LEMMA FrameInvariant == Spec => []FrameInv
BY InitFrame, NextFrame, PTL DEF Spec

-----------------------------------------------------------------------------
(* The safety properties of module Generation. *)

\* What main reports for a task is what its receipt says, whatever failed on the way
\* out of runTask.
THEOREM RecordIsReceiptHolds == Spec => []RecordIsReceipt
<1>1. FrameInv => RecordIsReceipt
  BY DEF FrameInv, Records, RecordIsReceipt
<1> QED
  BY <1>1, FrameInvariant, PTL

\* Every conclusive receipt was earned by a model run nobody interfered with.
THEOREM ConclusiveIsEarnedHolds == Spec => []ConclusiveIsEarned
<1>1. FrameInv => ConclusiveIsEarned
  BY DEF FrameInv, Records, Earned, ConclusiveIsEarned
<1> QED
  BY <1>1, FrameInvariant, PTL

\* The worktree is quiet from the capture of the terminal patch to the prediction.
THEOREM QuietCaptureHolds == Spec => []QuietCapture
<1>1. FrameInv => QuietCapture
  BY DEF FrameInv, Processes, QuietCapture, Awaiting
<1> QED
  BY <1>1, FrameInvariant, PTL

\* No process of a task outlives the directory that holds its credentials.
THEOREM NothingOutlivesDirectoryHolds == Spec => []NothingOutlivesDirectory
<1>1. FrameInv => NothingOutlivesDirectory
  BY DEF FrameInv, Processes, NothingOutlivesDirectory
<1> QED
  BY <1>1, FrameInvariant, PTL

\* With --concurrency 1 the only worker there can be is that of the task being run, so
\* the account-wide pkill finds no other.
THEOREM SerialIsolationHolds == Spec => []SerialIsolation
<1>1. Init => SerialIsolation
  BY DEF Init, SerialIsolation
<1>2. FrameInv /\ SerialIsolation /\ [Next]_vars => SerialIsolation'
  <2> SUFFICES ASSUME FrameInv, SerialIsolation, [Next]_vars, Concurrency = 1
               PROVE  \A u \in Task : ~victim'[u]
    BY DEF SerialIsolation
  <2>1. \A u \in Task : ~victim[u]
    BY DEF SerialIsolation
  <2>2. \A u \in Task : worker[u] => u = base
    BY DEF FrameInv, Processes, Batching, Awaiting, TypeOK, Task
  <2>3. ASSUME NEW t \in Task, NEW own, t = base, KillAccount(t, own), NEW u \in Task
        PROVE  ~victim'[u]
    BY <2>1, <2>2, <2>3 DEF KillAccount
  <2>4. ASSUME NEW t \in Task, Frame(t), NEW u \in Task PROVE ~victim'[u]
    <3>1. t = base
      BY <2>4, FrameInBatch DEF FrameInv, TypeOK, Task
    <3>2. victim' = victim \/ KillAccount(t, cli[t])
      BY <2>4 DEF Frame, Start, Checkout, Prepare, Prepared, Checked, Probe, Probed, Launch, Spawn,
                  Collect, Decide, Predict, WriteReceipt, CatchReceipt, Cleanup, Safe, procVars
    <3> QED
      BY <2>1, <2>3, <3>1, <3>2
  <2>5. ASSUME NEW t \in Task, WorkerEnds(t), NEW u \in Task PROVE ~victim'[u]
    <3>1. worker[t]
      BY <2>5 DEF WorkerEnds, WorkerExits, ForceFires
    <3>2. t = base
      BY <2>2, <3>1
    <3>3. victim' = victim \/ \E c \in BOOLEAN : KillAccount(t, Forced(FALSE, c))
      BY <2>5 DEF WorkerEnds, WorkerExits, ForceFires
    <3> QED
      BY <2>1, <2>3, <3>2, <3>3
  <2>6. CASE \/ \E t \in Task : OutputFault(t)
             \/ NextBatch \/ Report \/ Abort \/ UNCHANGED vars
    <3>1. victim' = victim
      BY <2>6 DEF OutputFault, NextBatch, Report, Abort, vars, procVars
    <3> QED
      BY <2>1, <3>1
  <2> QED
    BY <2>4, <2>5, <2>6 DEF Next, Controller, Stopped
<1> QED
  BY <1>1, <1>2, FrameInvariant, PTL DEF Spec

\* No retry, catch clause or wrapper rewrites a receipt or a returned record.
THEOREM RecordsAreFinalHolds == Spec => RecordsAreFinal
<1> DEFINE Final(t) == /\ receipt[t] # Absent => receipt'[t] = receipt[t]
                       /\ pc[t] = "done" => result'[t] = result[t] /\ pc'[t] = "done"
<1>1. FrameInv /\ [Next]_vars => \A u \in Task : Final(u)
  <2> SUFFICES ASSUME FrameInv, [Next]_vars, NEW u \in Task PROVE Final(u)
    OBVIOUS
  <2>1. ASSUME NEW t \in Task, Frame(t) \/ WorkerEnds(t) \/ OutputFault(t), u # t PROVE Final(u)
    BY <2>1, StepTouchesOne DEF FrameInv, Untouched
  <2>2. CASE Frame(u)
    <3> USE DEF At, Resumes, TypeOK, Go, Yield
    <3>0. TypeOK /\ Records(u)
      BY DEF FrameInv
    <3>1. CASE Start(u) \/ Checkout(u) \/ Prepare(u) \/ Prepared(u) \/ Checked(u) \/ Probe(u)
               \/ Probed(u) \/ Launch(u)
      BY <3>0, <3>1 DEF Start, Checkout, Prepare, Prepared, Checked, Probe, Probed, Launch, diskVars
    <3>2. CASE Collect(u) \/ Decide(u) \/ Predict(u) \/ Cleanup(u)
      BY <3>0, <3>2 DEF Collect, Decide, Predict, Cleanup, diskVars
    <3>3. CASE WriteReceipt(u) \/ CatchReceipt(u)
      BY <3>0, <3>3 DEF WriteReceipt, CatchReceipt, Records, BeforeReceipt
    <3>4. CASE Safe(u)
      BY <3>0, <3>4 DEF Safe, SafeReadsReceipt, SafeWritesReceipt
    <3> QED
      BY <2>2, <3>1, <3>2, <3>3, <3>4 DEF Frame
  <2>3. CASE WorkerEnds(u) \/ OutputFault(u)
    BY <2>3 DEF WorkerEnds, WorkerExits, ForceFires, OutputFault, diskVars
  <2>4. CASE NextBatch \/ Report \/ Abort \/ UNCHANGED vars
    BY <2>4 DEF NextBatch, Report, Abort, vars, diskVars
  <2> QED
    BY <2>1, <2>2, <2>3, <2>4 DEF Next, Controller, Stopped
<1>2. FrameInv /\ [Next]_vars =>
        [\A t \in Task :
           /\ receipt[t] # Absent => receipt'[t] = receipt[t]
           /\ pc[t] = "done" => result'[t] = result[t] /\ pc'[t] = "done"]_vars
  BY <1>1
<1> QED
  BY <1>2, FrameInvariant, PTL DEF Spec, RecordsAreFinal

=============================================================================
