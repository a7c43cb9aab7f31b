------------------------- MODULE OfficialBatchProofs -------------------------
(***************************************************************************)
(* Theorems about OfficialBatch, for any number of invocations and tasks.  *)
(*                                                                         *)
(* The output directory is the lock: whoever works in it made it           *)
(* (Exclusive), so what the worker knows of each task (Frame) cannot be    *)
(* disturbed by another invocation, and what earlier ones left (Counted,   *)
(* Reported) stops it from doing anything twice.                           *)
(***************************************************************************)
EXTENDS OfficialBatch, TLAPS

Working(c) == pc[c] \in {"claiming", "freezing", "evaluating", "reporting"}

Exclusive ==
  /\ \A c \in Invocations : Working(c) => directory
  /\ \A c, d \in Invocations : Working(c) /\ Working(d) => c = d

\* What ReportIsOnFile says of an entry.
OnFile(entry, t) ==
  IF t \in Predicted
  THEN /\ entry.disposition = "predicted"
       /\ entry.terminalReceipt =>
            /\ receipt[t] = [file |-> "written", content |-> entry.official]
            /\ calls[t] = 1
  ELSE entry = NotEvaluated

\* What a working invocation knows of one task.
TaskFrame(c, t) ==
  /\ tpc[c][t] = "claimed" =>
       t \in Predicted /\ taskDir[t] /\ claim[t] = "written" /\ calls[t] = 0
  /\ tpc[c][t] = "evaluating" => t \in Predicted /\ calls[t] = 1
  /\ tpc[c][t] = "done" => OnFile(entries[c][t], t)

Frame(c) ==
  /\ pc[c] \in {"idle", "admitted", "claiming", "freezing"} =>
       next[c] = 1 /\ \A t \in Tasks : tpc[c][t] = "idle"
  /\ pc[c] \in {"freezing", "evaluating", "reporting"} => batchClaim = "written"
  /\ Working(c) => \A t \in Tasks : TaskFrame(c, t)
  /\ pc[c] = "evaluating" => \A t \in Tasks : t < next[c] => tpc[c][t] = "done"
  /\ pc[c] = "reporting" => \A t \in Tasks : OnFile(entries[c][t], t)

Counted ==
  \A t \in Tasks :
    /\ calls[t] <= 1
    /\ calls[t] > 0 => taskDir[t] /\ claim[t] = "written" /\ batchClaim = "written"

Reported ==
  report.file = "written" => \A t \in Tasks : OnFile(report.content.tasks[t], t)

\* The functions that TypeOK does not type have their domains.
Shapes ==
  /\ DOMAIN entries = Invocations
  /\ \A c \in Invocations : DOMAIN entries[c] = Tasks
  /\ DOMAIN receipt = Tasks

-----------------------------------------------------------------------------
(* Types. *)

USE DEF Absent, Torn

\* No invocation has begun.
LEMMA InitTypes == Init => TypeOK /\ Shapes
<1> SUFFICES ASSUME Init PROVE TypeOK /\ Shapes
  OBVIOUS
<1>1. /\ pc \in [Invocations -> InvocationStates] /\ next \in [Invocations -> Nat]
      /\ imageError \in [Invocations -> BOOLEAN]
  BY DEF Init, InvocationStates
<1>2. tpc \in [Invocations -> [Tasks -> TaskStates]]
  BY DEF Init, TaskStates
<1>3. /\ taskDir \in [Tasks -> BOOLEAN] /\ claim \in [Tasks -> Files]
      /\ directory \in BOOLEAN /\ imageManifest \in BOOLEAN /\ batchClaim \in Files
  BY DEF Init, Files
<1>5. calls \in [Tasks -> Nat] /\ faults \in 0..MaxFaults
  BY FaultsAssumption DEF Init
<1>4. Shapes
  <2>1. \A c \in Invocations : entries[c] = [t \in Tasks |-> NoEntry]
    BY DEF Init
  <2>2. \A c \in Invocations : DOMAIN entries[c] = Tasks
    BY <2>1
  <2>3. DOMAIN entries = Invocations /\ DOMAIN receipt = Tasks
    BY DEF Init
  <2> QED BY <2>2, <2>3 DEF Shapes
<1> QED BY <1>1, <1>2, <1>3, <1>4, <1>5 DEF TypeOK

\* One more failing write.
LEMMA FaultTypes ==
  ASSUME TypeOK, Fault \/ UNCHANGED faults
  PROVE  faults' \in 0..MaxFaults
  BY FaultsAssumption DEF TypeOK, Fault

\* The promise of evaluateTask resolves: the rest of the frame stays.
LEMMA ResolveTypes ==
  ASSUME TypeOK, Shapes, NEW c \in Invocations, NEW t \in Tasks, NEW e, Resolve(c, t, e)
  PROVE  /\ pc' = pc /\ next' = next /\ imageError' = imageError
         /\ tpc' \in [Invocations -> [Tasks -> TaskStates]]
         /\ DOMAIN entries' = Invocations
         /\ \A b \in Invocations : DOMAIN entries'[b] = Tasks
<1>1. tpc' \in [Invocations -> [Tasks -> TaskStates]]
  BY DEF TypeOK, Resolve, TaskStates
<1>2. entries' = [entries EXCEPT ![c] = [entries[c] EXCEPT ![t] = e]]
  BY DEF Resolve
<1>3. DOMAIN entries' = Invocations /\ \A b \in Invocations : DOMAIN entries'[b] = Tasks
  BY <1>2 DEF Shapes
<1> QED BY <1>1, <1>3 DEF Resolve

\* inconclusiveTask resolves or rejects.
LEMMA EndTypes ==
  ASSUME TypeOK, Shapes, NEW c \in Invocations, NEW t \in Tasks, NEW claimed,
         Inconclusive(c, t, claimed)
  PROVE  /\ pc' \in [Invocations -> InvocationStates] /\ next' = next
         /\ tpc' \in [Invocations -> [Tasks -> TaskStates]]
         /\ imageError' = imageError
         /\ DOMAIN entries' = Invocations
         /\ \A b \in Invocations : DOMAIN entries'[b] = Tasks
<1>1. CASE \E e : Resolve(c, t, e)
  BY <1>1, ResolveTypes DEF TypeOK
<1>2. CASE Reject(c)
  BY <1>2 DEF TypeOK, Shapes, Reject, Goto, InvocationStates
<1> QED BY <1>1, <1>2 DEF Inconclusive

\* Every step keeps the types.
LEMMA NextTypes ==
  ASSUME TypeOK, Shapes, [Next]_vars
  PROVE  TypeOK' /\ Shapes'
<1> USE FaultsAssumption, ConcurrencyAssumption
<1> SUFFICES ASSUME Next PROVE TypeOK' /\ Shapes'
  BY DEF TypeOK, Shapes, vars, invocationVars, diskVars
<1> PICK c \in Invocations :
      \/ Admit(c) \/ MakeDirectory(c) \/ WriteBatchClaim(c) \/ FreezeImages(c)
      \/ \E t \in Tasks : Claim(c, t) \/ Call(c, t) \/ Receive(c, t)
      \/ NextBatch(c) \/ WriteReport(c) \/ Crash(c)
  BY DEF Next
<1>1. CASE Admit(c)
  BY <1>1 DEF Admit, TypeOK, Shapes, Reject, Goto, diskVars, InvocationStates
<1>2. CASE MakeDirectory(c)
  BY <1>2 DEF MakeDirectory, TypeOK, Shapes, Reject, Goto, InvocationStates
<1>3. CASE WriteBatchClaim(c)
  BY <1>3 DEF WriteBatchClaim, TypeOK, Shapes, Reject, Goto, Fault, Files, InvocationStates
<1>4. CASE FreezeImages(c)
  BY <1>4 DEF FreezeImages, TypeOK, Shapes, Reject, Goto, InvocationStates
<1>5. ASSUME NEW t \in Tasks, Claim(c, t) PROVE TypeOK' /\ Shapes'
  <2>1. CASE t \notin Predicted
    BY <1>5, <2>1, ResolveTypes DEF Claim, TypeOK, Shapes
  <2>2. CASE t \in Predicted /\ ~Creates(taskDir[t])
    BY <1>5, <2>2 DEF Claim, TypeOK, Shapes, Reject, Goto, InvocationStates
  <2>3. CASE /\ t \in Predicted /\ Creates(taskDir[t])
             /\ claim' = [claim EXCEPT ![t] = "written"]
             /\ tpc' = [tpc EXCEPT ![c][t] = "claimed"]
             /\ UNCHANGED <<pc, next, entries, imageError, faults>>
    BY <1>5, <2>3 DEF Claim, TypeOK, Shapes, TaskStates, Files
  <2>4. CASE /\ t \in Predicted /\ Creates(taskDir[t]) /\ Fault
             /\ \E left \in Files : /\ claim' = [claim EXCEPT ![t] = left]
                                    /\ Inconclusive(c, t, left # "none")
    <3>1. /\ taskDir' \in [Tasks -> BOOLEAN]
          /\ UNCHANGED <<directory, batchClaim, imageManifest, receipt, calls>>
      BY <1>5, <2>4 DEF Claim, TypeOK
    <3>3. claim' \in [Tasks -> Files]
      BY <2>4 DEF TypeOK
    <3>4. faults' \in 0..MaxFaults
      BY <2>4, FaultTypes
    <3>5. PICK claimed : Inconclusive(c, t, claimed)
      BY <2>4
    <3> QED BY <3>1, <3>3, <3>4, <3>5, EndTypes DEF TypeOK, Shapes
  <2> QED BY <1>5, <2>1, <2>2, <2>3, <2>4 DEF Claim
<1>6. ASSUME NEW t \in Tasks, Call(c, t) PROVE TypeOK' /\ Shapes'
  BY <1>6 DEF Call, TypeOK, Shapes, diskVars, TaskStates
<1>7. ASSUME NEW t \in Tasks, Receive(c, t) PROVE TypeOK' /\ Shapes'
  <2> PICK record \in EvaluateFrozenPrediction(PredictionOf(t), TRUE) :
        IF record = Thrown \/ ~Creates(receipt[t] # Absent)
        THEN Inconclusive(c, t, TRUE) /\ UNCHANGED <<receipt, faults>>
        ELSE \/ /\ receipt' = [receipt EXCEPT ![t] = [file |-> "written", content |-> record]]
                /\ Resolve(c, t, Entry(record, record.verdict = "inconclusive", TRUE, TRUE))
                /\ UNCHANGED faults
             \/ /\ Fault
                /\ \E left \in Remains(record) : receipt' = [receipt EXCEPT ![t] = left]
                /\ Inconclusive(c, t, TRUE)
    BY <1>7 DEF Receive
  <2> UNCHANGED <<directory, batchClaim, imageManifest, taskDir, claim, report, calls>>
    BY <1>7 DEF Receive
  <2>1. CASE Inconclusive(c, t, TRUE)
    <3>1. Fault \/ UNCHANGED faults
      OBVIOUS
    <3>2. faults' \in 0..MaxFaults
      BY <3>1, FaultTypes
    <3>3. DOMAIN receipt' = Tasks
      BY DEF Shapes
    <3> QED BY <2>1, <3>2, <3>3, EndTypes DEF TypeOK, Shapes
  <2>2. CASE /\ receipt' = [receipt EXCEPT ![t] = [file |-> "written", content |-> record]]
             /\ Resolve(c, t, Entry(record, record.verdict = "inconclusive", TRUE, TRUE))
             /\ UNCHANGED faults
    BY <2>2 DEF TypeOK, Shapes, Resolve, TaskStates
  <2> QED BY <2>1, <2>2
<1>8. CASE NextBatch(c)
  BY <1>8 DEF NextBatch, TypeOK, Shapes, Goto, diskVars, InvocationStates
<1>9. CASE WriteReport(c)
  BY <1>9 DEF WriteReport, TypeOK, Shapes, Goto, Reject, Fault, InvocationStates
<1>10. CASE Crash(c)
  BY <1>10 DEF Crash, TypeOK, Shapes, Goto, diskVars, InvocationStates
<1> QED BY <1>1, <1>2, <1>3, <1>4, <1>5, <1>6, <1>7, <1>8, <1>9, <1>10

\* Every variable of OfficialBatch keeps its type: the places of invocations and tasks
\* are those of evaluateAdmittedGeneration and evaluateTask.
THEOREM TypeCorrect == Spec => []TypeOK
<1>1. Init => TypeOK /\ Shapes
  BY InitTypes
<1>2. (TypeOK /\ Shapes) /\ [Next]_vars => (TypeOK /\ Shapes)'
  BY NextTypes
<1> QED BY <1>1, <1>2, PTL DEF Spec

-----------------------------------------------------------------------------
(* Safety. *)

Safe == Exclusive /\ (\A c \in Invocations : Frame(c)) /\ Counted /\ Reported

\* A step of the only worker can disturb nothing but its own frame.
LEMMA OnlyWorker ==
  ASSUME TypeOK, Safe, TypeOK', NEW c \in Invocations, Working(c),
         \A d \in Invocations \ {c} :
           pc'[d] = pc[d] /\ tpc'[d] = tpc[d] /\ next'[d] = next[d],
         directory' = directory,
         Frame(c)'
  PROVE  Exclusive' /\ \A d \in Invocations : Frame(d)'
<1>1. \A d \in Invocations \ {c} : ~Working(d) /\ ~Working(d)'
  BY DEF Safe, Exclusive, Working
<1>2. directory
  BY DEF Safe, Exclusive
<1>3. Exclusive'
  BY <1>1, <1>2 DEF Exclusive
<1>4. ASSUME NEW d \in Invocations, d # c PROVE Frame(d)'
  <2>1. ~Working(d)' /\ pc'[d] = pc[d] /\ tpc'[d] = tpc[d] /\ next'[d] = next[d]
    BY <1>1, <1>4
  <2>2. Frame(d)
    BY DEF Safe
  <2> QED BY <2>1, <2>2 DEF Frame, Working
<1> QED BY <1>3, <1>4

\* The invocation that works stops: its frame ends.
LEMMA Quits ==
  ASSUME TypeOK, Safe, TypeOK', NEW c \in Invocations, Working(c), Reject(c),
         directory' = directory
  PROVE  Exclusive' /\ \A d \in Invocations : Frame(d)'
<1>1. /\ pc'[c] = "rejected" /\ UNCHANGED <<tpc, next>>
      /\ \A d \in Invocations \ {c} : pc'[d] = pc[d]
  BY DEF Reject, Goto, TypeOK
<1>2. Frame(c)'
  BY <1>1 DEF Frame, Working
<1> QED BY <1>1, <1>2, OnlyWorker

\* Records that changed nothing on disk still say what they said.
LEMMA QuietDisk ==
  ASSUME Counted, Reported, UNCHANGED <<batchClaim, taskDir, claim, receipt, report, calls>>
  PROVE  Counted' /\ Reported'
  BY DEF Counted, Reported, OnFile

\* No invocation has begun.
LEMMA InitSafe == Init => Safe
<1> SUFFICES ASSUME Init PROVE Safe
  OBVIOUS
<1>1. \A c \in Invocations : pc[c] = "idle" /\ next[c] = 1 /\ \A t \in Tasks : tpc[c][t] = "idle"
  BY DEF Init
<1>2. Exclusive /\ \A c \in Invocations : Frame(c)
  BY <1>1 DEF Exclusive, Frame, Working
<1>3. Counted /\ Reported
  BY DEF Init, Counted, Reported
<1> QED BY <1>2, <1>3 DEF Safe

\* An invocation passes its first checks.
LEMMA AdmitSafe ==
  ASSUME TypeOK, Safe, TypeOK', NEW c \in Invocations, Admit(c)
  PROVE  Safe'
<1>1. /\ pc[c] = "idle" /\ pc'[c] \in {"admitted", "rejected"}
      /\ \A d \in Invocations \ {c} : pc'[d] = pc[d]
      /\ UNCHANGED <<next, tpc, entries, diskVars, calls>>
  BY DEF Admit, Reject, Goto, TypeOK
<1>2. Exclusive'
  BY <1>1 DEF Safe, Exclusive, Working, diskVars
<1>3. ASSUME NEW d \in Invocations PROVE Frame(d)'
  <2> Frame(d) BY DEF Safe
  <2> QED BY <1>1 DEF Frame, TaskFrame, OnFile, Working, diskVars
<1>4. Counted' /\ Reported'
  BY <1>1, QuietDisk DEF Safe, diskVars
<1> QED BY <1>2, <1>3, <1>4 DEF Safe

\* It creates the directory: nobody else is behind this point.
LEMMA MakeDirectorySafe ==
  ASSUME TypeOK, Safe, TypeOK', NEW c \in Invocations, MakeDirectory(c)
  PROVE  Safe'
<1>1. /\ pc[c] = "admitted"
      /\ \A d \in Invocations \ {c} : pc'[d] = pc[d]
      /\ UNCHANGED <<next, tpc, entries, batchClaim, taskDir, claim, receipt, report, calls>>
      /\ \/ ~directory /\ directory' /\ pc'[c] = "claiming"
         \/ directory' = directory /\ pc'[c] = "rejected"
  BY DEF MakeDirectory, Reject, Goto, TypeOK, Creates
<1>2. Exclusive'
  BY <1>1 DEF Safe, Exclusive, Working
<1>3. ASSUME NEW d \in Invocations PROVE Frame(d)'
  <2> Frame(d) /\ Frame(c) BY DEF Safe
  <2>1. CASE d = c
    BY <1>1, <2>1 DEF Frame, TaskFrame, Working
  <2>2. CASE d # c
    BY <1>1, <2>2 DEF Frame, TaskFrame, OnFile, Working
  <2> QED BY <2>1, <2>2
<1>4. Counted' /\ Reported'
  BY <1>1, QuietDisk DEF Safe
<1> QED BY <1>2, <1>3, <1>4 DEF Safe

\* It claims the batch.
LEMMA WriteBatchClaimSafe ==
  ASSUME TypeOK, Safe, TypeOK', NEW c \in Invocations, WriteBatchClaim(c)
  PROVE  Safe'
<1>1. /\ Working(c) /\ pc[c] = "claiming" /\ Frame(c)
      /\ UNCHANGED <<directory, taskDir, claim, receipt, report, calls>>
      /\ batchClaim = "none" \/ batchClaim' = batchClaim
  BY DEF WriteBatchClaim, Working, Creates, Safe
<1>2. Exclusive' /\ \A d \in Invocations : Frame(d)'
  <2>1. CASE Reject(c)
    BY <1>1, <2>1, Quits
  <2>2. CASE batchClaim' = "written" /\ Goto(c, "freezing") /\ UNCHANGED <<next, tpc, entries>>
    <3>1. pc'[c] = "freezing" /\ \A d \in Invocations \ {c} : pc'[d] = pc[d]
      BY <2>2 DEF Goto, TypeOK
    <3>2. Frame(c)'
      BY <1>1, <2>2, <3>1 DEF Frame, TaskFrame, Working
    <3> QED BY <1>1, <2>2, <3>1, <3>2, OnlyWorker
  <2> QED BY <2>1, <2>2 DEF WriteBatchClaim
<1>3. Counted'
  BY <1>1 DEF Safe, Counted
<1>4. Reported'
  BY <1>1 DEF Safe, Reported, OnFile
<1> QED BY <1>2, <1>3, <1>4 DEF Safe

\* The images are frozen, or every task is inconclusive.
LEMMA FreezeImagesSafe ==
  ASSUME TypeOK, Shapes, Safe, TypeOK', NEW c \in Invocations, FreezeImages(c)
  PROVE  Safe'
<1> DEFINE record(t) == Fallback(t, "evaluator-error")
           given == [t \in Tasks |-> IF t \in Predicted
                                      THEN Entry(record(t), TRUE, FALSE, FALSE)
                                      ELSE NotEvaluated]
<1>1. /\ Working(c) /\ pc[c] = "freezing" /\ Frame(c)
      /\ UNCHANGED <<directory, batchClaim, taskDir, claim, receipt, report, calls>>
  BY DEF FreezeImages, Working, Safe
<1>2. Exclusive' /\ \A d \in Invocations : Frame(d)'
  <2>1. CASE Reject(c)
    BY <1>1, <2>1, Quits
  <2>2. CASE Goto(c, "evaluating") /\ UNCHANGED <<next, tpc, entries>>
    <3>1. pc'[c] = "evaluating" /\ \A d \in Invocations \ {c} : pc'[d] = pc[d]
      BY <2>2 DEF Goto, TypeOK
    <3>2. \A t \in Tasks : tpc[c][t] = "idle" /\ ~(t < next[c])
      BY <1>1, TasksAssumption DEF Frame, Tasks
    <3>3. Frame(c)'
      BY <1>1, <2>2, <3>1, <3>2 DEF Frame, TaskFrame, Working
    <3> QED BY <1>1, <2>2, <3>1, <3>3, OnlyWorker
  <2>3. CASE entries' = [entries EXCEPT ![c] = given] /\ Goto(c, "reporting") /\ UNCHANGED <<next, tpc>>
    <3>1. pc'[c] = "reporting" /\ \A d \in Invocations \ {c} : pc'[d] = pc[d]
      BY <2>3 DEF Goto, TypeOK
    <3>2. entries'[c] = given
      BY <2>3 DEF Shapes
    <3>3. \A t \in Tasks : OnFile(entries[c][t], t)'
      BY <1>1, <3>2 DEF OnFile, Entry
    <3>4. \A t \in Tasks : tpc'[c][t] = "idle"
      BY <1>1, <2>3 DEF Frame
    <3>5. Frame(c)'
      BY <1>1, <3>1, <3>3, <3>4 DEF Frame, TaskFrame, Working
    <3> QED BY <1>1, <2>3, <3>1, <3>5, OnlyWorker
  <2> QED BY <2>1, <2>2, <2>3 DEF FreezeImages
<1>3. Counted' /\ Reported'
  BY <1>1, QuietDisk DEF Safe
<1> QED BY <1>2, <1>3 DEF Safe

\* evaluateTask of t resolves, having touched the files of t only.
LEMMA Resolves ==
  ASSUME TypeOK, Shapes, Safe, TypeOK', NEW c \in Invocations, NEW t \in Tasks, NEW e,
         pc[c] = "evaluating", Resolve(c, t, e), OnFile(e, t)',
         directory' = directory, batchClaim' = batchClaim,
         \A s \in Tasks \ {t} : /\ taskDir'[s] = taskDir[s] /\ claim'[s] = claim[s]
                                /\ receipt'[s] = receipt[s] /\ calls'[s] = calls[s]
  PROVE  Exclusive' /\ \A d \in Invocations : Frame(d)'
<1>1. Working(c) /\ Frame(c)
  BY DEF Working, Safe
<1>2. /\ pc' = pc /\ next' = next
      /\ \A d \in Invocations \ {c} : tpc'[d] = tpc[d]
  BY DEF Resolve, TypeOK
<1>3. /\ tpc'[c][t] = "done" /\ entries'[c][t] = e
      /\ \A s \in Tasks \ {t} : tpc'[c][s] = tpc[c][s] /\ entries'[c][s] = entries[c][s]
  BY DEF Resolve, TypeOK, Shapes
<1>4. ASSUME NEW s \in Tasks PROVE TaskFrame(c, s)'
  <2>1. CASE s = t
    BY <1>3, <2>1 DEF TaskFrame
  <2>2. CASE s # t
    <3> TaskFrame(c, s) BY <1>1 DEF Frame
    <3> QED BY <1>3, <2>2 DEF TaskFrame, OnFile
  <2> QED BY <2>1, <2>2
<1>5. \A s \in Tasks : s < next'[c] => tpc'[c][s] = "done"
  BY <1>1, <1>2, <1>3 DEF Frame
<1>6. Frame(c)'
  BY <1>1, <1>2, <1>4, <1>5 DEF Frame
<1> QED BY <1>1, <1>2, <1>6, OnlyWorker

\* inconclusiveTask of t, after the files of t were touched.
LEMMA GivesUp ==
  ASSUME TypeOK, Shapes, Safe, TypeOK', NEW c \in Invocations, NEW t \in Tasks,
         NEW claimed, t \in Predicted,
         pc[c] = "evaluating", Inconclusive(c, t, claimed),
         directory' = directory, batchClaim' = batchClaim,
         \A s \in Tasks \ {t} : /\ taskDir'[s] = taskDir[s] /\ claim'[s] = claim[s]
                                /\ receipt'[s] = receipt[s] /\ calls'[s] = calls[s]
  PROVE  Exclusive' /\ \A d \in Invocations : Frame(d)'
<1> DEFINE e == Entry(Fallback(t, "uncertain-external-effect"), TRUE, claimed, FALSE)
<1>1. CASE Resolve(c, t, e)
  <2>1. OnFile(e, t)'
    BY DEF OnFile, Entry
  <2> HIDE DEF e
  <2> QED BY <1>1, <2>1, Resolves
<1>2. CASE Reject(c)
  BY <1>2, Quits DEF Working
<1> QED BY <1>1, <1>2 DEF Inconclusive

\* A task is claimed.
LEMMA ClaimSafe ==
  ASSUME TypeOK, Shapes, Safe, TypeOK', NEW c \in Invocations, NEW t \in Tasks, Claim(c, t)
  PROVE  Safe'
<1>1. /\ Working(c) /\ pc[c] = "evaluating" /\ tpc[c][t] = "idle" /\ Frame(c)
      /\ UNCHANGED <<directory, batchClaim, receipt, report, calls>>
      /\ \A s \in Tasks \ {t} : taskDir'[s] = taskDir[s] /\ claim'[s] = claim[s]
  BY DEF Claim, Working, Safe, TypeOK
<1>2. Exclusive' /\ \A d \in Invocations : Frame(d)'
  <2>1. CASE t \notin Predicted /\ Resolve(c, t, NotEvaluated)
    <3>1. OnFile(NotEvaluated, t)'
      BY <2>1 DEF OnFile
    <3> QED BY <1>1, <2>1, <3>1, Resolves
  <2>2. CASE Reject(c)
    BY <1>1, <2>2, Quits
  <2>3. CASE /\ t \in Predicted /\ ~taskDir[t]
             /\ taskDir' = [taskDir EXCEPT ![t] = TRUE]
             /\ claim' = [claim EXCEPT ![t] = "written"]
             /\ tpc' = [tpc EXCEPT ![c][t] = "claimed"]
             /\ UNCHANGED <<pc, next, entries>>
    <3>1. /\ \A d \in Invocations \ {c} : tpc'[d] = tpc[d]
          /\ tpc'[c][t] = "claimed" /\ \A s \in Tasks \ {t} : tpc'[c][s] = tpc[c][s]
      BY <2>3 DEF TypeOK
    <3>2. calls[t] = 0
      BY <2>3 DEF Safe, Counted, TypeOK
    <3>3. ASSUME NEW s \in Tasks PROVE TaskFrame(c, s)'
      <4>1. CASE s = t
        BY <1>1, <2>3, <3>1, <3>2, <4>1 DEF TaskFrame, TypeOK
      <4>2. CASE s # t
        <5> TaskFrame(c, s) BY <1>1 DEF Frame
        <5> QED BY <1>1, <2>3, <3>1, <4>2 DEF TaskFrame, OnFile
      <4> QED BY <4>1, <4>2
    <3>4. \A s \in Tasks : s < next[c] => tpc'[c][s] = "done"
      BY <1>1, <3>1 DEF Frame
    <3>5. Frame(c)'
      BY <1>1, <2>3, <3>3, <3>4 DEF Frame
    <3> QED BY <1>1, <2>3, <3>1, <3>5, OnlyWorker
  <2>4. CASE t \in Predicted /\ \E claimed : Inconclusive(c, t, claimed)
    BY <1>1, <2>4, GivesUp
  <2> QED BY <2>1, <2>2, <2>3, <2>4 DEF Claim, Creates
<1>3. Counted'
  <2>1. (taskDir' = taskDir /\ claim' = claim) \/ ~taskDir[t]
    BY DEF Claim, Creates
  <2>2. calls[t] > 0 => taskDir' = taskDir /\ claim' = claim
    BY <2>1 DEF Safe, Counted
  <2> QED BY <1>1, <2>2 DEF Safe, Counted
<1>4. Reported'
  BY <1>1 DEF Safe, Reported, OnFile
<1> QED BY <1>2, <1>3, <1>4 DEF Safe

\* The evaluator is called for a claimed task.
LEMMA CallSafe ==
  ASSUME TypeOK, Safe, TypeOK', NEW c \in Invocations, NEW t \in Tasks, Call(c, t)
  PROVE  Safe'
<1>1. /\ Working(c) /\ pc[c] = "evaluating" /\ tpc[c][t] = "claimed" /\ Frame(c)
      /\ UNCHANGED <<pc, next, entries, directory, batchClaim, taskDir, claim, receipt, report>>
  BY DEF Call, Working, Safe, diskVars
<1>2. /\ \A d \in Invocations \ {c} : tpc'[d] = tpc[d]
      /\ tpc'[c][t] = "evaluating" /\ \A s \in Tasks \ {t} : tpc'[c][s] = tpc[c][s]
      /\ calls'[t] = calls[t] + 1 /\ \A s \in Tasks \ {t} : calls'[s] = calls[s]
  BY DEF Call, TypeOK
<1>3. /\ t \in Predicted /\ taskDir[t] /\ claim[t] = "written" /\ calls[t] = 0
      /\ batchClaim = "written"
  BY <1>1 DEF Frame, TaskFrame
<1>4. ASSUME NEW s \in Tasks PROVE TaskFrame(c, s)'
  <2> TaskFrame(c, s) BY <1>1 DEF Frame
  <2>1. CASE s = t
    BY <1>1, <1>2, <1>3, <2>1 DEF TaskFrame
  <2>2. CASE s # t
    BY <1>1, <1>2, <2>2 DEF TaskFrame, OnFile
  <2> QED BY <2>1, <2>2
<1>5. \A s \in Tasks : s < next[c] => tpc'[c][s] = "done"
  BY <1>1, <1>2 DEF Frame
<1>6. Frame(c)'
  BY <1>1, <1>4, <1>5 DEF Frame
<1>7. Exclusive' /\ \A d \in Invocations : Frame(d)'
  BY <1>1, <1>2, <1>6, OnlyWorker
<1>8. Counted'
  BY <1>1, <1>2, <1>3 DEF Safe, Counted
<1>9. Reported'
  BY <1>1, <1>2, <1>3 DEF Safe, Reported, OnFile
<1> QED BY <1>7, <1>8, <1>9 DEF Safe

\* It has an answer, which is recorded.
LEMMA ReceiveSafe ==
  ASSUME TypeOK, Shapes, Safe, TypeOK', NEW c \in Invocations, NEW t \in Tasks, Receive(c, t)
  PROVE  Safe'
<1>1. /\ Working(c) /\ pc[c] = "evaluating" /\ tpc[c][t] = "evaluating" /\ Frame(c)
      /\ UNCHANGED <<directory, batchClaim, taskDir, claim, report, calls>>
  BY DEF Receive, Working, Safe
<1>2. t \in Predicted /\ calls[t] = 1
  BY <1>1 DEF Frame, TaskFrame
<1>3. PICK record \in EvaluateFrozenPrediction(PredictionOf(t), TRUE) :
        \/ Inconclusive(c, t, TRUE) /\ UNCHANGED receipt
        \/ /\ receipt[t] = Absent
           /\ receipt' = [receipt EXCEPT ![t] = [file |-> "written", content |-> record]]
           /\ Resolve(c, t, Entry(record, record.verdict = "inconclusive", TRUE, TRUE))
        \/ /\ receipt[t] = Absent
           /\ \E left : receipt' = [receipt EXCEPT ![t] = left]
           /\ Inconclusive(c, t, TRUE)
  BY DEF Receive, Creates
<1>4. /\ \A s \in Tasks \ {t} : receipt'[s] = receipt[s]
      /\ receipt'[t] = receipt[t] \/ receipt[t] = Absent
  BY <1>3 DEF Shapes
<1>5. Exclusive' /\ \A d \in Invocations : Frame(d)'
  <2>1. CASE Inconclusive(c, t, TRUE)
    BY <1>1, <1>2, <1>4, <2>1, GivesUp
  <2>2. CASE /\ receipt' = [receipt EXCEPT ![t] = [file |-> "written", content |-> record]]
             /\ Resolve(c, t, Entry(record, record.verdict = "inconclusive", TRUE, TRUE))
    <3> DEFINE e == Entry(record, record.verdict = "inconclusive", TRUE, TRUE)
    <3>1. e.disposition = "predicted" /\ e.official = record
      BY DEF Entry
    <3>2. OnFile(e, t)'
      BY <1>1, <1>2, <2>2, <3>1 DEF OnFile, Shapes
    <3>3. Resolve(c, t, e)
      BY <2>2
    <3> HIDE DEF e
    <3> QED BY <1>1, <1>4, <3>2, <3>3, Resolves
  <2> QED BY <1>3, <2>1, <2>2
<1>6. Counted'
  BY <1>1 DEF Safe, Counted
<1>7. Reported'
  BY <1>1, <1>4 DEF Safe, Reported, OnFile
<1> QED BY <1>5, <1>6, <1>7 DEF Safe

\* All tasks of a batch are done.
LEMMA NextBatchSafe ==
  ASSUME TypeOK, Safe, TypeOK', NEW c \in Invocations, NextBatch(c)
  PROVE  Safe'
<1>1. /\ Working(c) /\ pc[c] = "evaluating" /\ Frame(c)
      /\ \A t \in Batch(c) : tpc[c][t] = "done"
      /\ UNCHANGED <<tpc, entries, directory, batchClaim, taskDir, claim, receipt, report, calls>>
  BY DEF NextBatch, Working, Safe, diskVars
<1>2. /\ next'[c] = next[c] + Concurrency /\ next[c] \in Nat
      /\ \A d \in Invocations \ {c} : pc'[d] = pc[d] /\ next'[d] = next[d]
      /\ \/ next'[c] > NTasks /\ pc'[c] = "reporting"
         \/ pc'[c] = "evaluating"
  BY ConcurrencyAssumption, <1>1 DEF NextBatch, Goto, TypeOK
<1>3. \A t \in Tasks : t < next'[c] => tpc[c][t] = "done"
  BY <1>1, <1>2, ConcurrencyAssumption, TasksAssumption DEF Frame, Batch, Tasks
<1>4. \A t \in Tasks : TaskFrame(c, t) /\ TaskFrame(c, t)'
  BY <1>1 DEF Frame, TaskFrame, OnFile
<1>5. next'[c] > NTasks => \A t \in Tasks : OnFile(entries[c][t], t)
  BY <1>2, <1>3, <1>4, ConcurrencyAssumption, TasksAssumption DEF TaskFrame, Tasks
<1>6. pc'[c] = "reporting" => \A t \in Tasks : OnFile(entries[c][t], t)'
  BY <1>1, <1>2, <1>5 DEF OnFile
<1>7. Frame(c)'
  BY <1>1, <1>2, <1>3, <1>4, <1>6 DEF Frame
<1>8. Counted' /\ Reported'
  BY <1>1, QuietDisk DEF Safe
<1> QED BY <1>1, <1>2, <1>7, <1>8, OnlyWorker DEF Safe

\* The report is written.
LEMMA WriteReportSafe ==
  ASSUME TypeOK, Safe, TypeOK', NEW c \in Invocations, WriteReport(c)
  PROVE  Safe'
<1>1. /\ Working(c) /\ pc[c] = "reporting" /\ Frame(c)
      /\ UNCHANGED <<directory, batchClaim, taskDir, claim, receipt, calls>>
      /\ UNCHANGED <<next, tpc, entries>>
  BY DEF WriteReport, Reject, Working, Safe
<1>2. /\ pc'[c] \in Ended
      /\ \A d \in Invocations \ {c} : pc'[d] = pc[d]
  BY DEF WriteReport, Reject, Goto, TypeOK, Ended
<1>3. Frame(c)'
  BY <1>2 DEF Frame, Working, Ended
<1>4. Exclusive' /\ \A d \in Invocations : Frame(d)'
  BY <1>1, <1>2, <1>3, OnlyWorker
<1>5. Counted'
  BY <1>1 DEF Safe, Counted
<1>6. \/ report' = report \/ report' = Absent \/ report' = Torn
      \/ report' = [file |-> "written", content |-> ReportOf(c)]
  BY DEF WriteReport, Remains
<1>7. \A t \in Tasks : OnFile(entries[c][t], t)'
  BY <1>1 DEF Frame, OnFile
<1>8. Reported'
  <2>1. CASE report' = report
    BY <1>1, <2>1 DEF Safe, Reported, OnFile
  <2>2. CASE report' = [file |-> "written", content |-> ReportOf(c)]
    <3>1. report'.content.tasks = entries[c]
      BY <2>2 DEF ReportOf
    <3> QED BY <1>1, <1>7, <3>1 DEF Reported
  <2>3. CASE report' = Absent \/ report' = Torn
    BY <2>3 DEF Reported
  <2> QED BY <1>6, <2>1, <2>2, <2>3
<1> QED BY <1>4, <1>5, <1>8 DEF Safe

\* The process dies, and nobody takes its place.
LEMMA CrashSafe ==
  ASSUME TypeOK, Safe, TypeOK', NEW c \in Invocations, Crash(c)
  PROVE  Safe'
<1>1. /\ pc'[c] = "dead"
      /\ \A d \in Invocations \ {c} : pc'[d] = pc[d]
      /\ UNCHANGED <<next, tpc, entries, diskVars, calls>>
  BY DEF Crash, Goto, TypeOK
<1>2. Exclusive'
  BY <1>1 DEF Safe, Exclusive, Working, diskVars
<1>3. ASSUME NEW d \in Invocations PROVE Frame(d)'
  <2> Frame(d) BY DEF Safe
  <2>1. CASE d = c
    BY <1>1, <2>1 DEF Frame, Working
  <2>2. CASE d # c
    BY <1>1, <2>2 DEF Frame, TaskFrame, OnFile, Working, diskVars
  <2> QED BY <2>1, <2>2
<1>4. Counted' /\ Reported'
  BY <1>1, QuietDisk DEF Safe, diskVars
<1> QED BY <1>2, <1>3, <1>4 DEF Safe

\* Every step of an invocation.
LEMMA StepSafe ==
  ASSUME TypeOK, Shapes, Safe, [Next]_vars
  PROVE  Safe'
<1>1. TypeOK'
  BY NextTypes
<1>2. CASE UNCHANGED vars
  BY <1>2 DEF vars, invocationVars, diskVars, Safe, Exclusive, Working, Frame, TaskFrame,
              OnFile, Counted, Reported
<1>3. CASE Next
  <2> PICK c \in Invocations :
        \/ Admit(c) \/ MakeDirectory(c) \/ WriteBatchClaim(c) \/ FreezeImages(c)
        \/ \E t \in Tasks : Claim(c, t) \/ Call(c, t) \/ Receive(c, t)
        \/ NextBatch(c) \/ WriteReport(c) \/ Crash(c)
    BY <1>3 DEF Next
  <2>1. ASSUME NEW t \in Tasks, Claim(c, t) \/ Call(c, t) \/ Receive(c, t) PROVE Safe'
    BY <1>1, <2>1, ClaimSafe, CallSafe, ReceiveSafe
  <2>2. CASE Admit(c) \/ MakeDirectory(c) \/ WriteBatchClaim(c)
    BY <1>1, <2>2, AdmitSafe, MakeDirectorySafe, WriteBatchClaimSafe
  <2>3. CASE FreezeImages(c) \/ NextBatch(c)
    BY <1>1, <2>3, FreezeImagesSafe, NextBatchSafe
  <2>4. CASE WriteReport(c) \/ Crash(c)
    BY <1>1, <2>4, WriteReportSafe, CrashSafe
  <2> QED BY <2>1, <2>2, <2>3, <2>4
<1> QED BY <1>2, <1>3

\* The invariant holds always.
LEMMA AlwaysSafe == Spec => [](TypeOK /\ Shapes /\ Safe)
<1>1. Init => TypeOK /\ Shapes /\ Safe
  BY InitTypes, InitSafe
<1>2. (TypeOK /\ Shapes /\ Safe) /\ [Next]_vars => (TypeOK /\ Shapes /\ Safe)'
  BY NextTypes, StepSafe
<1> QED BY <1>1, <1>2, PTL DEF Spec

\* However many invocations of evaluate-official overlap or crash, no prediction of one
\* admitted generation reaches the evaluator twice.
THEOREM EvaluatedAtMostOnceHolds == Spec => []EvaluatedAtMostOnce
<1>1. Safe => EvaluatedAtMostOnce
  BY DEF Safe, Counted, EvaluatedAtMostOnce
<1> QED BY <1>1, AlwaysSafe, PTL

\* Every evaluation that began left its claims on disk (evaluateTask writes the claim
\* before it calls the evaluator).
THEOREM ClaimPrecedesCallHolds == Spec => []ClaimPrecedesCall
<1>1. Safe => ClaimPrecedesCall
  BY DEF Safe, Counted, ClaimPrecedesCall
<1> QED BY <1>1, AlwaysSafe, PTL

\* A report covers the admitted tasks and says of each evaluated one what its terminal
\* receipt says, of an evaluation that took place once.
THEOREM ReportIsOnFileHolds == Spec => []ReportIsOnFile
<1>1. Safe => ReportIsOnFile
  BY DEF Safe, Reported, OnFile, ReportIsOnFile
<1> QED BY <1>1, AlwaysSafe, PTL

=============================================================================
