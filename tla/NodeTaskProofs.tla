--------------------------- MODULE NodeTaskProofs ---------------------------
(***************************************************************************)
(* Theorems about one hosted job of the Node bundle: every safety property *)
(* of NodeTask holds of every behaviour.  The inductive invariant joins    *)
(* the types to four parts: what the summary says is true of the           *)
(* containers, what is settled at each place of the job, what a free lock  *)
(* covers, and how a job gets to its end without a failure.                *)
(***************************************************************************)
EXTENDS NodeTask, TLAPS

(* The strengthening: what holds of the containers, the summary and the lock at each place *)
(* of the job.                                                                             *)

\* Places where the model container exists and may still run.
BeforeClose == {"ready", "preflight", "inject", "claim", "launch", "model", "close"}
BeforeRemoval == BeforeClose \cup {"receipt", "export", "remove"}
EvaluationPcs == {"evaluationClaim", "evaluator", "record", "closure"}

\* What the summary says of a container is true of it.
SummaryIsTrue ==
  /\ sum.closed => box["model"] \in {"created", "stopped", "gone"} /\ ~agent
  /\ sum.removed => box["model"] = "gone"
  /\ (sum.captureRemoved /\ "capture" \in knows) => box["capture"] = "gone"
  /\ sum.exports = "safe" => exported \notin {"none", "running"}
  /\ calls.model = 1 => sum.attempt
  /\ (sum.attempt /\ box["model"] = "gone") => sum.exports = "safe"
  /\ sum.process = "ok" => calls.model = 1
  /\ sum.capture = "captured" => "capture" \in knows
  /\ sum.prediction => PredictionEligible /\ sum.completed
  /\ file["prediction"] = "whole" => sum.prediction

\* What is settled, or not yet, at each place.
Places ==
  /\ pc \in {"prepare", "admit", "create"} =>
       knows = {} /\ box["model"] = "none" /\ box["capture"] = "none" /\ ~agent
  /\ pc \in {"prepare", "admit"} => file["lock"] = "absent"
  /\ pc \in AttemptPcs \ {"admit"} => owns /\ file["lock"] = "whole"
  /\ pc \in BeforeClose => ~sum.closed
  /\ pc \in BeforeRemoval =>
       /\ "model" \in knows /\ box["model"] \in {"created", "running", "stopped"}
       /\ ~sum.removed
  /\ pc \in {"prepare", "admit", "create"} => ~sum.closed /\ ~sum.attempt
  /\ pc \in {"ready", "preflight", "inject", "claim"} => ~sum.attempt
  /\ pc \in {"launch", "model", "close", "receipt", "export", "remove"} => sum.attempt
  /\ pc \in PreparePcs
            \cup {"admit", "create", "ready", "preflight", "inject", "claim", "launch"} =>
       calls.model = 0 /\ sum.process = "none"
  /\ pc = "model" => calls.model = 1
  /\ pc \in {"receipt", "export", "remove", "lastExport", "lastRemove"} => sum.closed
  /\ pc \in {"lastExport", "lastRemove"} => "model" \in knows /\ box["model"] # "none"
  /\ pc \in {"capture", "captureRemove"} => "capture" \in knows /\ ~sum.captureRemoved
  /\ pc \in PreparePcs \cup (AttemptPcs \ {"capture", "captureRemove", "predict"}) =>
       "capture" \notin knows
  /\ pc \in PreparePcs \cup AttemptPcs => ~sum.prediction /\ ~sum.completed
  /\ pc \notin EvaluationPcs \cup {"publish", "done"} =>
       box["eval"] = "none" /\ calls.evaluator = 0
  /\ pc \in EvaluationPcs => file["lock"] = "whole" /\ sum.prediction
  /\ calls.evaluator = 1 => sum.prediction

LockInv ==
  /\ LockCoversContainers
  /\ "model" \in knows => box["model"] # "none"

\* The type invariant in parts, one for each kind of state.
FilesOK == file \in [Files -> FileStates]
BoxOK == box \in [Containers -> {"none", "created", "running", "stopped", "gone"}]
SumOK == sum \in Summaries
PlainOK ==
  /\ failed \in BOOLEAN
  /\ tries \in 0..3
  /\ corpus \in {"absent", "short", "whole"}
  /\ owns \in BOOLEAN
  /\ knows \subseteq {"model", "capture"}
  /\ agent \in BOOLEAN
  /\ calls \in [model: 0..1, evaluator: 0..1]
  /\ exported \in {"none", "created", "running", "stopped", "gone"}
  /\ verdict \in {"none", "conclusive", "inconclusive"}
  /\ upload \in {"none", "raw", "blocked"}
PcOK == pc \in Pcs

\* The types the steps of the other invariants need.
Shapes ==
  /\ FilesOK /\ BoxOK /\ SumOK
  /\ knows \subseteq {"model", "capture"}
  /\ calls \in [model: 0..1, evaluator: 0..1]

\* How a job gets to its end without a failure.
Outcome ==
  /\ sum.completed => owns
  /\ (pc \in {"summary", "settle"} /\ sum.completed /\ sum.removed /\ sum.captureRemoved) =>
       file["lock"] = "absent"
  /\ pc = "settle" => file["summary"] = "whole"
  /\ (pc = "audit" /\ ~failed) =>
       GenerationComplete /\ file["lock"] = "absent" /\ file["summary"] = "whole"
  /\ pc = "evaluate" =>
       ~failed /\ GenerationComplete /\ file["lock"] = "absent" /\ file["summary"] = "whole"
  /\ pc \in EvaluationPcs => file["disposition"] = "absent" /\ file["summary"] = "whole"
  /\ pc = "record" => verdict # "none"
  /\ (pc = "closure" /\ ~failed) => file["record"] = "whole" /\ verdict # "none"
  /\ (pc \in {"publish", "done"} /\ ~failed) =>
       /\ file["lock"] = "absent" /\ sum.attempt /\ file["summary"] = "whole"
       /\ box["model"] = "gone"
       /\ \/ file["record"] = "whole" /\ verdict # "none" /\ file["disposition"] = "absent"
          \/ file["record"] = "absent" /\ file["disposition"] = "whole" /\ ~sum.prediction
  /\ (pc = "done" /\ ~failed) => upload = "raw"

------------------------------------------------------------------------------
(* The steps.  An invariant is split by the state it is about, a step by its action.      *)

USE DEF diskVars, dockerVars

\* Files are absent, torn or whole: only the steps that write one are looked at.
LEMMA FilesStep == FilesOK /\ [Next]_vars => FilesOK'
<1> SUFFICES ASSUME FilesOK, [Next]_vars PROVE FilesOK'
  OBVIOUS
<1> USE DEF FilesOK, Files, FileStates
<1>1. CASE PrepareAttempt BY <1>1 DEF PrepareAttempt, GiveUp, Download, MaxTries
<1>2. CASE Admit BY <1>2 DEF Admit, Write, Torn, Thrown
<1>3. CASE ClaimModel BY <1>3 DEF ClaimModel, Write, Torn, Thrown
<1>4. CASE ProcessReceipt BY <1>4 DEF ProcessReceipt, Write, Torn, Thrown
<1>5. CASE Export BY <1>5 DEF Export, CollectExports, Torn, Thrown
<1>6. CASE Capture BY <1>6 DEF Capture, Failing, Torn, Thrown
<1>7. CASE Predict BY <1>7 DEF Predict, Torn, Thrown
<1>8. CASE LastExport BY <1>8 DEF LastExport, CollectExports, Torn
<1>9. CASE LastCapture BY <1>9 DEF LastCapture, Torn, MayReject, Rejected
<1>10. CASE LastReceipt BY <1>10 DEF LastReceipt, Write, Torn, MayReject, Rejected
<1>11. CASE Unlock BY <1>11 DEF Unlock, Rejected
<1>12. CASE WriteSummary BY <1>12 DEF WriteSummary, Write, Torn
<1>13. CASE Settle BY <1>13 DEF Settle, Write, Torn, GenerationComplete
<1>14. CASE AuditEvidence BY <1>14 DEF AuditEvidence, Write, Torn
<1>15. CASE EvaluateAdmits BY <1>15 DEF EvaluateAdmits, Write, Torn, EvaluationFiles
<1>16. CASE ClaimEvaluation BY <1>16 DEF ClaimEvaluation, Write, Torn
<1>17. CASE WriteRecord BY <1>17 DEF WriteRecord, Write, Torn
<1>18. CASE ProveClosure BY <1>18 DEF ProveClosure, Torn
<1>19. CASE UNCHANGED file BY <1>19
<1> QED
  BY <1>1, <1>2, <1>3, <1>4, <1>5, <1>6, <1>7, <1>8, <1>9, <1>10, <1>11, <1>12, <1>13, <1>14,
     <1>15, <1>16, <1>17, <1>18, <1>19 DEF Next, Step, Generate, Finally, Evaluate, vars,
     PrepareRejected, GenerateRejected, CreateModel, Ready, Preflight, Inject, Launch,
        ModelReturns, Close, Remove, Inspect, CreateCapture, RemoveCapture, PartialProbe,
        LastClose, LastRemove, LastRemoveCapture, EvaluateRefuses, EvaluatorStarts,
        EvaluatorReturns, Publish, Killed, ContainerDies

\* The containers keep to their life cycle.
LEMMA BoxStep == BoxOK /\ [Next]_vars => BoxOK'
<1> SUFFICES ASSUME BoxOK, [Next]_vars PROVE BoxOK'
  OBVIOUS
<1> USE DEF BoxOK, Containers
<1>1. CASE CreateModel BY <1>1 DEF CreateModel, CreateContainer, Failing, Thrown
<1>2. CASE Ready BY <1>2 DEF Ready, Failing, Thrown
<1>3. CASE Close BY <1>3 DEF Close, CloseModel, Stopped, Thrown
<1>4. CASE Remove BY <1>4 DEF Remove, RemoveContainer, Failing, ModelRemovalSafe, Thrown
<1>5. CASE CreateCapture BY <1>5 DEF CreateCapture, CreateContainer, Failing, Thrown
<1>6. CASE Capture BY <1>6 DEF Capture, Failing, Torn, Thrown
<1>7. CASE RemoveCapture BY <1>7 DEF RemoveCapture, RemoveContainer, Failing, Thrown
<1>8. CASE LastClose BY <1>8 DEF LastClose, CloseModel, Stopped
<1>9. CASE LastRemove BY <1>9 DEF LastRemove, RemoveContainer, Failing, ModelRemovalSafe
<1>10. CASE LastRemoveCapture BY <1>10 DEF LastRemoveCapture, RemoveContainer, Failing
<1>11. CASE EvaluatorStarts BY <1>11 DEF EvaluatorStarts
<1>12. CASE EvaluatorReturns BY <1>12 DEF EvaluatorReturns
<1>13. ASSUME NEW c \in Containers, ContainerDies(c) PROVE BoxOK'
  BY <1>13 DEF ContainerDies
<1>14. CASE UNCHANGED box BY <1>14
<1> QED
  BY <1>1, <1>2, <1>3, <1>4, <1>5, <1>6, <1>7, <1>8, <1>9, <1>10, <1>11, <1>12, <1>13, <1>14 DEF
     Next, Step, Generate, Finally, Evaluate, vars,
     PrepareRejected, PrepareAttempt, GenerateRejected, Admit, Preflight, Inject, ClaimModel,
        Launch, ModelReturns, ProcessReceipt, Export, Inspect, Predict, PartialProbe,
        LastExport, LastCapture, LastReceipt, Unlock, WriteSummary, Settle, AuditEvidence,
        EvaluateRefuses, EvaluateAdmits, ClaimEvaluation, WriteRecord, ProveClosure, Publish,
        Killed

\* The summary keeps its shape.
LEMMA SumStep == SumOK /\ [Next]_vars => SumOK'
<1> SUFFICES ASSUME SumOK, [Next]_vars PROVE SumOK'
  OBVIOUS
<1> USE DEF SumOK, Summaries
<1>1. CASE Ready BY <1>1 DEF Ready, Failing, Thrown
<1>2. CASE Preflight BY <1>2 DEF Preflight, Thrown
<1>3. CASE ClaimModel BY <1>3 DEF ClaimModel, Write, Torn, Thrown
<1>4. CASE ModelReturns BY <1>4 DEF ModelReturns, Thrown
<1>5. CASE Close BY <1>5 DEF Close, CloseModel, Stopped, Thrown
<1>6. CASE Export BY <1>6 DEF Export, CollectExports, Torn, Thrown
<1>7. CASE Remove BY <1>7 DEF Remove, RemoveContainer, Failing, ModelRemovalSafe, Thrown
<1>8. CASE Inspect BY <1>8 DEF Inspect, Thrown
<1>9. CASE CreateCapture BY <1>9 DEF CreateCapture, CreateContainer, Failing, Thrown
<1>10. CASE Capture BY <1>10 DEF Capture, Failing, Torn, Thrown
<1>11. CASE RemoveCapture BY <1>11 DEF RemoveCapture, RemoveContainer, Failing, Thrown
<1>12. CASE Predict BY <1>12 DEF Predict, Torn, Thrown
<1>13. CASE LastClose BY <1>13 DEF LastClose, CloseModel, Stopped
<1>14. CASE LastExport BY <1>14 DEF LastExport, CollectExports, Torn
<1>15. CASE LastRemove BY <1>15 DEF LastRemove, RemoveContainer, Failing, ModelRemovalSafe
<1>16. CASE LastRemoveCapture BY <1>16 DEF LastRemoveCapture, RemoveContainer, Failing
<1>17. CASE UNCHANGED sum BY <1>17
<1> QED
  BY <1>1, <1>2, <1>3, <1>4, <1>5, <1>6, <1>7, <1>8, <1>9, <1>10, <1>11, <1>12, <1>13, <1>14,
     <1>15, <1>16, <1>17 DEF Next, Step, Generate, Finally, Evaluate, vars,
     PrepareRejected, PrepareAttempt, GenerateRejected, Admit, CreateModel, Inject, Launch,
        ProcessReceipt, PartialProbe, LastCapture, LastReceipt, Unlock, WriteSummary, Settle,
        AuditEvidence, EvaluateRefuses, EvaluateAdmits, ClaimEvaluation, EvaluatorStarts,
        EvaluatorReturns, WriteRecord, ProveClosure, Publish, Killed, ContainerDies

\* The scalars keep their ranges; an attempt at preparing is counted at most three times.
LEMMA PlainStep == BoxOK /\ PlainOK /\ [Next]_vars => PlainOK'
<1> SUFFICES ASSUME BoxOK, PlainOK, [Next]_vars PROVE PlainOK'
  OBVIOUS
<1> USE DEF PlainOK, BoxOK, Containers
<1>1. CASE PrepareRejected BY <1>1 DEF PrepareRejected, GiveUp
<1>2. CASE PrepareAttempt
  <2>1. tries' \in 0..3 BY <1>2 DEF PrepareAttempt, MaxTries
  <2>2. corpus' \in {"absent", "short", "whole"} BY <1>2 DEF PrepareAttempt, Download
  <2>3. failed' \in BOOLEAN BY <1>2 DEF PrepareAttempt, GiveUp
  <2> QED BY <1>2, <2>1, <2>2, <2>3 DEF PrepareAttempt
<1>3. CASE GenerateRejected BY <1>3 DEF GenerateRejected
<1>4. CASE Admit BY <1>4 DEF Admit, Write, Torn, Thrown
<1>5. CASE CreateModel BY <1>5 DEF CreateModel, CreateContainer, Failing, Thrown
<1>6. CASE Ready BY <1>6 DEF Ready, Failing, Thrown
<1>7. CASE Preflight BY <1>7 DEF Preflight, Thrown
<1>8. CASE Inject BY <1>8 DEF Inject, Thrown
<1>9. CASE ClaimModel BY <1>9 DEF ClaimModel, Write, Torn, Thrown
<1>10. CASE Launch
  <2>1. agent' \in BOOLEAN BY <1>10 DEF Launch
  <2>2. calls' \in [model: 0..1, evaluator: 0..1] BY <1>10 DEF Launch
  <2> QED BY <1>10, <2>1, <2>2 DEF Launch
<1>11. CASE ModelReturns BY <1>11 DEF ModelReturns, Thrown
<1>12. CASE Close BY <1>12 DEF Close, CloseModel, Stopped, Thrown
<1>13. CASE ProcessReceipt BY <1>13 DEF ProcessReceipt, Write, Torn, Thrown
<1>14. CASE Export BY <1>14 DEF Export, CollectExports, Torn, Thrown
<1>15. CASE Remove BY <1>15 DEF Remove, RemoveContainer, Failing, ModelRemovalSafe, Thrown
<1>16. CASE Inspect BY <1>16 DEF Inspect, Thrown
<1>17. CASE CreateCapture BY <1>17 DEF CreateCapture, CreateContainer, Failing, Thrown
<1>18. CASE Capture BY <1>18 DEF Capture, Failing, Torn, Thrown
<1>19. CASE RemoveCapture BY <1>19 DEF RemoveCapture, RemoveContainer, Failing, Thrown
<1>20. CASE Predict BY <1>20 DEF Predict, Torn, Thrown
<1>21. CASE PartialProbe BY <1>21 DEF PartialProbe, MayReject, Rejected
<1>22. CASE LastClose BY <1>22 DEF LastClose, CloseModel, Stopped
<1>23. CASE LastExport BY <1>23 DEF LastExport, CollectExports, Torn
<1>24. CASE LastRemove BY <1>24 DEF LastRemove, RemoveContainer, Failing, ModelRemovalSafe
<1>25. CASE LastCapture BY <1>25 DEF LastCapture, Torn, MayReject, Rejected
<1>26. CASE LastRemoveCapture BY <1>26 DEF LastRemoveCapture, RemoveContainer, Failing
<1>27. CASE LastReceipt BY <1>27 DEF LastReceipt, Write, Torn, MayReject, Rejected
<1>28. CASE Unlock BY <1>28 DEF Unlock, Rejected
<1>29. CASE WriteSummary BY <1>29 DEF WriteSummary, Write, Torn
<1>30. CASE Settle BY <1>30 DEF Settle, Write, Torn, GenerationComplete
<1>31. CASE AuditEvidence BY <1>31 DEF AuditEvidence, Write, Torn
<1>32. CASE EvaluateRefuses BY <1>32 DEF EvaluateRefuses, GiveUp
<1>33. CASE EvaluateAdmits BY <1>33 DEF EvaluateAdmits, Write, Torn, EvaluationFiles
<1>34. CASE ClaimEvaluation BY <1>34 DEF ClaimEvaluation, Write, Torn
<1>35. CASE EvaluatorStarts BY <1>35 DEF EvaluatorStarts
<1>36. CASE EvaluatorReturns BY <1>36 DEF EvaluatorReturns
<1>37. CASE WriteRecord BY <1>37 DEF WriteRecord, Write, Torn
<1>38. CASE ProveClosure BY <1>38 DEF ProveClosure, Torn
<1>39. CASE Publish BY <1>39 DEF Publish
<1>40. CASE Killed BY <1>40 DEF Killed, GiveUp, RunningPcs
<1>41. ASSUME NEW c \in Containers, ContainerDies(c) PROVE PlainOK'
  BY <1>41 DEF ContainerDies
<1>42. CASE UNCHANGED vars BY <1>42 DEF vars
<1> QED
  BY <1>1, <1>2, <1>3, <1>4, <1>5, <1>6, <1>7, <1>8, <1>9, <1>10, <1>11, <1>12, <1>13, <1>14,
     <1>15, <1>16, <1>17, <1>18, <1>19, <1>20, <1>21, <1>22, <1>23, <1>24, <1>25, <1>26, <1>27,
     <1>28, <1>29, <1>30, <1>31, <1>32, <1>33, <1>34, <1>35, <1>36, <1>37, <1>38, <1>39, <1>40,
     <1>41, <1>42 DEF Next, Step, Generate, Finally, Evaluate

\* Every step leads to a place of the job.
LEMMA PcStep == PcOK /\ [Next]_vars => PcOK'
<1> SUFFICES ASSUME PcOK, [Next]_vars PROVE PcOK'
  OBVIOUS
<1> USE DEF PcOK, Pcs, RunningPcs, PreparePcs, AttemptPcs, FinallyPcs, SettlePcs, EvaluatePcs
<1>1. CASE PrepareRejected BY <1>1 DEF PrepareRejected, GiveUp
<1>2. CASE PrepareAttempt BY <1>2 DEF PrepareAttempt, GiveUp, Download, MaxTries
<1>3. CASE GenerateRejected BY <1>3 DEF GenerateRejected
<1>4. CASE Admit BY <1>4 DEF Admit, Write, Torn, Thrown
<1>5. CASE CreateModel BY <1>5 DEF CreateModel, CreateContainer, Failing, Thrown
<1>6. CASE Ready BY <1>6 DEF Ready, Failing, Thrown
<1>7. CASE Preflight BY <1>7 DEF Preflight, Thrown
<1>8. CASE Inject BY <1>8 DEF Inject, Thrown
<1>9. CASE ClaimModel BY <1>9 DEF ClaimModel, Write, Torn, Thrown
<1>10. CASE Launch BY <1>10 DEF Launch
<1>11. CASE ModelReturns BY <1>11 DEF ModelReturns, Thrown
<1>12. CASE Close BY <1>12 DEF Close, CloseModel, Stopped, Thrown
<1>13. CASE ProcessReceipt BY <1>13 DEF ProcessReceipt, Write, Torn, Thrown
<1>14. CASE Export BY <1>14 DEF Export, CollectExports, Torn, Thrown
<1>15. CASE Remove BY <1>15 DEF Remove, RemoveContainer, Failing, ModelRemovalSafe, Thrown
<1>16. CASE Inspect BY <1>16 DEF Inspect, Thrown
<1>17. CASE CreateCapture BY <1>17 DEF CreateCapture, CreateContainer, Failing, Thrown
<1>18. CASE Capture BY <1>18 DEF Capture, Failing, Torn, Thrown
<1>19. CASE RemoveCapture BY <1>19 DEF RemoveCapture, RemoveContainer, Failing, Thrown
<1>20. CASE Predict BY <1>20 DEF Predict, Torn, Thrown
<1>21. CASE PartialProbe BY <1>21 DEF PartialProbe, MayReject, Rejected
<1>22. CASE LastClose BY <1>22 DEF LastClose, CloseModel, Stopped
<1>23. CASE LastExport BY <1>23 DEF LastExport, CollectExports, Torn
<1>24. CASE LastRemove BY <1>24 DEF LastRemove, RemoveContainer, Failing, ModelRemovalSafe
<1>25. CASE LastCapture BY <1>25 DEF LastCapture, Torn, MayReject, Rejected
<1>26. CASE LastRemoveCapture BY <1>26 DEF LastRemoveCapture, RemoveContainer, Failing
<1>27. CASE LastReceipt BY <1>27 DEF LastReceipt, Write, Torn, MayReject, Rejected
<1>28. CASE Unlock BY <1>28 DEF Unlock, Rejected
<1>29. CASE WriteSummary BY <1>29 DEF WriteSummary, Write, Torn
<1>30. CASE Settle BY <1>30 DEF Settle, Write, Torn, GenerationComplete
<1>31. CASE AuditEvidence BY <1>31 DEF AuditEvidence, Write, Torn
<1>32. CASE EvaluateRefuses BY <1>32 DEF EvaluateRefuses, GiveUp
<1>33. CASE EvaluateAdmits BY <1>33 DEF EvaluateAdmits, Write, Torn, EvaluationFiles
<1>34. CASE ClaimEvaluation BY <1>34 DEF ClaimEvaluation, Write, Torn
<1>35. CASE EvaluatorStarts BY <1>35 DEF EvaluatorStarts
<1>36. CASE EvaluatorReturns BY <1>36 DEF EvaluatorReturns
<1>37. CASE WriteRecord BY <1>37 DEF WriteRecord, Write, Torn
<1>38. CASE ProveClosure BY <1>38 DEF ProveClosure, Torn
<1>39. CASE Publish BY <1>39 DEF Publish
<1>40. CASE Killed BY <1>40 DEF Killed, GiveUp, RunningPcs
<1>41. ASSUME NEW c \in Containers, ContainerDies(c) PROVE PcOK'
  BY <1>41 DEF ContainerDies
<1>42. CASE UNCHANGED vars BY <1>42 DEF vars
<1> QED
  BY <1>1, <1>2, <1>3, <1>4, <1>5, <1>6, <1>7, <1>8, <1>9, <1>10, <1>11, <1>12, <1>13, <1>14,
     <1>15, <1>16, <1>17, <1>18, <1>19, <1>20, <1>21, <1>22, <1>23, <1>24, <1>25, <1>26, <1>27,
     <1>28, <1>29, <1>30, <1>31, <1>32, <1>33, <1>34, <1>35, <1>36, <1>37, <1>38, <1>39, <1>40,
     <1>41, <1>42 DEF Next, Step, Generate, Finally, Evaluate

\* A step keeps the summary true, what is settled at each place, and the cover of the lock.
LEMMA InvStep ==
  Shapes /\ SummaryIsTrue /\ Places /\ LockInv /\ [Next]_vars =>
    SummaryIsTrue' /\ Places' /\ LockInv'
<1> SUFFICES ASSUME Shapes, SummaryIsTrue, Places, LockInv, [Next]_vars
    PROVE SummaryIsTrue' /\ Places' /\ LockInv'
  OBVIOUS
<1> USE DEF Shapes, BoxOK, FilesOK, SumOK, Containers, Files, FileStates, Summaries,
   SummaryIsTrue, Places, LockInv, LockCoversContainers, PredictionEligible, PreparePcs,
   AttemptPcs, BeforeClose, BeforeRemoval, EvaluationPcs
<1>1. CASE PrepareRejected BY <1>1 DEF PrepareRejected, GiveUp
<1>2. CASE PrepareAttempt BY <1>2 DEF PrepareAttempt, GiveUp, Download, MaxTries
<1>3. CASE GenerateRejected BY <1>3 DEF GenerateRejected
<1>4. CASE Admit BY <1>4 DEF Admit, Write, Torn, Thrown
<1>5. CASE CreateModel BY <1>5 DEF CreateModel, CreateContainer, Failing, Thrown
<1>6. CASE Ready BY <1>6 DEF Ready, Failing, Thrown
<1>7. CASE Preflight BY <1>7 DEF Preflight, Thrown
<1>8. CASE Inject BY <1>8 DEF Inject, Thrown
<1>9. CASE ClaimModel BY <1>9 DEF ClaimModel, Write, Torn, Thrown
<1>10. CASE Launch BY <1>10 DEF Launch
<1>11. CASE ModelReturns BY <1>11 DEF ModelReturns, Thrown
<1>12. CASE Close BY <1>12 DEF Close, CloseModel, Stopped, Thrown
<1>13. CASE ProcessReceipt BY <1>13 DEF ProcessReceipt, Write, Torn, Thrown
<1>14. CASE Export BY <1>14 DEF Export, CollectExports, Torn, Thrown
<1>15. CASE Remove BY <1>15 DEF Remove, RemoveContainer, Failing, ModelRemovalSafe, Thrown
<1>16. CASE Inspect BY <1>16 DEF Inspect, Thrown
<1>17. CASE CreateCapture BY <1>17 DEF CreateCapture, CreateContainer, Failing, Thrown
<1>18. CASE Capture BY <1>18 DEF Capture, Failing, Torn, Thrown
<1>19. CASE RemoveCapture BY <1>19 DEF RemoveCapture, RemoveContainer, Failing, Thrown
<1>20. CASE Predict
  <2>1. ASSUME ~PredictionEligible PROVE SummaryIsTrue' /\ Places' /\ LockInv'
    BY <1>20, <2>1 DEF Predict, Torn, Thrown
  <2>2. ASSUME PredictionEligible, UNCHANGED sum, file' \in {file, Torn("prediction")}
        PROVE SummaryIsTrue' /\ Places' /\ LockInv'
    BY <1>20, <2>2 DEF Predict, Torn, Thrown
  <2>3. ASSUME PredictionEligible, file' = [file EXCEPT !["prediction"] = "whole"],
               sum' = [sum EXCEPT !.prediction = TRUE, !.completed = TRUE]
        PROVE SummaryIsTrue' /\ Places' /\ LockInv'
    BY <1>20, <2>3 DEF Predict, Torn, Thrown
  <2> QED BY <1>20, <2>1, <2>2, <2>3 DEF Predict
<1>21. CASE PartialProbe BY <1>21 DEF PartialProbe, MayReject, Rejected
<1>22. CASE LastClose BY <1>22 DEF LastClose, CloseModel, Stopped
<1>23. CASE LastExport BY <1>23 DEF LastExport, CollectExports, Torn
<1>24. CASE LastRemove BY <1>24 DEF LastRemove, RemoveContainer, Failing, ModelRemovalSafe
<1>25. CASE LastCapture BY <1>25 DEF LastCapture, Torn, MayReject, Rejected
<1>26. CASE LastRemoveCapture BY <1>26 DEF LastRemoveCapture, RemoveContainer, Failing
<1>27. CASE LastReceipt BY <1>27 DEF LastReceipt, Write, Torn, MayReject, Rejected
<1>28. CASE Unlock BY <1>28 DEF Unlock, Rejected
<1>29. CASE WriteSummary BY <1>29 DEF WriteSummary, Write, Torn
<1>30. CASE Settle BY <1>30 DEF Settle, Write, Torn, GenerationComplete
<1>31. CASE AuditEvidence BY <1>31 DEF AuditEvidence, Write, Torn
<1>32. CASE EvaluateRefuses BY <1>32 DEF EvaluateRefuses, GiveUp
<1>33. CASE EvaluateAdmits BY <1>33 DEF EvaluateAdmits, Write, Torn, EvaluationFiles
<1>34. CASE ClaimEvaluation BY <1>34 DEF ClaimEvaluation, Write, Torn
<1>35. CASE EvaluatorStarts BY <1>35 DEF EvaluatorStarts
<1>36. CASE EvaluatorReturns BY <1>36 DEF EvaluatorReturns
<1>37. CASE WriteRecord BY <1>37 DEF WriteRecord, Write, Torn
<1>38. CASE ProveClosure BY <1>38 DEF ProveClosure, Torn
<1>39. CASE Publish BY <1>39 DEF Publish
<1>40. CASE Killed BY <1>40 DEF Killed, GiveUp, RunningPcs
<1>41. ASSUME NEW c \in Containers, ContainerDies(c) PROVE SummaryIsTrue' /\ Places' /\ LockInv'
  <2>1. CASE c = "model" BY <1>41, <2>1 DEF ContainerDies
  <2>2. CASE c # "model"
    <3>1. ~agent => ~agent' BY <1>41 DEF ContainerDies
    <3>2. /\ box' = [box EXCEPT ![c] = "stopped"] /\ box[c] = "running" /\ pc' = pc
          /\ UNCHANGED <<file, owns, knows, sum, calls, exported>>
      BY <1>41 DEF ContainerDies
    <3>3. SummaryIsTrue' BY <1>41, <2>2, <3>1, <3>2
    <3>4. Places' BY <1>41, <2>2, <3>1, <3>2
    <3>5. LockInv' BY <1>41, <2>2, <3>2
    <3> QED BY <3>3, <3>4, <3>5
  <2> QED BY <2>1, <2>2
<1>42. CASE UNCHANGED vars BY <1>42 DEF vars
<1> QED
  BY <1>1, <1>2, <1>3, <1>4, <1>5, <1>6, <1>7, <1>8, <1>9, <1>10, <1>11, <1>12, <1>13, <1>14,
     <1>15, <1>16, <1>17, <1>18, <1>19, <1>20, <1>21, <1>22, <1>23, <1>24, <1>25, <1>26, <1>27,
     <1>28, <1>29, <1>30, <1>31, <1>32, <1>33, <1>34, <1>35, <1>36, <1>37, <1>38, <1>39, <1>40,
     <1>41, <1>42 DEF Next, Step, Generate, Finally, Evaluate

\* A step that does not fail the job keeps the account of it that its end needs.
LEMMA OutcomeStep ==
  Shapes /\ failed \in BOOLEAN /\ SummaryIsTrue /\ Places /\ LockInv /\ Outcome /\ [Next]_vars =>
    Outcome'
<1> SUFFICES ASSUME Shapes, failed \in BOOLEAN, SummaryIsTrue, Places, LockInv, Outcome,
                    [Next]_vars
    PROVE Outcome'
  OBVIOUS
<1> USE DEF Shapes, BoxOK, FilesOK, SumOK, Containers, Files, FileStates, Summaries, Outcome,
   GenerationComplete, SummaryIsTrue, Places, LockInv, LockCoversContainers, PredictionEligible,
   PreparePcs, AttemptPcs, BeforeClose, BeforeRemoval, EvaluationPcs
<1>1. CASE PrepareRejected BY <1>1 DEF PrepareRejected, GiveUp
<1>2. CASE PrepareAttempt BY <1>2 DEF PrepareAttempt, GiveUp, Download, MaxTries
<1>3. CASE GenerateRejected BY <1>3 DEF GenerateRejected
<1>4. CASE Admit BY <1>4 DEF Admit, Write, Torn, Thrown
<1>5. CASE CreateModel BY <1>5 DEF CreateModel, CreateContainer, Failing, Thrown
<1>6. CASE Ready BY <1>6 DEF Ready, Failing, Thrown
<1>7. CASE Preflight BY <1>7 DEF Preflight, Thrown
<1>8. CASE Inject BY <1>8 DEF Inject, Thrown
<1>9. CASE ClaimModel BY <1>9 DEF ClaimModel, Write, Torn, Thrown
<1>10. CASE Launch BY <1>10 DEF Launch
<1>11. CASE ModelReturns BY <1>11 DEF ModelReturns, Thrown
<1>12. CASE Close BY <1>12 DEF Close, CloseModel, Stopped, Thrown
<1>13. CASE ProcessReceipt BY <1>13 DEF ProcessReceipt, Write, Torn, Thrown
<1>14. CASE Export BY <1>14 DEF Export, CollectExports, Torn, Thrown
<1>15. CASE Remove BY <1>15 DEF Remove, RemoveContainer, Failing, ModelRemovalSafe, Thrown
<1>16. CASE Inspect BY <1>16 DEF Inspect, Thrown
<1>17. CASE CreateCapture BY <1>17 DEF CreateCapture, CreateContainer, Failing, Thrown
<1>18. CASE Capture BY <1>18 DEF Capture, Failing, Torn, Thrown
<1>19. CASE RemoveCapture BY <1>19 DEF RemoveCapture, RemoveContainer, Failing, Thrown
<1>20. CASE Predict BY <1>20 DEF Predict, Torn, Thrown
<1>21. CASE PartialProbe BY <1>21 DEF PartialProbe, MayReject, Rejected
<1>22. CASE LastClose BY <1>22 DEF LastClose, CloseModel, Stopped
<1>23. CASE LastExport BY <1>23 DEF LastExport, CollectExports, Torn
<1>24. CASE LastRemove BY <1>24 DEF LastRemove, RemoveContainer, Failing, ModelRemovalSafe
<1>25. CASE LastCapture BY <1>25 DEF LastCapture, Torn, MayReject, Rejected
<1>26. CASE LastRemoveCapture BY <1>26 DEF LastRemoveCapture, RemoveContainer, Failing
<1>27. CASE LastReceipt BY <1>27 DEF LastReceipt, Write, Torn, MayReject, Rejected
<1>28. CASE Unlock BY <1>28 DEF Unlock, Rejected
<1>29. CASE WriteSummary
  <2>1. CASE pc' = "settle" BY <1>29, <2>1 DEF WriteSummary, Write, Torn
  <2>2. CASE pc' = "audit" BY <1>29, <2>2 DEF WriteSummary, Write, Torn
  <2> QED BY <1>29, <2>1, <2>2 DEF WriteSummary, Write, Torn
<1>30. CASE Settle BY <1>30 DEF Settle, Write, Torn, GenerationComplete
<1>31. CASE AuditEvidence BY <1>31 DEF AuditEvidence, Write, Torn
<1>32. CASE EvaluateRefuses BY <1>32 DEF EvaluateRefuses, GiveUp
<1>33. CASE EvaluateAdmits
  <2>1. CASE sum.prediction BY <1>33, <2>1 DEF EvaluateAdmits, Write, Torn, EvaluationFiles
  <2>2. CASE ~sum.prediction BY <1>33, <2>2 DEF EvaluateAdmits, Write, Torn, EvaluationFiles
  <2> QED BY <2>1, <2>2
<1>34. CASE ClaimEvaluation BY <1>34 DEF ClaimEvaluation, Write, Torn
<1>35. CASE EvaluatorStarts BY <1>35 DEF EvaluatorStarts
<1>36. CASE EvaluatorReturns BY <1>36 DEF EvaluatorReturns
<1>37. CASE WriteRecord BY <1>37 DEF WriteRecord, Write, Torn
<1>38. CASE ProveClosure BY <1>38 DEF ProveClosure, Torn
<1>39. CASE Publish BY <1>39 DEF Publish
<1>40. CASE Killed BY <1>40 DEF Killed, GiveUp, RunningPcs
<1>41. ASSUME NEW c \in Containers, ContainerDies(c) PROVE Outcome'
  BY <1>41 DEF ContainerDies
<1>42. CASE UNCHANGED vars BY <1>42 DEF vars
<1> QED
  BY <1>1, <1>2, <1>3, <1>4, <1>5, <1>6, <1>7, <1>8, <1>9, <1>10, <1>11, <1>12, <1>13, <1>14,
     <1>15, <1>16, <1>17, <1>18, <1>19, <1>20, <1>21, <1>22, <1>23, <1>24, <1>25, <1>26, <1>27,
     <1>28, <1>29, <1>30, <1>31, <1>32, <1>33, <1>34, <1>35, <1>36, <1>37, <1>38, <1>39, <1>40,
     <1>41, <1>42 DEF Next, Step, Generate, Finally, Evaluate

\* All of it holds of the job that has not begun.
LEMMA InitInv == Init => /\ FilesOK /\ BoxOK /\ SumOK /\ PlainOK /\ PcOK
                         /\ SummaryIsTrue /\ Places /\ LockInv /\ Outcome
<1> SUFFICES ASSUME Init
             PROVE /\ FilesOK /\ BoxOK /\ SumOK /\ PlainOK /\ PcOK
                   /\ SummaryIsTrue /\ Places /\ LockInv /\ Outcome
  OBVIOUS
<1> USE DEF Init
<1>1. FilesOK BY DEF FilesOK, FileStates
<1>2. BoxOK BY DEF BoxOK
<1>3. SumOK BY DEF SumOK, Summaries
<1>4. PlainOK
  <2>1. calls \in [model: 0..1, evaluator: 0..1] OBVIOUS
  <2>2. tries \in 0..3 /\ knows \subseteq {"model", "capture"} OBVIOUS
  <2> QED BY <2>1, <2>2 DEF PlainOK
<1>5. PcOK BY DEF PcOK, Pcs, RunningPcs, PreparePcs
<1>6. SummaryIsTrue BY DEF SummaryIsTrue, Files
<1>7. Places BY DEF Places, Containers, Files, PreparePcs, AttemptPcs, BeforeClose,
   BeforeRemoval, EvaluationPcs
<1>8. LockInv BY DEF LockInv, LockCoversContainers, Containers
<1>9. Outcome BY DEF Outcome, EvaluationPcs
<1> QED BY <1>1, <1>2, <1>3, <1>4, <1>5, <1>6, <1>7, <1>8, <1>9

\* The inductive invariant holds of every reachable state.
LEMMA Reachable == Spec => [](/\ FilesOK /\ BoxOK /\ SumOK /\ PlainOK /\ PcOK
                              /\ SummaryIsTrue /\ Places /\ LockInv /\ Outcome)
<1> DEFINE I == /\ FilesOK /\ BoxOK /\ SumOK /\ PlainOK /\ PcOK
                /\ SummaryIsTrue /\ Places /\ LockInv /\ Outcome
<1>1. Init => I BY InitInv
<1>2. I /\ [Next]_vars => I'
  <2> SUFFICES ASSUME I, [Next]_vars PROVE I' OBVIOUS
  <2>1. Shapes /\ failed \in BOOLEAN BY DEF Shapes, PlainOK
  <2>2. FilesOK' /\ BoxOK' /\ SumOK' BY FilesStep, BoxStep, SumStep
  <2>3. PlainOK' /\ PcOK' BY PlainStep, PcStep
  <2>4. SummaryIsTrue' /\ Places' /\ LockInv' BY <2>1, InvStep
  <2>5. Outcome' BY <2>1, OutcomeStep
  <2> QED BY <2>2, <2>3, <2>4, <2>5
<1> QED BY <1>1, <1>2, PTL DEF Spec

\* The job keeps to its types (generateNodeBundleTask, evaluateNodeBundleTask).
THEOREM TypeCorrect == Spec => []TypeOK
<1>1. FilesOK /\ BoxOK /\ SumOK /\ PlainOK /\ PcOK => TypeOK
  BY DEF FilesOK, BoxOK, SumOK, PlainOK, PcOK, TypeOK
<1> QED BY <1>1, Reachable, PTL

\* While the lock is free nothing the job knows of is left, killed or not
\* (the unlink of generateNodeBundleTask, and the closure of evaluateNodeBundleTask).
THEOREM LockSafe == Spec => []LockCoversContainers
<1>1. LockInv => LockCoversContainers BY DEF LockInv
<1> QED BY <1>1, Reachable, PTL

\* No model container is removed before its evidence is safe (modelRemovalSafe).
THEOREM EvidenceSafe == Spec => []EvidenceOutlivesModel
<1>1. SummaryIsTrue => EvidenceOutlivesModel BY DEF SummaryIsTrue, EvidenceOutlivesModel
<1> QED BY <1>1, Reachable, PTL

\* No prediction exists that was not earned (predictionEligible).
THEOREM PredictionSafe == Spec => []PredictionIsEarned
<1>1. PlainOK /\ SummaryIsTrue /\ Places => PredictionIsEarned
  BY DEF PlainOK, SummaryIsTrue, Places, PredictionIsEarned, PredictionEligible
<1> QED BY <1>1, Reachable, PTL

\* No job succeeds that has not accounted for its attempt (settle, evaluate, publish).
THEOREM SuccessSafe == Spec => []SuccessIsAccounted
<1>1. Outcome => SuccessIsAccounted BY DEF Outcome, SuccessIsAccounted
<1> QED BY <1>1, Reachable, PTL
=============================================================================
