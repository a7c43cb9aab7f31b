--------------------------- MODULE VerdictsProofs ----------------------------
(***************************************************************************)
(* Theorems about Verdicts, for any batch, any names and any length run    *)
(* ids are cut to, for a log of any length, and for any tasks, batches and *)
(* number of re-gradings.  Each program has its invariant; every step of   *)
(* every program is then one of EarnedVerdict.                             *)
(***************************************************************************)
EXTENDS Verdicts, Sequences, TLAPS

(***************************************************************************)
(* The official evaluator.  Names are of no use here: whichever containers *)
(* the clean-up of one evaluation takes away, one that is taken in         *)
(* mid-test leaves its harness nothing to grade (Undisturbed), and a       *)
(* report never says more than its tests did (Reported).                   *)
(***************************************************************************)

Reasons ==
  {"none", "invalid-prediction", "config-mismatch", "digest-mismatch", "evaluator-error",
   "evaluator-timeout", "report-missing", "report-malformed", "report-mismatch"}
    \cup Evaluator!Conclusive

EvaluatorTypes ==
  /\ stage \in [Evaluator!Predictions -> Evaluator!Stages]
  /\ harness \in [Evaluator!Predictions -> {"none", "running", "exited", "failed", "killed"}]
  /\ timedOut \in [Evaluator!Predictions -> BOOLEAN]
  /\ container \in [Evaluator!Predictions -> {"none", "testing", "tested", "removed"}]
  /\ listed \in [Evaluator!Predictions -> SUBSET Evaluator!Predictions]
  /\ runReport \in [Evaluator!Predictions -> Evaluator!RunReports \cup {Evaluator!Missing}]
  /\ reason \in [Evaluator!Predictions -> Reasons]
  /\ tests \in [Evaluator!Predictions -> {"silent", "pass", "fail"}]
  /\ disturbed \subseteq Evaluator!Predictions

Earlier == {"idle", "preflight", "resolve", "manifest", "pull", "inspect", "alias", "evaluate"}

\* Where the evaluation is, and what its harness and its record are then.
Placed(p) ==
  /\ stage[p] \in Earlier => harness[p] = "none"
  /\ harness[p] = "running" => stage[p] = "running"
  /\ reason[p] # "none" <=> stage[p] = "recorded"

\* Tests speak when their container has seen them through.
Undisturbed(p) ==
  /\ container[p] \in {"none", "testing"} => tests[p] = "silent"
  /\ p \in disturbed => container[p] = "removed" /\ tests[p] = "silent"

\* A report is of a harness that ended on its own, and lists what the tests said.
Reported(p) ==
  runReport[p] # Evaluator!Missing =>
    harness[p] = "exited" /\ runReport[p].lists \in Evaluator!Lists(tests[p])

\* A conclusive record says what the tests said.
Concluded(p) ==
  reason[p] \in Evaluator!Conclusive =>
    /\ harness[p] = "exited" /\ ~timedOut[p]
    /\ IF reason[p] = "official-resolved" THEN tests[p] = "pass" ELSE tests[p] = "fail"

EvaluatorInv ==
  /\ EvaluatorTypes
  /\ \A p \in Evaluator!Predictions : Placed(p) /\ Undisturbed(p) /\ Reported(p) /\ Concluded(p)

-----------------------------------------------------------------------------
\* Nothing has run and nothing is recorded.
LEMMA EvaluatorInitInv == Evaluator!Init => EvaluatorInv
<1> SUFFICES ASSUME Evaluator!Init PROVE EvaluatorInv
  OBVIOUS
<1>1. EvaluatorTypes
  BY DEF Evaluator!Init, EvaluatorTypes, Evaluator!Stages, Reasons
<1>2. ASSUME NEW p \in Evaluator!Predictions
      PROVE  Placed(p) /\ Undisturbed(p) /\ Reported(p) /\ Concluded(p)
  BY DEF Evaluator!Init, Placed, Undisturbed, Reported, Concluded, Earlier, Evaluator!Conclusive
<1> QED
  BY <1>1, <1>2 DEF EvaluatorInv

\* A step to another place of evaluateFrozenPrediction that is not the running of the harness.
LEMMA AwaitKeeps ==
  ASSUME EvaluatorInv, NEW p \in Evaluator!Predictions,
         NEW place \in Evaluator!Stages \ {"running", "recorded"},
         Evaluator!Await(p, place), stage[p] # "recorded", harness[p] # "running",
         place \in Earlier => harness[p] = "none"
  PROVE  EvaluatorInv'
<1>1. EvaluatorTypes'
  BY DEF EvaluatorInv, EvaluatorTypes, Evaluator!Await, Evaluator!Stages
<1>2. ASSUME NEW q \in Evaluator!Predictions
      PROVE  (Placed(q) /\ Undisturbed(q) /\ Reported(q) /\ Concluded(q))'
  BY DEF EvaluatorInv, EvaluatorTypes, Evaluator!Await, Placed, Undisturbed, Reported, Concluded
<1> QED
  BY <1>1, <1>2 DEF EvaluatorInv

\* A record that says why, where a conclusive one rests on the tests.
LEMMA ConcludeKeeps ==
  ASSUME EvaluatorInv, NEW p \in Evaluator!Predictions, NEW why \in Reasons \ {"none"},
         Evaluator!Conclude(p, why), harness[p] # "running",
         why \in Evaluator!Conclusive =>
           /\ harness[p] = "exited" /\ ~timedOut[p]
           /\ IF why = "official-resolved" THEN tests[p] = "pass" ELSE tests[p] = "fail"
  PROVE  EvaluatorInv'
<1>1. EvaluatorTypes'
  BY DEF EvaluatorInv, EvaluatorTypes, Evaluator!Conclude, Evaluator!Stages
<1>2. ASSUME NEW q \in Evaluator!Predictions
      PROVE  (Placed(q) /\ Undisturbed(q))'
  BY DEF EvaluatorInv, EvaluatorTypes, Evaluator!Conclude, Placed, Undisturbed, Earlier
<1>3. ASSUME NEW q \in Evaluator!Predictions
      PROVE  (Reported(q) /\ Concluded(q))'
  BY DEF EvaluatorInv, EvaluatorTypes, Evaluator!Conclude, Reported, Concluded
<1> QED
  BY <1>1, <1>2, <1>3 DEF EvaluatorInv

\* What a harness that was not stopped reports is what its tests said.
LEMMA ProjectionIsEarned ==
  ASSUME EvaluatorInv, NEW p \in Evaluator!Predictions, runReport[p] # Evaluator!Missing
  PROVE  LET why == Evaluator!ProjectOfficialRunReport(runReport[p]) IN
         /\ why \in Reasons \ {"none"}
         /\ why = "official-resolved" => tests[p] = "pass"
         /\ why = "official-unresolved" => tests[p] = "fail"
<1> DEFINE report == runReport[p]
<1>1. report \in Evaluator!RunReports /\ report.lists \in Evaluator!Lists(tests[p])
  BY DEF EvaluatorInv, EvaluatorTypes, Reported
<1>2. report.wellFormed \in BOOLEAN /\ report.submitted \in BOOLEAN
  BY <1>1 DEF Evaluator!RunReports
<1>3. tests[p] \in {"silent", "pass", "fail"}
  BY DEF EvaluatorInv, EvaluatorTypes
<1>4. report.lists = {"completed", "resolved"} => tests[p] = "pass"
  BY <1>1, <1>3 DEF Evaluator!Lists
<1>5. report.lists = {"completed", "unresolved"} => tests[p] = "fail"
  BY <1>1, <1>3 DEF Evaluator!Lists
<1> QED
  BY <1>2, <1>4, <1>5 DEF Evaluator!ProjectOfficialRunReport, Reasons, Evaluator!Conclusive

\* The steps before the evaluation.
LEMMA EarlyStepKeeps ==
  ASSUME EvaluatorInv, NEW p \in Evaluator!Predictions,
         \/ Evaluator!Begin(p) \/ Evaluator!PreflightEvaluator(p)
         \/ Evaluator!ResolveOfficialImageRef(p) \/ Evaluator!LoadImageManifest(p)
         \/ Evaluator!PullPinned(p) \/ Evaluator!InspectPinned(p) \/ Evaluator!AliasPinned(p)
  PROVE  EvaluatorInv'
<1> DEFINE Why == {"invalid-prediction", "config-mismatch", "digest-mismatch", "evaluator-error"}
<1>1. \/ \E place \in (Earlier \cup {"thrown"}) \ {"idle"} : Evaluator!Await(p, place)
      \/ \E why \in Why : Evaluator!Conclude(p, why)
  BY DEF Evaluator!Begin, Evaluator!PreflightEvaluator, Evaluator!ResolveOfficialImageRef,
         Evaluator!LoadImageManifest, Evaluator!PullPinned, Evaluator!InspectPinned,
         Evaluator!AliasPinned, Earlier
<1>2. stage[p] \in Earlier
  BY DEF Evaluator!Begin, Evaluator!PreflightEvaluator, Evaluator!ResolveOfficialImageRef,
         Evaluator!LoadImageManifest, Evaluator!PullPinned, Evaluator!InspectPinned,
         Evaluator!AliasPinned, Earlier
<1>3. harness[p] = "none" /\ stage[p] # "recorded"
  BY <1>2 DEF EvaluatorInv, Placed, Earlier
<1>4. CASE \E place \in (Earlier \cup {"thrown"}) \ {"idle"} : Evaluator!Await(p, place)
  <2>1. PICK place \in (Earlier \cup {"thrown"}) \ {"idle"} : Evaluator!Await(p, place)
    BY <1>4
  <2>2. place \in Evaluator!Stages \ {"running", "recorded"}
    BY DEF Evaluator!Stages, Earlier
  <2> QED
    BY <1>3, <2>1, <2>2, AwaitKeeps
<1>5. CASE \E why \in Why : Evaluator!Conclude(p, why)
  <2>1. PICK why \in Why : Evaluator!Conclude(p, why)
    BY <1>5
  <2>2. why \in Reasons \ {"none"} /\ why \notin Evaluator!Conclusive
    BY DEF Reasons, Evaluator!Conclusive
  <2> QED
    BY <1>3, <2>1, <2>2, ConcludeKeeps
<1> QED
  BY <1>1, <1>4, <1>5

\* The harness is started.
LEMMA RunEvaluationKeeps ==
  ASSUME EvaluatorInv, NEW p \in Evaluator!Predictions, Evaluator!RunEvaluation(p)
  PROVE  EvaluatorInv'
<1>1. harness[p] = "none" /\ stage[p] = "evaluate"
  BY DEF Evaluator!RunEvaluation, EvaluatorInv, Placed, Earlier
<1>2. CASE Evaluator!Await(p, "thrown")
  BY <1>1, <1>2, AwaitKeeps DEF Evaluator!Stages, Earlier
<1>3. CASE ~Evaluator!Await(p, "thrown")
  <2>1. EvaluatorTypes'
    BY <1>3 DEF Evaluator!RunEvaluation, EvaluatorInv, EvaluatorTypes, Evaluator!Stages
  <2>2. ASSUME NEW q \in Evaluator!Predictions
        PROVE  (Placed(q) /\ Undisturbed(q) /\ Reported(q) /\ Concluded(q))'
    BY <1>1, <1>3 DEF Evaluator!RunEvaluation, EvaluatorInv, EvaluatorTypes, Placed, Undisturbed,
                      Reported, Concluded, Earlier
  <2> QED
    BY <2>1, <2>2 DEF EvaluatorInv
<1> QED
  BY <1>2, <1>3

\* Its container starts, and the tests in it end.
LEMMA HarnessTestsKeeps ==
  ASSUME EvaluatorInv, NEW p \in Evaluator!Predictions, Evaluator!HarnessTests(p)
  PROVE  EvaluatorInv'
<1>1. EvaluatorTypes'
  BY DEF Evaluator!HarnessTests, EvaluatorInv, EvaluatorTypes
<1>2. runReport[p] = Evaluator!Missing /\ reason[p] = "none"
  BY DEF Evaluator!HarnessTests, EvaluatorInv, EvaluatorTypes, Reported, Placed
<1>3. ASSUME NEW q \in Evaluator!Predictions PROVE (Placed(q) /\ Undisturbed(q))'
  BY DEF Evaluator!HarnessTests, EvaluatorInv, EvaluatorTypes, Placed, Undisturbed
<1>4. ASSUME NEW q \in Evaluator!Predictions PROVE Reported(q)'
  BY <1>2 DEF Evaluator!HarnessTests, EvaluatorInv, EvaluatorTypes, Reported
<1>5. ASSUME NEW q \in Evaluator!Predictions PROVE Concluded(q)'
  BY <1>2 DEF Evaluator!HarnessTests, EvaluatorInv, EvaluatorTypes, Concluded,
              Evaluator!Conclusive
<1> QED
  BY <1>1, <1>3, <1>4, <1>5 DEF EvaluatorInv

\* It ends, or fails.
LEMMA HarnessExitsKeeps ==
  ASSUME EvaluatorInv, NEW p \in Evaluator!Predictions, Evaluator!HarnessExits(p)
  PROVE  EvaluatorInv'
<1>1. runReport[p] = Evaluator!Missing /\ reason[p] = "none" /\ stage[p] = "running"
  BY DEF Evaluator!HarnessExits, EvaluatorInv, EvaluatorTypes, Reported, Placed
<1>2. EvaluatorTypes'
  BY DEF Evaluator!HarnessExits, EvaluatorInv, EvaluatorTypes
<1>3. ASSUME NEW q \in Evaluator!Predictions PROVE Placed(q)'
  BY <1>1 DEF Evaluator!HarnessExits, EvaluatorInv, EvaluatorTypes, Placed, Earlier
<1>4. ASSUME NEW q \in Evaluator!Predictions PROVE Undisturbed(q)'
  BY DEF Evaluator!HarnessExits, EvaluatorInv, EvaluatorTypes, Undisturbed
<1>5. ASSUME NEW q \in Evaluator!Predictions PROVE Reported(q)'
  BY <1>1 DEF Evaluator!HarnessExits, EvaluatorInv, EvaluatorTypes, Reported
<1>6. ASSUME NEW q \in Evaluator!Predictions PROVE Concluded(q)'
  BY <1>1 DEF Evaluator!HarnessExits, EvaluatorInv, EvaluatorTypes, Concluded,
              Evaluator!Conclusive
<1> QED
  BY <1>2, <1>3, <1>4, <1>5, <1>6 DEF EvaluatorInv

\* The timer fires, also after the harness ended.
LEMMA TimerFiresKeeps ==
  ASSUME EvaluatorInv, NEW p \in Evaluator!Predictions, Evaluator!TimerFires(p)
  PROVE  EvaluatorInv'
<1>1. EvaluatorTypes'
  BY DEF Evaluator!TimerFires, EvaluatorInv, EvaluatorTypes
<1>2. reason[p] = "none" /\ (runReport[p] # Evaluator!Missing => harness[p] = "exited")
  BY DEF Evaluator!TimerFires, EvaluatorInv, Placed, Reported
<1>3. ASSUME NEW q \in Evaluator!Predictions PROVE (Placed(q) /\ Undisturbed(q))'
  BY DEF Evaluator!TimerFires, EvaluatorInv, EvaluatorTypes, Placed, Undisturbed, Earlier
<1>4. ASSUME NEW q \in Evaluator!Predictions PROVE (Reported(q) /\ Concluded(q))'
  BY <1>2 DEF Evaluator!TimerFires, EvaluatorInv, EvaluatorTypes, Reported, Concluded,
              Evaluator!Conclusive
<1> QED
  BY <1>1, <1>3, <1>4 DEF EvaluatorInv

\* The process is over: a record, or the clean-up.
LEMMA ClosesKeeps ==
  ASSUME EvaluatorInv, NEW p \in Evaluator!Predictions, Evaluator!Closes(p)
  PROVE  EvaluatorInv'
<1>1. stage[p] = "running" /\ harness[p] # "running"
  BY DEF Evaluator!Closes
<1>2. CASE \E place \in {"thrown", "ps"} : Evaluator!Await(p, place)
  BY <1>1, <1>2, AwaitKeeps DEF Evaluator!Stages, Earlier
<1>3. CASE /\ ~timedOut[p] /\ harness[p] = "exited"
           /\ Evaluator!Conclude(p, IF runReport[p] = Evaluator!Missing THEN "report-missing"
                          ELSE Evaluator!ProjectOfficialRunReport(runReport[p]))
  <2>1. CASE runReport[p] = Evaluator!Missing
    BY <1>1, <1>3, <2>1, ConcludeKeeps DEF Reasons, Evaluator!Conclusive
  <2>2. CASE runReport[p] # Evaluator!Missing
    BY <1>1, <1>3, <2>2, ConcludeKeeps, ProjectionIsEarned DEF Evaluator!Conclusive
  <2> QED
    BY <2>1, <2>2
<1> QED
  BY <1>2, <1>3 DEF Evaluator!Closes

\* The containers found by name are removed, whoever's they are.
LEMMA RemoveContainersKeeps ==
  ASSUME EvaluatorInv, NEW p \in Evaluator!Predictions, Evaluator!RemoveContainers(p)
  PROVE  EvaluatorInv'
<1>1. PICK gone \in SUBSET listed[p] :
        /\ container' = [q \in Evaluator!Predictions |->
                          IF q \in gone THEN "removed" ELSE container[q]]
        /\ disturbed' = disturbed \cup {q \in gone : container[q] = "testing"}
  BY DEF Evaluator!RemoveContainers
<1>2. gone \subseteq Evaluator!Predictions
  BY <1>1 DEF EvaluatorInv, EvaluatorTypes
<1>3. EvaluatorTypes'
  BY <1>1, <1>2 DEF Evaluator!RemoveContainers, EvaluatorInv, EvaluatorTypes, Evaluator!Stages,
                    Reasons
<1>4. harness[p] # "running"
  BY DEF Evaluator!RemoveContainers, EvaluatorInv, Placed
<1>5. ASSUME NEW q \in Evaluator!Predictions PROVE Placed(q)'
  BY <1>4 DEF Evaluator!RemoveContainers, EvaluatorInv, EvaluatorTypes, Placed, Earlier
<1>6. ASSUME NEW q \in Evaluator!Predictions PROVE Undisturbed(q)'
  BY <1>1, <1>2 DEF Evaluator!RemoveContainers, EvaluatorInv, EvaluatorTypes, Undisturbed
<1>7. ASSUME NEW q \in Evaluator!Predictions PROVE (Reported(q) /\ Concluded(q))'
  BY DEF Evaluator!RemoveContainers, EvaluatorInv, EvaluatorTypes, Reported, Concluded,
         Evaluator!Conclusive
<1> QED
  BY <1>3, <1>5, <1>6, <1>7 DEF EvaluatorInv

\* The containers that bear the name are listed, or the clean-up ends there.
LEMMA ListContainersKeeps ==
  ASSUME EvaluatorInv, NEW p \in Evaluator!Predictions, Evaluator!ListContainers(p)
  PROVE  EvaluatorInv'
<1>1. stage[p] = "ps" /\ harness[p] # "running"
  BY DEF Evaluator!ListContainers, EvaluatorInv, Placed
<1>2. CASE Evaluator!CleanedUp(p)
  BY <1>1, <1>2, ConcludeKeeps DEF Evaluator!CleanedUp, Reasons, Evaluator!Conclusive
<1>3. CASE ~Evaluator!CleanedUp(p)
  <2>1. EvaluatorTypes'
    BY <1>3 DEF Evaluator!ListContainers, EvaluatorInv, EvaluatorTypes, Evaluator!Stages
  <2>2. ASSUME NEW q \in Evaluator!Predictions
        PROVE  (Placed(q) /\ Undisturbed(q) /\ Reported(q) /\ Concluded(q))'
    BY <1>1, <1>3 DEF Evaluator!ListContainers, EvaluatorInv, EvaluatorTypes, Placed, Undisturbed,
                      Reported, Concluded, Earlier
  <2> QED
    BY <2>1, <2>2 DEF EvaluatorInv
<1> QED
  BY <1>2, <1>3

\* The dataset and the images are none of its business.
LEMMA OtherVarsKeep == EvaluatorInv /\ UNCHANGED Evaluator!evaluationVars => EvaluatorInv'
<1> SUFFICES ASSUME EvaluatorInv, UNCHANGED Evaluator!evaluationVars PROVE EvaluatorInv'
  OBVIOUS
<1>1. EvaluatorTypes'
  BY DEF EvaluatorInv, EvaluatorTypes, Evaluator!evaluationVars
<1>2. ASSUME NEW q \in Evaluator!Predictions
      PROVE  (Placed(q) /\ Undisturbed(q) /\ Reported(q) /\ Concluded(q))'
  BY DEF EvaluatorInv, Placed, Undisturbed, Reported, Concluded, Evaluator!evaluationVars
<1> QED
  BY <1>1, <1>2 DEF EvaluatorInv

\* Every step keeps the invariant.
LEMMA EvaluatorNextInv == EvaluatorInv /\ Evaluator!Next => EvaluatorInv'
<1> SUFFICES ASSUME EvaluatorInv, Evaluator!Next PROVE EvaluatorInv'
  OBVIOUS
<1>1. ASSUME NEW p \in Evaluator!Predictions, Evaluator!Evaluate(p) PROVE EvaluatorInv'
  <2>1. CASE \/ Evaluator!Begin(p) \/ Evaluator!PreflightEvaluator(p)
             \/ Evaluator!ResolveOfficialImageRef(p) \/ Evaluator!LoadImageManifest(p)
             \/ Evaluator!PullPinned(p) \/ Evaluator!InspectPinned(p) \/ Evaluator!AliasPinned(p)
    BY <2>1, EarlyStepKeeps
  <2>2. CASE Evaluator!RunEvaluation(p) \/ Evaluator!Closes(p)
    BY <2>2, RunEvaluationKeeps, ClosesKeeps
  <2>3. CASE Evaluator!HarnessTests(p) \/ Evaluator!HarnessExits(p) \/ Evaluator!TimerFires(p)
    BY <2>3, HarnessTestsKeeps, HarnessExitsKeeps, TimerFiresKeeps
  <2>4. CASE Evaluator!ListContainers(p) \/ Evaluator!RemoveContainers(p)
    BY <2>4, ListContainersKeeps, RemoveContainersKeeps
  <2> QED
    BY <1>1, <2>1, <2>2, <2>3, <2>4 DEF Evaluator!Evaluate
<1>2. CASE \/ Evaluator!BeginAcquisition \/ Evaluator!DatasetDownloaded
           \/ Evaluator!WriteDatasetManifest \/ Evaluator!BeginFreeze \/ Evaluator!PullTag
           \/ Evaluator!FreezeDigest \/ Evaluator!FreezeThrows
  <2>1. UNCHANGED Evaluator!evaluationVars
    BY <1>2 DEF Evaluator!BeginAcquisition, Evaluator!DatasetDownloaded,
                Evaluator!WriteDatasetManifest, Evaluator!BeginFreeze, Evaluator!PullTag,
                Evaluator!FreezeDigest, Evaluator!FreezeThrows, Evaluator!Frozen
  <2> QED
    BY <2>1, OtherVarsKeep
<1> QED
  BY <1>1, <1>2 DEF Evaluator!Next

\* What has spoken was not disturbed.
LEMMA InvImpliesUndisturbed == EvaluatorInv => Evaluator!ConclusiveIsUndisturbed
<1> SUFFICES ASSUME EvaluatorInv, NEW p \in Evaluator!Predictions,
                    reason[p] \in Evaluator!Conclusive
             PROVE  /\ p \notin disturbed /\ tests[p] # "silent"
                    /\ harness[p] = "exited" /\ ~timedOut[p]
  BY DEF Evaluator!ConclusiveIsUndisturbed
<1>1. tests[p] \in {"pass", "fail"} /\ harness[p] = "exited" /\ ~timedOut[p]
  BY DEF EvaluatorInv, Concluded
<1> QED
  BY <1>1 DEF EvaluatorInv, Undisturbed

\* What a step does to one prediction, as EarnedVerdict has it.
LEMMA EvaluatorStep ==
  ASSUME EvaluatorInv, EvaluatorInv', Evaluator!Next, NEW q \in Evaluator!Predictions
  PROVE  \/ tests'[q] = tests[q] /\ reason'[q] = reason[q]
         \/ /\ reason[q] = "none" /\ reason'[q] = "none"
            /\ tests[q] = "silent" /\ tests'[q] \in {"pass", "fail"}
         \/ /\ reason[q] = "none" /\ reason'[q] # "none" /\ tests'[q] = tests[q]
<1>1. ASSUME NEW p \in Evaluator!Predictions, Evaluator!HarnessTests(p)
      PROVE  \/ tests'[q] = tests[q] /\ reason'[q] = reason[q]
             \/ /\ reason[q] = "none" /\ reason'[q] = "none"
                /\ tests[q] = "silent" /\ tests'[q] \in {"pass", "fail"}
  BY <1>1 DEF Evaluator!HarnessTests, EvaluatorInv, EvaluatorTypes, Placed, Undisturbed
<1>2. ASSUME NEW p \in Evaluator!Predictions, Evaluator!Evaluate(p), ~Evaluator!HarnessTests(p)
      PROVE  /\ tests' = tests
             /\ reason'[q] = reason[q] \/ (stage[q] # "recorded" /\ stage'[q] = "recorded")
  BY <1>2 DEF Evaluator!Evaluate, Evaluator!Begin, Evaluator!PreflightEvaluator,
              Evaluator!ResolveOfficialImageRef, Evaluator!LoadImageManifest,
              Evaluator!PullPinned, Evaluator!InspectPinned, Evaluator!AliasPinned,
              Evaluator!RunEvaluation, Evaluator!HarnessExits, Evaluator!TimerFires,
              Evaluator!Closes, Evaluator!ListContainers, Evaluator!RemoveContainers,
              Evaluator!CleanedUp, Evaluator!Await, Evaluator!Conclude, EvaluatorInv,
              EvaluatorTypes
<1>3. CASE UNCHANGED Evaluator!evaluationVars
  BY <1>3 DEF Evaluator!evaluationVars
<1>4. \/ UNCHANGED Evaluator!evaluationVars
      \/ \E p \in Evaluator!Predictions : Evaluator!Evaluate(p)
  BY DEF Evaluator!Next, Evaluator!BeginAcquisition, Evaluator!DatasetDownloaded,
         Evaluator!WriteDatasetManifest, Evaluator!BeginFreeze, Evaluator!PullTag,
         Evaluator!FreezeDigest, Evaluator!FreezeThrows, Evaluator!Frozen
<1> QED
  BY <1>1, <1>2, <1>3, <1>4 DEF EvaluatorInv, Placed

-----------------------------------------------------------------------------
(***************************************************************************)
(* A trial.  What the reducer holds is of the lines it has been fed        *)
(* (Fed), so at the end of the log it says of the run what Oracle asks.    *)
(***************************************************************************)

\* An entry is of the primary run.
Primary(i) == Trial!HasHeader => log[i].run = "root"

\* The i-th line is an entry of this type of the primary run; and the last one of the first n.
IsOf(i, type) == log[i].type = type /\ Primary(i)
IsLastOf(i, n, type) == IsOf(i, type) /\ \A j \in 1..n : IsOf(j, type) => j <= i

Summaries ==
  [lines : Nat, rootRunId : {"null", "root"}, countedOutcomes : Nat, primaryOutcomes : Nat,
   terminalCause : {"null", "model-failure", "completed"},
   fatalFailureReason : {"null", "connection", "timeout"}]

TrialTypes ==
  /\ suite \in {"frontier", "terminal"}
  /\ phase \in {"idle", "staged", "verified", "running", "closed", "ended"}
  /\ trial \in {Trial!NoTrial, Trial!Unparsable} \cup Trial!Results
  /\ log \in Seq(Trial!Entries \cup {Trial!Header})
  /\ logState \in {"readable", "overlong", "unreadable"}
  /\ disposition \in {"none", "torn"} \cup Trial!Dispositions
  /\ summary \in Summaries /\ summary.lines <= Len(log)

\* Until the runner has closed there is nothing to read, and until the end no record.
Pending ==
  /\ phase \in {"idle", "staged", "verified", "running"} =>
       trial = Trial!NoTrial /\ summary = Trial!EmptySummary
  /\ phase # "ended" => disposition = "none"

\* Only the first line may be a header.
Headed == \A i \in 2..Len(log) : log[i] \in Trial!Entries

\* The summary is of the first lines of the log.
Fed ==
  LET n == summary.lines IN
  /\ summary.rootRunId = IF n > 0 /\ Trial!HasHeader THEN "root" ELSE "null"
  /\ summary.countedOutcomes = 0 <=> \A i \in 1..n : log[i].type # "model-outcome"
  /\ Trial!HasHeader =>
       (summary.primaryOutcomes = 0 <=> \A i \in 1..n : ~IsOf(i, "model-outcome"))
  /\ IF summary.terminalCause = "null"
     THEN \A i \in 1..n : ~IsOf(i, "terminal-snapshot")
     ELSE \E i \in 1..n : /\ IsLastOf(i, n, "terminal-snapshot")
                          /\ log[i].cause = summary.terminalCause
  /\ IF summary.fatalFailureReason = "null"
     THEN \A i \in 1..n : ~IsOf(i, "model-failure")
     ELSE \E i \in 1..n : /\ IsLastOf(i, n, "model-failure")
                          /\ log[i].reason = summary.fatalFailureReason

TrialInv == TrialTypes /\ Pending /\ Headed /\ Fed

\* One more line, in the fields of the summary.
LEMMA FeedIs ==
  ASSUME NEW s \in Summaries, NEW entry \in Trial!Entries \cup {Trial!Header},
         NEW next, next = Trial!Feed(s, entry)
  PROVE  LET primary == s.rootRunId = "null" \/ entry.run = s.rootRunId IN
         /\ next \in Summaries
         /\ next.lines = s.lines + 1
         /\ next.rootRunId = IF entry.type = "header" THEN "root" ELSE s.rootRunId
         /\ next.countedOutcomes =
              s.countedOutcomes + IF entry.type = "model-outcome" THEN 1 ELSE 0
         /\ next.primaryOutcomes =
              s.primaryOutcomes
                + IF entry.type = "model-outcome" /\ entry.run = s.rootRunId THEN 1 ELSE 0
         /\ next.terminalCause =
              IF entry.type = "terminal-snapshot" /\ primary THEN entry.cause
                                                             ELSE s.terminalCause
         /\ next.fatalFailureReason =
              IF entry.type = "model-failure" /\ primary THEN entry.reason
                                                         ELSE s.fatalFailureReason
<1>1. /\ entry.type = "terminal-snapshot" => entry.cause \in {"model-failure", "completed"}
      /\ entry.type = "model-failure" => entry.reason \in {"connection", "timeout"}
  BY DEF Trial!Entries, Trial!Header
<1>2. /\ s.lines \in Nat /\ s.countedOutcomes \in Nat /\ s.primaryOutcomes \in Nat
      /\ s.rootRunId \in {"null", "root"}
      /\ s.terminalCause \in {"null", "model-failure", "completed"}
      /\ s.fatalFailureReason \in {"null", "connection", "timeout"}
  BY DEF Summaries
<1> QED
  BY <1>1, <1>2 DEF Trial!Feed, Summaries

\* Nothing has been fed.
LEMMA EmptyIsFed ==
  ASSUME summary = Trial!EmptySummary
  PROVE  summary \in Summaries /\ Fed
  BY DEF Trial!EmptySummary, Summaries, Fed

\* There is no trial.
LEMMA TrialInitInv == Trial!Init => TrialInv
<1> SUFFICES ASSUME Trial!Init PROVE TrialInv
  OBVIOUS
<1>1. Fed /\ summary \in Summaries /\ summary.lines = 0
  BY EmptyIsFed DEF Trial!Init, Trial!EmptySummary
<1>2. log \in Seq(Trial!Entries \cup {Trial!Header}) /\ Len(log) \in {0, 1}
  <2>1. log = <<>> \/ log = <<Trial!Header>>
    BY DEF Trial!Init
  <2> DEFINE set == Trial!Entries \cup {Trial!Header}
  <2>2. Trial!Header \in set
    OBVIOUS
  <2> HIDE DEF set
  <2>3. CASE log = <<>>
    BY <2>3
  <2>4. CASE log = <<Trial!Header>>
    <3>1. \A x \in set : <<x>> \in Seq(set) /\ Len(<<x>>) = 1
      OBVIOUS
    <3> QED
      BY <2>2, <2>4, <3>1 DEF set
  <2> QED
    BY <2>1, <2>3, <2>4 DEF set
<1>3. TrialTypes
  BY <1>1, <1>2 DEF Trial!Init, TrialTypes
<1>4. Pending
  BY DEF Trial!Init, Pending
<1>5. Headed
  BY <1>2 DEF Headed
<1> QED
  BY <1>1, <1>3, <1>4, <1>5 DEF TrialInv

\* A line of the log is fed.
LEMMA FeedLineKeeps ==
  ASSUME TrialInv, Trial!FeedLine
  PROVE  TrialInv'
<1> DEFINE n == summary.lines
           entry == log[n + 1]
<1>1. n \in Nat /\ Len(log) \in Nat /\ n + 1 \in 1..Len(log) /\ summary \in Summaries
  BY DEF TrialInv, TrialTypes, Trial!FeedLine, Trial!Unread, Summaries
<1>2. entry \in Trial!Entries \cup {Trial!Header} /\ (n > 0 => entry \in Trial!Entries)
  BY <1>1 DEF TrialInv, TrialTypes, Headed
<1>3. /\ summary' = Trial!Feed(summary, entry) /\ log' = log
      /\ UNCHANGED <<suite, phase, trial, logState, disposition>>
  BY DEF Trial!FeedLine
<1>4. /\ summary' \in Summaries /\ summary'.lines = n + 1
      /\ summary'.rootRunId = IF entry.type = "header" THEN "root" ELSE summary.rootRunId
      /\ summary'.countedOutcomes =
           summary.countedOutcomes + IF entry.type = "model-outcome" THEN 1 ELSE 0
      /\ summary'.primaryOutcomes =
           summary.primaryOutcomes
             + IF entry.type = "model-outcome" /\ entry.run = summary.rootRunId THEN 1 ELSE 0
      /\ summary'.terminalCause =
           IF entry.type = "terminal-snapshot"
                /\ (summary.rootRunId = "null" \/ entry.run = summary.rootRunId)
           THEN entry.cause ELSE summary.terminalCause
      /\ summary'.fatalFailureReason =
           IF entry.type = "model-failure"
                /\ (summary.rootRunId = "null" \/ entry.run = summary.rootRunId)
           THEN entry.reason ELSE summary.fatalFailureReason
  BY <1>1, <1>2, <1>3, FeedIs
<1>5. entry.type = "header" <=> n = 0 /\ Trial!HasHeader
  <2>1. Trial!Header.type = "header" /\ \A e \in Trial!Entries : e.type # "header"
    BY DEF Trial!Header, Trial!Entries
  <2>2. n = 0 => entry = log[1] /\ log # <<>>
    BY <1>1
  <2> QED
    BY <1>1, <1>2, <2>1, <2>2 DEF Trial!HasHeader
<1>6. summary'.rootRunId = IF Trial!HasHeader THEN "root" ELSE "null"
  BY <1>1, <1>4, <1>5 DEF TrialInv, Fed
<1>7. ASSUME NEW type \in {"model-outcome", "model-failure", "terminal-snapshot"}
      PROVE  IsOf(n + 1, type) <=>
               /\ entry.type = type
               /\ summary.rootRunId = "null" \/ entry.run = summary.rootRunId
  BY <1>1, <1>5 DEF TrialInv, Fed, IsOf, Primary
<1>8. TrialTypes'
  BY <1>1, <1>3, <1>4 DEF TrialInv, TrialTypes
<1>9. Pending' /\ Headed'
  BY <1>3 DEF TrialInv, Pending, Headed, Trial!FeedLine
<1>10. Trial!HasHeader' = Trial!HasHeader /\ \A i, type : IsOf(i, type)' = IsOf(i, type)
  BY <1>3 DEF Trial!HasHeader, IsOf, Primary
<1> DEFINE next == n + 1
<1>11. next \in Nat /\ 1..next = 1..n \cup {next} /\ \A i \in 1..n : i < next
  BY <1>1
<1>12. summary.countedOutcomes \in Nat /\ summary.primaryOutcomes \in Nat
  BY <1>1 DEF Summaries
<1>13. summary'.countedOutcomes = 0 <=> \A i \in 1..next : log[i].type # "model-outcome"
  BY <1>4, <1>11, <1>12 DEF TrialInv, Fed
<1>14. Trial!HasHeader =>
         (summary'.primaryOutcomes = 0 <=> \A i \in 1..next : ~IsOf(i, "model-outcome"))
  <2>1. SUFFICES ASSUME Trial!HasHeader
                 PROVE  summary'.primaryOutcomes = 0 <=>
                          \A i \in 1..next : ~IsOf(i, "model-outcome")
    OBVIOUS
  <2>2. IsOf(next, "model-outcome") <=>
          entry.type = "model-outcome" /\ entry.run = summary.rootRunId
    BY <1>1, <1>5, <2>1 DEF TrialInv, Fed, IsOf, Primary
  <2> QED
    BY <1>4, <1>11, <1>12, <2>1, <2>2 DEF TrialInv, Fed
<1> HIDE DEF next
<1>15. IF summary'.terminalCause = "null"
       THEN \A i \in 1..next : ~IsOf(i, "terminal-snapshot")
       ELSE \E i \in 1..next : /\ IsLastOf(i, next, "terminal-snapshot")
                               /\ log[i].cause = summary'.terminalCause
  <2>1. CASE IsOf(next, "terminal-snapshot")
    <3>1. summary'.terminalCause = log[next].cause /\ log[next].cause # "null"
      BY <1>2, <1>4, <1>7, <2>1 DEF Trial!Entries, Trial!Header, next
    <3>2. IsLastOf(next, next, "terminal-snapshot")
      BY <1>11, <2>1 DEF IsLastOf
    <3> QED
      BY <1>11, <3>1, <3>2
  <2>2. CASE ~IsOf(next, "terminal-snapshot")
    <3>1. summary'.terminalCause = summary.terminalCause
      BY <1>4, <1>7, <2>2 DEF next
    <3> QED
      BY <1>11, <2>2, <3>1 DEF TrialInv, Fed, IsLastOf
  <2> QED
    BY <2>1, <2>2
<1>16. IF summary'.fatalFailureReason = "null"
       THEN \A i \in 1..next : ~IsOf(i, "model-failure")
       ELSE \E i \in 1..next : /\ IsLastOf(i, next, "model-failure")
                               /\ log[i].reason = summary'.fatalFailureReason
  <2>1. CASE IsOf(next, "model-failure")
    <3>1. summary'.fatalFailureReason = log[next].reason /\ log[next].reason # "null"
      BY <1>2, <1>4, <1>7, <2>1 DEF Trial!Entries, Trial!Header, next
    <3>2. IsLastOf(next, next, "model-failure")
      BY <1>11, <2>1 DEF IsLastOf
    <3> QED
      BY <1>11, <3>1, <3>2
  <2>2. CASE ~IsOf(next, "model-failure")
    <3>1. summary'.fatalFailureReason = summary.fatalFailureReason
      BY <1>4, <1>7, <2>2 DEF next
    <3> QED
      BY <1>11, <2>2, <3>1 DEF TrialInv, Fed, IsLastOf
  <2> QED
    BY <2>1, <2>2
<1>17. Fed'
  BY <1>1, <1>3, <1>4, <1>6, <1>10, <1>11, <1>13, <1>14, <1>15, <1>16
     DEF Fed, IsLastOf, next, IsOf, Primary, Trial!HasHeader
<1> QED
  BY <1>8, <1>9, <1>17 DEF TrialInv

\* The log grows while nothing of it has been read.
LEMMA AgentLogsKeeps ==
  ASSUME TrialInv, Trial!AgentLogs
  PROVE  TrialInv'
<1>1. PICK entry \in Trial!Entries : log' = Append(log, entry)
  BY DEF Trial!AgentLogs
<1>2. /\ UNCHANGED <<suite, phase, trial, logState, summary, disposition>>
      /\ phase = "running" /\ summary = Trial!EmptySummary
  BY DEF Trial!AgentLogs, TrialInv, Pending
<1>3. log \in Seq(Trial!Entries \cup {Trial!Header})
  BY DEF TrialInv, TrialTypes
<1>4. /\ log' \in Seq(Trial!Entries \cup {Trial!Header}) /\ Len(log') = Len(log) + 1
      /\ \A i \in 1..Len(log) : log'[i] = log[i]
      /\ log'[Len(log) + 1] = entry
  BY <1>1, <1>3
<1>5. summary.lines = 0
  BY <1>2 DEF Trial!EmptySummary
<1>6. TrialTypes'
  BY <1>2, <1>3, <1>4, <1>5 DEF TrialInv, TrialTypes
<1>7. Pending'
  BY <1>2 DEF TrialInv, Pending
<1>8. Headed'
  BY <1>1, <1>3, <1>4 DEF TrialInv, Headed
<1>9. Fed'
  BY <1>2, <1>5 DEF Fed, Trial!EmptySummary
<1> QED
  BY <1>6, <1>7, <1>8, <1>9 DEF TrialInv

\* The steps that leave the log, and what was read of it, alone.
LEMMA OtherTrialStepKeeps ==
  ASSUME TrialInv, UNCHANGED <<suite, log, summary>>, TrialTypes', Pending'
  PROVE  TrialInv'
<1>1. Headed'
  BY DEF TrialInv, Headed
<1>2. Fed'
  BY DEF TrialInv, Fed, IsLastOf, IsOf, Primary, Trial!HasHeader
<1> QED
  BY <1>1, <1>2 DEF TrialInv

\* What a trial is classified as.
LEMMA ClassifiedAs ==
  /\ Trial!ClassifyTrialOutcomeOrDegrade(trial) \in Trial!Dispositions
  /\ Trial!ProjectTrialResult(trial) \in Trial!Dispositions
  BY DEF Trial!ClassifyTrialOutcomeOrDegrade, Trial!ClassifyTrialOutcome,
         Trial!ProjectTrialResult, Trial!Dispositions

\* Every step keeps the invariant.
LEMMA TrialNextInv == TrialInv /\ Trial!Next => TrialInv'
<1> SUFFICES ASSUME TrialInv, Trial!Next PROVE TrialInv'
  OBVIOUS
<1>1. CASE Trial!FeedLine
  BY <1>1, FeedLineKeeps
<1>2. CASE Trial!AgentLogs
  BY <1>2, AgentLogsKeeps
<1>3. CASE \/ Trial!PrepareFrontier \/ Trial!StagePierTask \/ Trial!PrepareTerminal
           \/ Trial!VerifyFrozenIdentity \/ Trial!RunnerRejects \/ Trial!Dies
  <2>1. TrialTypes' /\ Pending' /\ UNCHANGED <<suite, log, summary>>
    BY <1>3 DEF TrialInv, TrialTypes, Pending, Trial!PrepareFrontier, Trial!StagePierTask,
                Trial!PrepareTerminal, Trial!VerifyFrozenIdentity, Trial!RunnerRejects,
                Trial!Dies, Trial!Goto
  <2> QED
    BY <2>1, OtherTrialStepKeeps
<1>4. CASE Trial!RunnerCloses
  <2>1. TrialTypes' /\ Pending' /\ UNCHANGED <<suite, log, summary>>
    BY <1>4 DEF TrialInv, TrialTypes, Pending, Trial!RunnerCloses, Trial!Goto
  <2> QED
    BY <2>1, OtherTrialStepKeeps
<1>5. ASSUME NEW what \in Trial!Dispositions, Trial!Record(what) PROVE TrialInv'
  <2>1. "not-evaluated" \in Trial!Dispositions
    BY DEF Trial!Dispositions
  <2>2. TrialTypes' /\ Pending' /\ UNCHANGED <<suite, log, summary>>
    BY <1>5, <2>1 DEF TrialInv, TrialTypes, Pending, Trial!Record, Trial!Goto
  <2> QED
    BY <2>2, OtherTrialStepKeeps
<1>6. CASE Trial!RecordFrontier \/ Trial!RecordTerminal
  BY <1>5, <1>6, ClassifiedAs DEF Trial!RecordFrontier, Trial!RecordTerminal
<1> QED
  BY <1>1, <1>2, <1>3, <1>4, <1>6 DEF Trial!Next

\* The oracle is a function of the suite, the trial and the log, and silent without a trial.
LEMMA OracleIs ==
  /\ trial = Trial!NoTrial => Trial!Oracle = "silent"
  /\ UNCHANGED <<suite, trial, log>> => Trial!Oracle' = Trial!Oracle
<1>1. trial = Trial!NoTrial => Trial!Oracle = "silent"
  BY DEF Trial!Oracle, Trial!NoTrial
<1>2. UNCHANGED <<suite, trial, log>> => Trial!Oracle' = Trial!Oracle
  BY DEF Trial!Oracle, Trial!Outage, Trial!Unanswered, Trial!HasHeader
<1> QED
  BY <1>1, <1>2

\* When all lines have been fed, the summary tells an outage, and a run without an answer.
LEMMA SummaryTells ==
  ASSUME TrialInv, summary.lines = Len(log)
  PROVE  /\ Trial!Outage => /\ summary.terminalCause = "model-failure"
                            /\ summary.fatalFailureReason \in Trial!ProviderFailureReasons
         /\ Trial!Unanswered => Trial!NoModelOutcome /\ trial.exception
<1> DEFINE n == summary.lines
<1>1. n \in Nat /\ DOMAIN log = 1..n
  BY DEF TrialInv, TrialTypes, Summaries
<1> HIDE DEF n
<1>2. ASSUME NEW i \in DOMAIN log, NEW type, log[i].type = type,
             ~Trial!HasHeader \/ log[i].run = "root",
             \A j \in DOMAIN log :
               log[j].type = type /\ (~Trial!HasHeader \/ log[j].run = "root") => j <= i
      PROVE  i \in 1..n /\ IsLastOf(i, n, type)
  BY <1>1, <1>2 DEF IsLastOf, IsOf, Primary
<1>3. ASSUME NEW type, NEW i \in 1..n, NEW j \in 1..n,
             IsLastOf(i, n, type), IsLastOf(j, n, type)
      PROVE  i = j
  BY <1>1, <1>3 DEF IsLastOf
<1>4. ASSUME Trial!Outage PROVE summary.terminalCause = "model-failure"
  <2>1. PICK i \in 1..n : /\ IsLastOf(i, n, "terminal-snapshot")
                          /\ log[i].cause = "model-failure"
    BY <1>2, <1>4 DEF Trial!Outage
  <2>2. summary.terminalCause # "null"
    BY <2>1 DEF TrialInv, Fed, IsLastOf, n
  <2>3. PICK j \in 1..n : /\ IsLastOf(j, n, "terminal-snapshot")
                          /\ log[j].cause = summary.terminalCause
    BY <2>2 DEF TrialInv, Fed, n
  <2> QED
    BY <1>3, <2>1, <2>3
<1>5. ASSUME Trial!Outage PROVE summary.fatalFailureReason = "connection"
  <2>1. PICK i \in 1..n : /\ IsLastOf(i, n, "model-failure")
                          /\ log[i].reason = "connection"
    BY <1>2, <1>5 DEF Trial!Outage
  <2>2. summary.fatalFailureReason # "null"
    BY <2>1 DEF TrialInv, Fed, IsLastOf, n
  <2>3. PICK j \in 1..n : /\ IsLastOf(j, n, "model-failure")
                          /\ log[j].reason = summary.fatalFailureReason
    BY <2>2 DEF TrialInv, Fed, n
  <2> QED
    BY <1>3, <2>1, <2>3
<1>6. ASSUME Trial!Unanswered PROVE Trial!NoModelOutcome /\ trial.exception
  <2>1. n > 0 /\ trial.exception
    BY <1>1, <1>6 DEF Trial!Unanswered, n, TrialInv, TrialTypes
  <2>2. CASE Trial!HasHeader
    <3>1. summary.rootRunId = "root"
      BY <2>1, <2>2 DEF TrialInv, Fed, n
    <3>2. \A i \in 1..n : ~IsOf(i, "model-outcome")
      BY <1>1, <1>6, <2>2 DEF Trial!Unanswered, IsOf, Primary
    <3>3. summary.primaryOutcomes = 0
      BY <2>2, <3>2 DEF TrialInv, Fed, n
    <3> QED
      BY <2>1, <3>1, <3>3 DEF Trial!NoModelOutcome, n
  <2>3. CASE ~Trial!HasHeader
    <3>1. summary.rootRunId = "null"
      BY <2>3 DEF TrialInv, Fed, n
    <3>2. \A i \in 1..n : log[i].type # "model-outcome"
      BY <1>1, <1>6, <2>3 DEF Trial!Unanswered
    <3>3. summary.countedOutcomes = 0
      BY <3>2 DEF TrialInv, Fed, n
    <3> QED
      BY <2>1, <3>1, <3>3 DEF Trial!NoModelOutcome, n
  <2> QED
    BY <2>2, <2>3
<1> QED
  BY <1>4, <1>5, <1>6 DEF Trial!ProviderFailureReasons

\* What Frontier records as passed or failed is what the verifier said.
LEMMA ClassifiedIsEarned ==
  ASSUME TrialInv, suite = "frontier", ~Trial!Unread, ~Trial!ReadingThrows,
         trial # Trial!NoTrial,
         NEW what, what = Trial!ClassifyTrialOutcomeOrDegrade(trial)
  PROVE  /\ what = "passed" => Trial!Oracle = "pass"
         /\ what = "failed" => Trial!Oracle = "fail"
<1> SUFFICES ASSUME what \in {"passed", "failed"}
             PROVE  Trial!Oracle = IF what = "passed" THEN "pass" ELSE "fail"
  OBVIOUS
<1>1. logState = "readable" /\ what = Trial!ClassifyTrialOutcome(trial)
  BY DEF Trial!ClassifyTrialOutcomeOrDegrade, Trial!ReadingThrows, TrialInv, TrialTypes
<1>2. summary.lines = Len(log)
  <2> DEFINE length == Len(log)
  <2>1. summary.lines \in Nat /\ length \in Nat /\ summary.lines <= length
    BY DEF TrialInv, TrialTypes, Summaries
  <2>2. ~(summary.lines < length)
    BY <1>1 DEF Trial!Unread
  <2> HIDE DEF length
  <2>3. summary.lines = length
    BY <2>1, <2>2
  <2> QED
    BY <2>3 DEF length
<1>3. trial.file = "result" /\ trial.exception \in BOOLEAN
  BY DEF Trial!ReadingThrows, TrialInv, TrialTypes, Trial!Results
<1>4. /\ ~(trial.exception /\ Trial!NoModelOutcome)
      /\ ~(/\ summary.terminalCause = "model-failure"
           /\ summary.fatalFailureReason \in Trial!ProviderFailureReasons)
      /\ trial.rewards # <<>>
      /\ what = IF Trial!CanonicalPassed(trial.rewards) THEN "passed" ELSE "failed"
  BY <1>1 DEF Trial!ClassifyTrialOutcome
<1>5. ~Trial!Outage /\ ~Trial!Unanswered
  BY <1>2, <1>4, SummaryTells
<1> QED
  BY <1>3, <1>4, <1>5 DEF Trial!Oracle, Trial!CanonicalPassed

\* What Terminal-Bench records as passed or failed is what the verifier said.
LEMMA ProjectedIsEarned ==
  ASSUME TrialInv, suite = "terminal", ~Trial!ReadingThrows, trial # Trial!NoTrial,
         NEW what, what = Trial!ProjectTrialResult(trial)
  PROVE  /\ what = "passed" => Trial!Oracle = "pass"
         /\ what = "failed" => Trial!Oracle = "fail"
<1>1. trial.file = "result" /\ trial.exception \in BOOLEAN
  BY DEF Trial!ReadingThrows, TrialInv, TrialTypes, Trial!Results
<1>2. "reward" \in DOMAIN trial.rewards => trial.rewards # <<>>
  OBVIOUS
<1> QED
  BY <1>1, <1>2 DEF Trial!ProjectTrialResult, Trial!Oracle, Trial!Whole

\* What a step does to the task of the trial, as EarnedVerdict has it.
LEMMA TrialStep ==
  ASSUME TrialInv, Trial!Next
  PROVE  \/ /\ Trial!Oracle' = Trial!Oracle
            /\ Trial!VerdictRecorded' = Trial!VerdictRecorded
         \/ /\ Trial!VerdictRecorded = "none" /\ Trial!VerdictRecorded' = "none"
            /\ Trial!Oracle = "silent" /\ Trial!Oracle' \in {"pass", "fail"}
         \/ /\ Trial!VerdictRecorded = "none" /\ Trial!Oracle' = Trial!Oracle
            /\ \/ Trial!VerdictRecorded' = "open"
               \/ Trial!VerdictRecorded' = "passed" /\ Trial!Oracle = "pass"
               \/ Trial!VerdictRecorded' = "failed" /\ Trial!Oracle = "fail"
<1>1. UNCHANGED disposition => Trial!VerdictRecorded' = Trial!VerdictRecorded
  BY DEF Trial!VerdictRecorded
<1>2. CASE \/ Trial!PrepareFrontier \/ Trial!StagePierTask \/ Trial!PrepareTerminal
           \/ Trial!VerifyFrozenIdentity \/ Trial!RunnerRejects \/ Trial!Dies \/ Trial!FeedLine
  <2>1. UNCHANGED <<suite, trial, log, disposition>>
    BY <1>2 DEF Trial!PrepareFrontier, Trial!StagePierTask, Trial!PrepareTerminal,
                Trial!VerifyFrozenIdentity, Trial!RunnerRejects, Trial!Dies, Trial!FeedLine
  <2> QED
    BY <1>1, <2>1, OracleIs
<1>3. CASE Trial!AgentLogs
  <2>1. trial = Trial!NoTrial /\ trial' = trial /\ disposition' = disposition
    BY <1>3 DEF Trial!AgentLogs, TrialInv, Pending
  <2>2. Trial!Oracle = "silent" /\ Trial!Oracle' = "silent"
    BY <2>1 DEF Trial!Oracle, Trial!NoTrial
  <2> QED
    BY <1>1, <2>1, <2>2
<1>4. CASE Trial!RunnerCloses
  <2>1. trial = Trial!NoTrial /\ disposition = "none" /\ disposition' = "none"
    BY <1>4 DEF Trial!RunnerCloses, TrialInv, Pending
  <2>2. Trial!Oracle = "silent" /\ Trial!Oracle' \in {"silent", "pass", "fail"}
    <3>1. suite' \in {"frontier", "terminal"}
      BY <1>4 DEF Trial!RunnerCloses, TrialInv, TrialTypes
    <3>2. Trial!Oracle' \in {"silent", "pass", "fail"}
      BY <3>1 DEF Trial!Oracle
    <3> QED
      BY <2>1, <3>2, OracleIs
  <2>3. Trial!VerdictRecorded = "none" /\ Trial!VerdictRecorded' = "none"
    BY <2>1 DEF Trial!VerdictRecorded
  <2> QED
    BY <2>2, <2>3
<1>5. ASSUME NEW what \in Trial!Dispositions, Trial!Record(what),
             ~Trial!ReadingThrows /\ trial # Trial!NoTrial =>
               /\ what = "passed" => Trial!Oracle = "pass"
               /\ what = "failed" => Trial!Oracle = "fail"
      PROVE  /\ Trial!VerdictRecorded = "none" /\ Trial!Oracle' = Trial!Oracle
             /\ \/ Trial!VerdictRecorded' = "none"
                \/ Trial!VerdictRecorded' = "open"
                \/ Trial!VerdictRecorded' = "passed" /\ Trial!Oracle = "pass"
                \/ Trial!VerdictRecorded' = "failed" /\ Trial!Oracle = "fail"
  <2>1. disposition = "none" /\ UNCHANGED <<suite, trial, log>>
    BY <1>5 DEF Trial!Record, TrialInv, Pending
  <2>2. Trial!VerdictRecorded = "none" /\ Trial!Oracle' = Trial!Oracle
    BY <2>1, OracleIs DEF Trial!VerdictRecorded
  <2>3. \/ disposition' \in {"none", "torn", "not-evaluated"}
        \/ disposition' = what /\ ~Trial!ReadingThrows /\ trial # Trial!NoTrial
    BY <1>5, <2>1 DEF Trial!Record
  <2> QED
    BY <1>5, <2>2, <2>3 DEF Trial!VerdictRecorded, Trial!Dispositions
<1>6. CASE Trial!RecordFrontier
  BY <1>5, <1>6, ClassifiedAs, ClassifiedIsEarned DEF Trial!RecordFrontier
<1>7. CASE Trial!RecordTerminal
  BY <1>5, <1>7, ClassifiedAs, ProjectedIsEarned DEF Trial!RecordTerminal
<1> QED
  BY <1>2, <1>3, <1>4, <1>6, <1>7 DEF Trial!Next

-----------------------------------------------------------------------------
(***************************************************************************)
(* iBench.  A row of the current grading, wherever it stands, has the      *)
(* reward that results.json has (RowOf), so all of them say the same; and  *)
(* while there is one, the report of the batch has it or is torn (Kept),   *)
(* so that no step takes the last of them away.                            *)
(***************************************************************************)

Places == {"idle", "solving", "solved", "scoring", "scored", "ended"}

\* A row of a task whose results were replaced g times and are now trials.
RowOf(row, trials, t, g) ==
  /\ row.of \in 0..g
  /\ row.of = g => /\ trials # Interaction!NoResults
                   /\ row.reward = trials[t] /\ row.passed = Interaction!IsPass(trials[t])

\* A report of the batch b.
ReportOf(report, b, trials, g) ==
  /\ report.file \in {"none", "torn", "written"}
  /\ report.file = "written" =>
       DOMAIN report.rows = b /\ \A t \in b : RowOf(report.rows[t], trials, t, g)

\* It has a row of t that is of the g-th grading.
Speaks(report, t, g) ==
  report.file = "written" /\ t \in DOMAIN report.rows /\ report.rows[t].of = g

\* The aggregate, as far as it is of the batch b.
AggregateOf(b) ==
  aggregate.file = "written" =>
    \A t \in b : t \in DOMAIN aggregate.rows =>
      RowOf(aggregate.rows[t], results[b], t, graded[b])

\* What a batch has on file at each place of its process.
OnFile(b) ==
  /\ step[b] \in {"idle", "solving"} => results[b] = Interaction!NoResults
  /\ step[b] \in {"idle", "solving", "solved"} =>
       batchReport[b].file = "none" /\ priorScores[b].file = "none"
  /\ step[b] \in {"scoring", "scored"} =>
       results[b] # Interaction!NoResults /\ priorScores[b] = batchReport[b]

\* A row of the current grading stands in the report of its batch, unless that is torn.
Kept(b) ==
  \A t \in b : Speaks(priorScores[b], t, graded[b]) \/ Speaks(aggregate, t, graded[b]) =>
    batchReport[b].file = "torn" \/ Speaks(batchReport[b], t, graded[b])

BatchInv(b) ==
  /\ step[b] \in Places /\ graded[b] \in Nat
  /\ ReportOf(batchReport[b], b, results[b], graded[b])
  /\ ReportOf(priorScores[b], b, results[b], graded[b])
  /\ AggregateOf(b) /\ OnFile(b) /\ Kept(b)

Domains ==
  /\ DOMAIN step = Batches /\ DOMAIN results = Batches /\ DOMAIN graded = Batches
  /\ DOMAIN batchReport = Batches /\ DOMAIN priorScores = Batches
  /\ aggregate.file \in {"none", "written"}

InteractionInv == Domains /\ \A b \in Batches : BatchInv(b)

\* No batch has begun.
LEMMA InteractionInitInv == Interaction!Init => InteractionInv
<1> SUFFICES ASSUME Interaction!Init PROVE InteractionInv
  OBVIOUS
<1>1. Domains
  BY DEF Interaction!Init, Domains, Interaction!NoReport
<1>2. ASSUME NEW b \in Batches PROVE BatchInv(b)
  <2>1. /\ step[b] = "idle" /\ graded[b] = 0 /\ results[b] = Interaction!NoResults
        /\ batchReport[b].file = "none" /\ priorScores[b].file = "none"
        /\ aggregate.file = "none"
    BY DEF Interaction!Init, Interaction!NoReport
  <2> QED
    BY <2>1 DEF BatchInv, Places, ReportOf, AggregateOf, OnFile, Kept, Speaks
<1> QED
  BY <1>1, <1>2 DEF InteractionInv

\* A row stays one of its task when the results are replaced, or come to be.
LEMMA RowKeeps ==
  ASSUME NEW row, NEW t, NEW trials, NEW others, NEW g \in Nat, NEW h \in Nat,
         RowOf(row, trials, t, g),
         \/ h > g
         \/ h = g /\ (others = trials \/ trials = Interaction!NoResults)
  PROVE  RowOf(row, others, t, h)
  BY DEF RowOf

\* So does a report.
LEMMA ReportKeeps ==
  ASSUME NEW report, NEW b, NEW trials, NEW others, NEW g \in Nat, NEW h \in Nat,
         ReportOf(report, b, trials, g),
         \/ h > g
         \/ h = g /\ (others = trials \/ trials = Interaction!NoResults)
  PROVE  ReportOf(report, b, others, h)
  BY RowKeeps DEF ReportOf

\* A step of one batch leaves the others alone.
Elsewhere(b) ==
  /\ aggregate' = aggregate
  /\ DOMAIN step' = Batches /\ DOMAIN results' = Batches /\ DOMAIN graded' = Batches
  /\ DOMAIN batchReport' = Batches /\ DOMAIN priorScores' = Batches
  /\ \A q \in Batches \ {b} :
       /\ step'[q] = step[q] /\ results'[q] = results[q] /\ graded'[q] = graded[q]
       /\ batchReport'[q] = batchReport[q] /\ priorScores'[q] = priorScores[q]

\* What a process of the batch b may do.
Acts(b) ==
  \/ Interaction!Launch(b) \/ Interaction!IbenchRuns(b) \/ Interaction!ReportRun(b)
  \/ Interaction!Regrade(b) \/ Interaction!IbenchScores(b) \/ Interaction!ReportRegrade(b)
  \/ Interaction!Dies(b)

\* What becomes of the files of b: nothing, new results, new scores, a report, a copy of it
\* or a torn one.
Files(b) == <<results[b], graded[b], batchReport[b], priorScores[b]>>
Idles(b) ==
  /\ Files(b)' = Files(b)
  /\ \/ step[b] = "idle" /\ step'[b] = "solving"
     \/ step[b] = "scoring" /\ step'[b] = "scored"
     \/ step[b] # "idle" /\ step'[b] = "ended"
Solves(b) ==
  /\ step[b] = "solving" /\ step'[b] = "solved"
  /\ <<graded[b], batchReport[b], priorScores[b]>>' = <<graded[b], batchReport[b], priorScores[b]>>
Scores(b) ==
  /\ step[b] = "scoring" /\ step'[b] = "scored"
  /\ results'[b] # Interaction!NoResults /\ graded'[b] = graded[b] + 1
  /\ <<batchReport[b], priorScores[b]>>' = <<batchReport[b], priorScores[b]>>
Reports(b) ==
  /\ step'[b] = "ended" /\ results[b] # Interaction!NoResults
  /\ batchReport'[b].file = "written" /\ DOMAIN batchReport'[b].rows = b
  /\ \A t \in b :
       batchReport'[b].rows[t] =
         [passed |-> Interaction!IsPass(results[b][t]), reward |-> results[b][t],
          of |-> graded[b]]
  /\ <<results[b], graded[b], priorScores[b]>>' = <<results[b], graded[b], priorScores[b]>>
Copies(b) ==
  /\ step[b] = "ended" /\ step'[b] = "scoring"
  /\ results[b] # Interaction!NoResults /\ batchReport[b].file = "written"
  /\ priorScores'[b] = batchReport[b]
  /\ <<results[b], graded[b], batchReport[b]>>' = <<results[b], graded[b], batchReport[b]>>
Tears(b) ==
  /\ step[b] \in {"solved", "scored"} /\ step'[b] = "ended"
  /\ batchReport'[b].file = "torn"
  /\ <<results[b], graded[b], priorScores[b]>>' = <<results[b], graded[b], priorScores[b]>>

\* Each step of a batch is one of these.
LEMMA ActsAre ==
  ASSUME InteractionInv, NEW b \in Batches, Acts(b)
  PROVE  /\ Elsewhere(b)
         /\ \/ Idles(b) \/ Solves(b) \/ Scores(b) \/ Reports(b) \/ Copies(b) \/ Tears(b)
<1>1. Domains
  BY DEF InteractionInv
<1>2. CASE Interaction!Launch(b)
  BY <1>1, <1>2 DEF Domains, Interaction!Launch, Interaction!Goto, Elsewhere, Idles, Files
<1>3. CASE Interaction!IbenchRuns(b)
  BY <1>1, <1>3 DEF Domains, Interaction!IbenchRuns, Interaction!Goto, Elsewhere, Solves
<1>4. CASE Interaction!Regrade(b)
  BY <1>1, <1>4 DEF Domains, Interaction!Regrade, Interaction!Goto, Elsewhere, Copies
<1>5. CASE Interaction!IbenchScores(b)
  <2>1. CASE UNCHANGED <<results, graded>>
    BY <1>1, <1>5, <2>1 DEF Domains, Interaction!IbenchScores, Interaction!Goto, Elsewhere,
                            Idles, Files
  <2>2. CASE ~UNCHANGED <<results, graded>>
    <3>1. PICK trials \in [b -> Interaction!Rewards] :
            results' = [results EXCEPT ![b] = trials]
      BY <1>5, <2>2 DEF Interaction!IbenchScores
    <3>2. results'[b] # Interaction!NoResults
      <4>1. results'[b] = trials /\ DOMAIN trials = b /\ DOMAIN <<>> = {}
        BY <1>1, <3>1 DEF Domains
      <4> QED
        BY <4>1, BatchesAssumption DEF Interaction!NoResults
    <3> QED
      BY <1>1, <1>5, <2>2, <3>1, <3>2 DEF Domains, Interaction!IbenchScores, Interaction!Goto,
                                          Elsewhere, Scores
  <2> QED
    BY <2>1, <2>2
<1>6. ASSUME Interaction!WriteReport(b), results[b] # Interaction!NoResults
      PROVE  Elsewhere(b) /\ Reports(b)
  BY <1>1, <1>6 DEF Domains, Interaction!WriteReport, Interaction!ComputeReport,
                    Interaction!Ends, Interaction!Goto, Elsewhere, Reports
<1>7. CASE Interaction!ReportRegrade(b)
  <2>1. results[b] # Interaction!NoResults
    BY <1>7 DEF Interaction!ReportRegrade, InteractionInv, BatchInv, OnFile
  <2> QED
    BY <1>6, <1>7, <2>1 DEF Interaction!ReportRegrade
<1>8. CASE Interaction!ReportRun(b)
  <2>1. CASE results[b] = Interaction!NoResults
    BY <1>1, <1>8, <2>1 DEF Domains, Interaction!ReportRun, Interaction!Ends,
                            Interaction!Goto, Elsewhere, Idles, Files
  <2>2. CASE results[b] # Interaction!NoResults
    BY <1>6, <1>8, <2>2 DEF Interaction!ReportRun
  <2> QED
    BY <2>1, <2>2
<1>9. CASE Interaction!Dies(b)
  <2>1. CASE UNCHANGED batchReport
    BY <1>1, <1>9, <2>1 DEF Domains, Interaction!Dies, Interaction!Ends, Interaction!Goto,
                            Elsewhere, Idles, Files
  <2>2. CASE ~UNCHANGED batchReport
    BY <1>1, <1>9, <2>2 DEF Domains, Interaction!Dies, Interaction!Ends, Interaction!Goto,
                            Interaction!TornReport, Elsewhere, Tears
  <2> QED
    BY <2>1, <2>2
<1> QED
  BY <1>2, <1>3, <1>4, <1>5, <1>7, <1>8, <1>9 DEF Acts

\* What a batch does to its own files.
LEMMA ActsKeep ==
  ASSUME InteractionInv, NEW b \in Batches, aggregate' = aggregate,
         Idles(b) \/ Solves(b) \/ Scores(b) \/ Reports(b) \/ Copies(b) \/ Tears(b)
  PROVE  BatchInv(b)'
<1>1. BatchInv(b) /\ graded[b] \in Nat
  BY DEF InteractionInv, BatchInv
<1>2. CASE Idles(b)
  BY <1>1, <1>2 DEF BatchInv, Idles, Files, Places, AggregateOf, OnFile, Kept
<1>3. CASE Copies(b)
  BY <1>1, <1>3 DEF BatchInv, Copies, Places, AggregateOf, OnFile, Kept
<1>4. CASE Solves(b)
  <2>1. results[b] = Interaction!NoResults
    BY <1>1, <1>4 DEF BatchInv, OnFile, Solves
  <2>2. /\ ReportOf(batchReport[b], b, results'[b], graded[b])
        /\ ReportOf(priorScores[b], b, results'[b], graded[b])
    BY <1>1, <2>1, ReportKeeps DEF BatchInv
  <2>3. AggregateOf(b)'
    BY <1>1, <1>4, <2>1, RowKeeps DEF BatchInv, AggregateOf, Solves
  <2> QED
    BY <1>1, <1>4, <2>2, <2>3 DEF BatchInv, Solves, Places, OnFile, Kept
<1>5. CASE Scores(b)
  <2>1. graded'[b] \in Nat /\ graded'[b] > graded[b]
    BY <1>1, <1>5 DEF Scores
  <2>2. /\ ReportOf(batchReport[b], b, results'[b], graded'[b])
        /\ ReportOf(priorScores[b], b, results'[b], graded'[b])
    BY <1>1, <2>1, ReportKeeps DEF BatchInv
  <2>3. AggregateOf(b)'
    BY <1>1, <2>1, RowKeeps DEF BatchInv, AggregateOf
  <2>4. Kept(b)'
    BY <1>1, <1>5, <2>1 DEF BatchInv, Kept, Speaks, AggregateOf, ReportOf, RowOf, Scores
  <2>5. OnFile(b)'
    BY <1>1, <1>5 DEF BatchInv, Scores, OnFile
  <2> QED
    BY <1>1, <1>5, <2>1, <2>2, <2>3, <2>4, <2>5 DEF BatchInv, Scores, Places
<1>6. CASE Reports(b)
  <2>1. ASSUME NEW t \in b
        PROVE  /\ RowOf(batchReport'[b].rows[t], results[b], t, graded[b])
               /\ batchReport'[b].rows[t].of = graded[b]
    <3> DEFINE row == [passed |-> Interaction!IsPass(results[b][t]), reward |-> results[b][t],
                       of |-> graded[b]]
    <3>1. batchReport'[b].rows[t] = row /\ results[b] # Interaction!NoResults
      BY <1>6 DEF Reports
    <3>2. RowOf(row, results[b], t, graded[b]) /\ row.of = graded[b]
      BY <1>1, <3>1 DEF RowOf
    <3> QED
      BY <3>1, <3>2
  <2>2. /\ batchReport'[b].file = "written" /\ DOMAIN batchReport'[b].rows = b
        /\ results'[b] = results[b] /\ graded'[b] = graded[b]
    BY <1>6 DEF Reports
  <2>3. ReportOf(batchReport[b], b, results[b], graded[b])'
    BY <2>1, <2>2 DEF ReportOf
  <2>4. Kept(b)'
    BY <2>1, <2>2 DEF Kept, Speaks
  <2> QED
    BY <1>1, <1>6, <2>3, <2>4 DEF BatchInv, Reports, Places, AggregateOf, OnFile
<1>7. CASE Tears(b)
  BY <1>1, <1>7 DEF BatchInv, Tears, Places, AggregateOf, OnFile, Kept, ReportOf
<1> QED
  BY <1>2, <1>3, <1>4, <1>5, <1>6, <1>7

\* The aggregate takes its rows from the reports there are.
LEMMA AggregateIs ==
  ASSUME InteractionInv, Interaction!Aggregate, NEW b \in Batches
  PROVE  /\ UNCHANGED <<step, results, batchReport, priorScores, graded>>
         /\ aggregate'.file = "written" /\ batchReport[b].file # "torn"
         /\ \A t \in b : t \in DOMAIN aggregate'.rows =>
              /\ batchReport[b].file = "written" /\ t \in DOMAIN batchReport[b].rows
              /\ aggregate'.rows[t] = batchReport[b].rows[t]
<1> DEFINE reported == {c \in Batches : batchReport[c].file # "none"}
           Of(t) == CHOOSE c \in reported : t \in c
<1>1. /\ \A c \in reported : batchReport[c].file = "written"
      /\ UNCHANGED <<step, results, batchReport, priorScores, graded>>
      /\ aggregate'.file = "written"
      /\ aggregate'.rows = [t \in UNION reported |-> batchReport[Of(t)].rows[t]]
  BY DEF Interaction!Aggregate
<1>2. ASSUME NEW t \in b, t \in UNION reported
      PROVE  Of(t) = b /\ b \in reported
  <2>1. \A c \in reported : t \in c => c = b
    BY BatchesAssumption
  <2>2. PICK c \in reported : t \in c
    BY <1>2
  <2> HIDE DEF reported
  <2>3. Of(t) \in reported /\ t \in Of(t)
    BY <2>2
  <2> QED
    BY <2>1, <2>2, <2>3
<1>3. ASSUME NEW t \in b, t \in DOMAIN aggregate'.rows
      PROVE  /\ batchReport[b].file = "written" /\ t \in DOMAIN batchReport[b].rows
             /\ aggregate'.rows[t] = batchReport[b].rows[t]
  <2> HIDE DEF reported, Of
  <2>1. t \in UNION reported /\ aggregate'.rows[t] = batchReport[Of(t)].rows[t]
    BY <1>1, <1>3
  <2>2. b \in reported /\ Of(t) = b
    BY <1>2, <2>1
  <2>3. DOMAIN batchReport[b].rows = b
    BY <1>1, <2>2 DEF InteractionInv, BatchInv, ReportOf
  <2> QED
    BY <1>1, <2>1, <2>2, <2>3
<1> QED
  BY <1>1, <1>3

\* Every step keeps the invariant.
LEMMA InteractionNextInv == InteractionInv /\ Interaction!Next => InteractionInv'
<1> SUFFICES ASSUME InteractionInv, Interaction!Next PROVE InteractionInv'
  OBVIOUS
<1>1. ASSUME NEW b \in Batches, Acts(b) PROVE InteractionInv'
  <2>1. Elsewhere(b)
    BY <1>1, ActsAre
  <2>2. Domains'
    BY <2>1 DEF Elsewhere, InteractionInv, Domains
  <2>3. BatchInv(b)'
    BY <1>1, ActsAre, ActsKeep DEF Elsewhere
  <2>4. ASSUME NEW q \in Batches \ {b} PROVE BatchInv(q)'
    BY <2>1 DEF InteractionInv, BatchInv, AggregateOf, OnFile, Kept, Elsewhere
  <2> QED
    BY <2>2, <2>3, <2>4 DEF InteractionInv
<1>2. CASE Interaction!Aggregate
  <2>1. Domains'
    BY <1>2 DEF Interaction!Aggregate, InteractionInv, Domains
  <2>2. ASSUME NEW b \in Batches PROVE BatchInv(b)'
    <3>1. BatchInv(b) /\ UNCHANGED <<step, results, batchReport, priorScores, graded>>
      BY <1>2, AggregateIs DEF InteractionInv
    <3>2. AggregateOf(b)'
      BY <1>2, <3>1, AggregateIs DEF BatchInv, ReportOf, AggregateOf
    <3>3. Kept(b)'
      BY <1>2, <3>1, AggregateIs DEF BatchInv, Kept, Speaks
    <3> QED
      BY <3>1, <3>2, <3>3 DEF BatchInv, OnFile
  <2> QED
    BY <2>1, <2>2 DEF InteractionInv
<1> QED
  BY <1>1, <1>2 DEF Interaction!Next, Acts

-----------------------------------------------------------------------------
\* The verdict of a grading is what results.json says, once a row of it stands anywhere.
Spoken(t, b) ==
  \/ Speaks(batchReport[b], t, graded[b])
  \/ Speaks(priorScores[b], t, graded[b])
  \/ Speaks(aggregate, t, graded[b])

Verdict(reward) ==
  IF reward = "1" THEN "passed" ELSE IF reward # Interaction!NoReward THEN "failed" ELSE "open"

\* A task is in a batch of the plan.
LEMMA BatchOfIs ==
  ASSUME NEW t \in FrozenTasks
  PROVE  Interaction!BatchOf(t) \in Batches /\ t \in Interaction!BatchOf(t)
<1>1. \E b \in Batches : t \in b
  BY BatchesAssumption
<1> QED
  BY <1>1 DEF Interaction!BatchOf

VerdictFollows(t, b) ==
  /\ Interaction!VerdictRecorded(t) = IF Spoken(t, b) THEN Verdict(results[b][t]) ELSE "none"
  /\ Spoken(t, b) => results[b] # Interaction!NoResults

\* The rows of the current grading agree, so the verdict on record is that of the results.
LEMMA VerdictIs ==
  \A t, b : b = Interaction!BatchOf(t) /\ t \in b /\ BatchInv(b) => VerdictFollows(t, b)
<1> SUFFICES ASSUME NEW t, NEW b, b = Interaction!BatchOf(t), t \in b, BatchInv(b)
             PROVE  VerdictFollows(t, b)
  OBVIOUS
<1> DEFINE rows == {r \in Interaction!Rows(t) : r.of = Interaction!Grading(t)}
<1>1. Interaction!Grading(t) = graded[b]
  BY DEF Interaction!Grading
<1>2. \A row : row \in rows <=>
        \E file \in {batchReport[b], priorScores[b], aggregate} :
          Speaks(file, t, graded[b]) /\ row = file.rows[t]
  BY <1>1 DEF Interaction!Rows, Speaks
<1>3. ASSUME NEW file \in {batchReport[b], priorScores[b], aggregate}, Speaks(file, t, graded[b])
      PROVE  /\ RowOf(file.rows[t], results[b], t, graded[b])
             /\ file.rows[t].of = graded[b]
  BY <1>3 DEF BatchInv, ReportOf, AggregateOf, Speaks
<1>4. ASSUME NEW row \in rows
      PROVE  /\ results[b] # Interaction!NoResults
             /\ Interaction!VerdictOf(row) = Verdict(results[b][t])
  <2>1. PICK file \in {batchReport[b], priorScores[b], aggregate} :
          Speaks(file, t, graded[b]) /\ row = file.rows[t]
    BY <1>2, <1>4
  <2>2. RowOf(row, results[b], t, graded[b]) /\ row.of = graded[b]
    BY <1>3, <2>1
  <2> QED
    BY <2>2 DEF RowOf, Interaction!VerdictOf, Verdict, Interaction!IsPass
<1>5. rows # {} <=> Spoken(t, b)
  BY <1>2 DEF Spoken
<1> DEFINE said == Interaction!CurrentVerdicts(t)
<1>6. said = {Interaction!VerdictOf(row) : row \in rows}
  BY DEF Interaction!CurrentVerdicts
<1>7. Interaction!VerdictRecorded(t) =
        IF said = {} THEN "none"
        ELSE IF \A v, w \in said : v = w THEN CHOOSE v \in said : TRUE ELSE "contradiction"
  BY DEF Interaction!VerdictRecorded
<1> HIDE DEF rows, said
<1>8. CASE rows = {}
  BY <1>5, <1>6, <1>7, <1>8 DEF VerdictFollows
<1>9. CASE rows # {}
  <2>1. said = {Verdict(results[b][t])}
    BY <1>4, <1>6, <1>9
  <2>2. (CHOOSE v \in said : TRUE) = Verdict(results[b][t])
    BY <2>1
  <2> QED
    BY <1>4, <1>5, <1>7, <1>9, <2>1, <2>2 DEF VerdictFollows
<1> QED
  BY <1>8, <1>9

\* So it is after a step.
LEMMA VerdictIsNext ==
  (\A t, b : b = Interaction!BatchOf(t) /\ t \in b /\ BatchInv(b) => VerdictFollows(t, b))'
  BY VerdictIs, PTL

Said(trials, t) ==
  IF trials = Interaction!NoResults \/ trials[t] = Interaction!NoReward THEN "silent"
  ELSE IF trials[t] = "1" THEN "pass" ELSE "fail"

\* What a step does to a task, as EarnedVerdict has it.
LEMMA InteractionStep ==
  ASSUME InteractionInv, InteractionInv', Interaction!Next, NEW t \in FrozenTasks
  PROVE  LET same == /\ Interaction!Grading(t)' = Interaction!Grading(t)
                     /\ Interaction!Oracle(t)' = Interaction!Oracle(t)
         IN \/ same /\ Interaction!VerdictRecorded(t)' = Interaction!VerdictRecorded(t)
            \/ /\ Interaction!Grading(t)' = Interaction!Grading(t)
               /\ Interaction!VerdictRecorded(t) = "none"
               /\ Interaction!VerdictRecorded(t)' = "none"
               /\ Interaction!Oracle(t) = "silent" /\ Interaction!Oracle(t)' \in {"pass", "fail"}
            \/ /\ same /\ Interaction!VerdictRecorded(t) = "none"
               /\ \/ Interaction!VerdictRecorded(t)' = "open"
                  \/ Interaction!VerdictRecorded(t)' = "passed" /\ Interaction!Oracle(t) = "pass"
                  \/ Interaction!VerdictRecorded(t)' = "failed" /\ Interaction!Oracle(t) = "fail"
            \/ /\ Interaction!Grading(t)' > Interaction!Grading(t)
               /\ Interaction!Oracle(t)' \in {"silent", "pass", "fail"}
               /\ Interaction!VerdictRecorded(t)' = "none"
<1> DEFINE b == Interaction!BatchOf(t)
<1>1. b \in Batches /\ t \in b /\ b' = b
  BY BatchOfIs DEF Interaction!BatchOf
<1>2. BatchInv(b) /\ BatchInv(b)' /\ graded[b] \in Nat
  BY <1>1 DEF InteractionInv, BatchInv
<1>3. VerdictFollows(t, b) /\ VerdictFollows(t, b)'
  BY <1>1, <1>2, VerdictIs, VerdictIsNext
<1>4. Interaction!Grading(t) = graded[b] /\ Interaction!Grading(t)' = graded'[b]
  BY DEF Interaction!Grading
<1>5. /\ results'[b] = results[b] => Interaction!Oracle(t)' = Interaction!Oracle(t)
      /\ results[b] = Interaction!NoResults => Interaction!Oracle(t) = "silent"
      /\ Interaction!Oracle(t)' \in {"silent", "pass", "fail"}
      /\ results[b] # Interaction!NoResults =>
           /\ Verdict(results[b][t]) = "passed" => Interaction!Oracle(t) = "pass"
           /\ Verdict(results[b][t]) = "failed" => Interaction!Oracle(t) = "fail"
           /\ Verdict(results[b][t]) \in {"passed", "failed", "open"}
  <2>1. /\ Interaction!Oracle(t) = Said(results[b], t)
        /\ Interaction!Oracle(t)' = Said(results'[b], t)
    BY <1>1 DEF Interaction!Oracle, Said
  <2>2. ASSUME NEW trials
        PROVE  /\ Said(trials, t) \in {"silent", "pass", "fail"}
               /\ trials = Interaction!NoResults => Said(trials, t) = "silent"
               /\ trials # Interaction!NoResults =>
                    /\ Verdict(trials[t]) = "passed" => Said(trials, t) = "pass"
                    /\ Verdict(trials[t]) = "failed" => Said(trials, t) = "fail"
                    /\ Verdict(trials[t]) \in {"passed", "failed", "open"}
    BY DEF Said, Verdict, Interaction!NoReward
  <2> QED
    BY <2>1, <2>2
<1> HIDE DEF b
<1>6. ASSUME results'[b] = results[b], graded'[b] = graded[b], Spoken(t, b)' <=> Spoken(t, b)
      PROVE  /\ Interaction!Grading(t)' = Interaction!Grading(t)
             /\ Interaction!Oracle(t)' = Interaction!Oracle(t)
             /\ Interaction!VerdictRecorded(t)' = Interaction!VerdictRecorded(t)
  BY <1>1, <1>3, <1>4, <1>5, <1>6 DEF VerdictFollows
<1>7. ASSUME NEW c \in Batches \ {b}, Acts(c)
      PROVE  /\ results'[b] = results[b] /\ graded'[b] = graded[b]
             /\ Spoken(t, b)' <=> Spoken(t, b)
  BY <1>1, <1>7, ActsAre DEF Elsewhere, Spoken
<1>8. CASE Interaction!Aggregate
  <2>1. /\ results'[b] = results[b] /\ graded'[b] = graded[b]
        /\ batchReport'[b] = batchReport[b] /\ priorScores'[b] = priorScores[b]
        /\ batchReport[b].file # "torn"
    BY <1>1, <1>8, AggregateIs
  <2>2. Spoken(t, b)' <=> Spoken(t, b)
    BY <1>1, <1>2, <2>1 DEF BatchInv, Kept, Spoken
  <2> QED
    BY <1>6, <2>1, <2>2
<1>9. CASE Acts(b)
  <2>1. Elsewhere(b)
    BY <1>1, <1>9, ActsAre
  <2>2. CASE Idles(b)
    BY <1>1, <1>6, <2>1, <2>2 DEF Idles, Files, Elsewhere, Spoken
  <2>3. CASE Copies(b)
    <3>1. results'[b] = results[b] /\ graded'[b] = graded[b]
      BY <1>1, <2>3 DEF Copies
    <3>2. Spoken(t, b)' <=> Spoken(t, b)
      BY <1>1, <1>2, <2>1, <2>3 DEF BatchInv, Kept, Copies, Elsewhere, Spoken
    <3> QED
      BY <1>6, <3>1, <3>2
  <2>4. CASE Tears(b)
    <3>1. results'[b] = results[b] /\ graded'[b] = graded[b]
      BY <1>1, <2>4 DEF Tears
    <3>2. Spoken(t, b)' <=> Spoken(t, b)
      BY <1>1, <1>2, <2>1, <2>4 DEF BatchInv, OnFile, Tears, Elsewhere, Spoken, Speaks
    <3> QED
      BY <1>6, <3>1, <3>2
  <2>5. CASE Solves(b)
    <3>1. results[b] = Interaction!NoResults /\ graded'[b] = graded[b]
      BY <1>1, <1>2, <2>5 DEF BatchInv, OnFile, Solves
    <3>2. Spoken(t, b)' <=> Spoken(t, b)
      BY <1>1, <2>1, <2>5 DEF Solves, Elsewhere, Spoken
    <3>3. ~Spoken(t, b)
      BY <1>3, <3>1 DEF VerdictFollows
    <3>4. Interaction!VerdictRecorded(t) = "none" /\ Interaction!VerdictRecorded(t)' = "none"
      BY <1>3, <3>2, <3>3 DEF VerdictFollows
    <3> QED
      BY <1>4, <1>5, <3>1, <3>4
  <2>6. CASE Scores(b)
    <3>1. graded'[b] > graded[b]
      BY <1>1, <1>2, <2>6 DEF Scores
    <3>2. ~Spoken(t, b)'
      <4>1. aggregate' = aggregate /\ batchReport'[b] = batchReport[b]
            /\ priorScores'[b] = priorScores[b] /\ graded'[b] = graded[b] + 1
        BY <1>1, <2>1, <2>6 DEF Scores, Elsewhere
      <4>2. ASSUME NEW file \in {batchReport[b], priorScores[b], aggregate}
            PROVE  ~Speaks(file, t, graded[b] + 1)
        BY <1>1, <1>2 DEF BatchInv, ReportOf, AggregateOf, RowOf, Speaks
      <4> QED
        BY <1>1, <4>1, <4>2 DEF Spoken
    <3>3. Interaction!VerdictRecorded(t)' = "none"
      BY <1>3, <3>2 DEF VerdictFollows
    <3> QED
      BY <1>4, <1>5, <3>1, <3>3
  <2>7. CASE Reports(b)
    <3>1. /\ results'[b] = results[b] /\ graded'[b] = graded[b]
          /\ results[b] # Interaction!NoResults
      BY <1>1, <2>7 DEF Reports
    <3>2. Spoken(t, b)'
      <4> DEFINE row == [passed |-> Interaction!IsPass(results[b][t]),
                         reward |-> results[b][t], of |-> graded[b]]
      <4>1. batchReport'[b].rows[t] = row /\ row.of = graded[b]
        BY <1>1, <2>7 DEF Reports
      <4> QED
        BY <1>1, <2>7, <3>1, <4>1 DEF Reports, Spoken, Speaks
    <3>3. Interaction!VerdictRecorded(t)' = Verdict(results[b][t])
      BY <1>1, <1>3, <3>1, <3>2 DEF VerdictFollows
    <3>4. CASE Spoken(t, b)
      BY <1>6, <3>1, <3>2, <3>4
    <3>5. CASE ~Spoken(t, b)
      <4>1. Interaction!VerdictRecorded(t) = "none"
        BY <1>3, <3>5 DEF VerdictFollows
      <4> QED
        BY <1>4, <1>5, <3>1, <3>3, <4>1
    <3> QED
      BY <3>4, <3>5
  <2> QED
    BY <1>1, <1>9, <2>2, <2>3, <2>4, <2>5, <2>6, <2>7, ActsAre
<1>10. \/ Interaction!Aggregate \/ Acts(b)
       \/ \E c \in Batches \ {b} : Acts(c)
  BY DEF Interaction!Next, Acts
<1> QED
  BY <1>6, <1>7, <1>8, <1>9, <1>10

-----------------------------------------------------------------------------
(***************************************************************************)
(* All programs.                                                           *)
(***************************************************************************)

Inv == program \in Programs /\ EvaluatorInv /\ TrialInv /\ InteractionInv

\* All three programs are at their beginning.
LEMMA InitInv == Init => Inv
  BY EvaluatorInitInv, TrialInitInv, InteractionInitInv DEF Init, Inv

\* A program that does not run keeps its invariant.
LEMMA RestKeeps ==
  ASSUME Inv
  PROVE  /\ UNCHANGED evaluatorVars => EvaluatorInv'
         /\ UNCHANGED trialVars => TrialInv'
         /\ UNCHANGED ibenchVars => InteractionInv'
<1>1. UNCHANGED evaluatorVars => EvaluatorInv'
  BY OtherVarsKeep DEF Inv, evaluatorVars, Evaluator!evaluationVars
<1>2. UNCHANGED trialVars => TrialInv'
  <2> SUFFICES ASSUME UNCHANGED trialVars PROVE TrialInv'
    OBVIOUS
  <2>1. TrialTypes' /\ Pending'
    BY DEF Inv, TrialInv, TrialTypes, Pending, trialVars
  <2> QED
    BY <2>1, OtherTrialStepKeeps DEF Inv, trialVars
<1>3. UNCHANGED ibenchVars => InteractionInv'
  BY DEF Inv, InteractionInv, Domains, BatchInv, AggregateOf, OnFile, Kept, ibenchVars
<1> QED
  BY <1>1, <1>2, <1>3

\* Every step keeps the invariant of each.
LEMMA NextInv == Inv /\ [Next]_vars => Inv'
<1> SUFFICES ASSUME Inv, [Next]_vars PROVE Inv'
  OBVIOUS
<1>1. program' = program
  BY DEF Next, vars
<1>2. EvaluatorInv'
  BY RestKeeps, EvaluatorNextInv DEF Inv, Next, vars
<1>3. TrialInv'
  BY RestKeeps, TrialNextInv DEF Inv, Next, vars
<1>4. InteractionInv'
  BY RestKeeps, InteractionNextInv DEF Inv, Next, vars
<1> QED
  BY <1>1, <1>2, <1>3, <1>4 DEF Inv

\* The invariant holds in every behaviour.
LEMMA Invariant == Spec => []Inv
  BY InitInv, NextInv, PTL DEF Spec

\* Among all programs that record verdicts, and for any batch, names and length run ids are cut
\* to: a conclusive official record is of tests that ended in a container nobody took away and
\* of a harness that ended on its own.
THEOREM ConclusiveIsUndisturbedHolds == Spec => []ConclusiveIsUndisturbed
<1>1. Inv => ConclusiveIsUndisturbed
  BY InvImpliesUndisturbed DEF Inv, ConclusiveIsUndisturbed
<1> QED
  BY <1>1, Invariant, PTL

-----------------------------------------------------------------------------
(* The refinement. *)

\* Nothing has been graded.
LEMMA InitEarned == Init => Earned!Init
<1> SUFFICES ASSUME Init, NEW t \in AllTasks
             PROVE  grading[t] = 0 /\ oracle[t] = "silent" /\ verdict[t] = "none"
  BY DEF Earned!Init, grading, oracle, verdict
<1>1. Inv
  BY InitInv
<1>2. CASE program = "evaluator"
  BY <1>2 DEF Init, Evaluator!Init, Evaluator!Predictions, Evaluator!OracleOf,
              Evaluator!VerdictRecorded, grading, oracle, verdict, Tasks
<1>3. CASE program = "trial"
  <2>1. Trial!Oracle = "silent" /\ Trial!VerdictRecorded = "none"
    BY OracleIs DEF Init, Trial!Init, Trial!VerdictRecorded
  <2> QED
    BY <1>3, <2>1 DEF grading, oracle, verdict, Tasks
<1>4. CASE program = "ibench"
  <2>1. ASSUME t \in FrozenTasks
        PROVE  /\ Interaction!Grading(t) = 0 /\ Interaction!Oracle(t) = "silent"
               /\ Interaction!VerdictRecorded(t) = "none"
    <3> DEFINE b == Interaction!BatchOf(t)
    <3>1. b \in Batches /\ t \in b
      BY <2>1, BatchOfIs
    <3>2. BatchInv(b)
      BY <1>1, <3>1 DEF Inv, InteractionInv
    <3>3. graded[b] = 0 /\ results[b] = Interaction!NoResults
      BY <3>1 DEF Init, Interaction!Init
    <3>4. Interaction!VerdictRecorded(t) = "none"
      BY <3>1, <3>2, <3>3, VerdictIs DEF VerdictFollows
    <3> QED
      BY <3>3, <3>4 DEF Interaction!Grading, Interaction!Oracle
  <2> QED
    BY <1>4, <2>1 DEF grading, oracle, verdict, Tasks
<1> QED
  BY <1>1, <1>2, <1>3, <1>4 DEF Inv, Programs

\* A task that is none of the program that runs.
LEMMA OthersStay ==
  ASSUME NEW t \in AllTasks, t \notin Tasks, program' = program, program \in Programs
  PROVE  Earned!Stays(t)
<1>1. ~(program = "ibench" /\ t \in FrozenTasks) /\ Tasks' = Tasks
  BY DEF Tasks, Programs
<1> QED
  BY <1>1 DEF Earned!Stays, grading, oracle, verdict

\* A step of the evaluator, for one prediction.
LEMMA EvaluatorEarns ==
  ASSUME Inv, Inv', program = "evaluator", Evaluator!Next, program' = program,
         NEW t \in Evaluator!Predictions
  PROVE  Earned!Stays(t) \/ Earned!Judge(t) \/ Earned!Record(t)
<1>1. /\ t \in AllTasks /\ t \in Tasks
  BY DEF Evaluator!Predictions, AllTasks, Tasks
<1>2. /\ grading[t] = 0 /\ grading'[t] = 0
      /\ oracle[t] = tests[t] /\ oracle'[t] = tests'[t]
      /\ verdict[t] = Evaluator!VerdictRecorded(t) /\ verdict'[t] = Evaluator!VerdictRecorded(t)'
  BY <1>1 DEF grading, oracle, verdict, Evaluator!OracleOf, Tasks
<1>3. CASE tests'[t] = tests[t] /\ reason'[t] = reason[t]
  BY <1>2, <1>3 DEF Earned!Stays, Evaluator!VerdictRecorded
<1>4. CASE /\ reason[t] = "none" /\ reason'[t] = "none"
           /\ tests[t] = "silent" /\ tests'[t] \in {"pass", "fail"}
  BY <1>2, <1>4 DEF Earned!Judge, Evaluator!VerdictRecorded
<1>5. CASE reason[t] = "none" /\ reason'[t] # "none" /\ tests'[t] = tests[t]
  <2>1. /\ reason'[t] = "official-resolved" => tests[t] = "pass"
        /\ reason'[t] = "official-unresolved" => tests[t] = "fail"
    BY <1>5 DEF Inv, EvaluatorInv, Concluded, Evaluator!Conclusive
  <2> QED
    BY <1>2, <1>5, <2>1 DEF Earned!Record, Earned!Earned, Evaluator!VerdictRecorded
<1> QED
  BY <1>3, <1>4, <1>5, EvaluatorStep DEF Inv

\* A step of a trial, for its task.
LEMMA TrialEarns ==
  ASSUME Inv, program = "trial", Trial!Next, program' = program
  PROVE  Earned!Stays(1) \/ Earned!Judge(1) \/ Earned!Record(1)
<1>1. 1 \in AllTasks /\ Tasks = {1} /\ Tasks' = {1}
  BY DEF AllTasks, Tasks
<1>2. /\ grading[1] = 0 /\ grading'[1] = 0
      /\ oracle[1] = Trial!Oracle /\ oracle'[1] = Trial!Oracle'
      /\ verdict[1] = Trial!VerdictRecorded /\ verdict'[1] = Trial!VerdictRecorded'
  BY <1>1 DEF grading, oracle, verdict
<1> QED
  BY <1>2, TrialStep DEF Inv, Earned!Stays, Earned!Judge, Earned!Record, Earned!Earned

\* A step of iBench, for one task.
LEMMA InteractionEarns ==
  ASSUME Inv, Inv', program = "ibench", Interaction!Next, program' = program,
         NEW t \in FrozenTasks
  PROVE  Earned!Stays(t) \/ Earned!Judge(t) \/ Earned!Record(t) \/ Earned!GradeAgain(t)
<1>1. t \in AllTasks /\ Tasks = FrozenTasks /\ Tasks' = FrozenTasks
  BY DEF AllTasks, Tasks
<1>2. /\ grading[t] = Interaction!Grading(t) /\ grading'[t] = Interaction!Grading(t)'
      /\ oracle[t] = Interaction!Oracle(t) /\ oracle'[t] = Interaction!Oracle(t)'
      /\ verdict[t] = Interaction!VerdictRecorded(t)
      /\ verdict'[t] = Interaction!VerdictRecorded(t)'
  BY <1>1 DEF grading, oracle, verdict
<1> QED
  BY <1>2, InteractionStep
     DEF Inv, Earned!Stays, Earned!Judge, Earned!Record, Earned!GradeAgain, Earned!Earned

\* Every step is one of EarnedVerdict or leaves it as it is.
LEMMA NextEarned == Inv /\ Inv' /\ [Next]_vars => [Earned!Next]_(Earned!vars)
<1> SUFFICES ASSUME Inv, Inv', [Next]_vars PROVE [Earned!Next]_(Earned!vars)
  OBVIOUS
<1>1. CASE UNCHANGED vars
  BY <1>1 DEF vars, evaluatorVars, trialVars, ibenchVars, Earned!vars, grading, oracle, verdict,
              Tasks, Evaluator!OracleOf, Evaluator!VerdictRecorded, Trial!Oracle, Trial!Outage,
              Trial!Unanswered, Trial!HasHeader, Trial!VerdictRecorded, Interaction!Grading,
              Interaction!Oracle, Interaction!VerdictRecorded, Interaction!CurrentVerdicts,
              Interaction!Rows
<1>2. CASE Next
  <2> SUFFICES ASSUME NEW t \in AllTasks
               PROVE  Earned!Stays(t) \/ Earned!Judge(t) \/ Earned!Record(t)
                        \/ Earned!GradeAgain(t)
    BY DEF Earned!Next
  <2>1. program' = program /\ program \in Programs
    BY <1>2 DEF Next, Inv
  <2>2. CASE t \notin Tasks
    BY <2>1, <2>2, OthersStay
  <2>3. CASE t \in Tasks /\ program = "evaluator"
    BY <1>2, <2>1, <2>3, EvaluatorEarns DEF Next, Tasks, Evaluator!Predictions
  <2>4. CASE t \in Tasks /\ program = "trial"
    BY <1>2, <2>1, <2>4, TrialEarns DEF Next, Tasks
  <2>5. CASE t \in Tasks /\ program = "ibench"
    BY <1>2, <2>1, <2>5, InteractionEarns DEF Next, Tasks
  <2> QED
    BY <2>1, <2>2, <2>3, <2>4, <2>5 DEF Programs
<1> QED
  BY <1>1, <1>2

\* The official evaluator, Frontier Harness, Terminal-Bench and iBench record a task as passed
\* or failed only after its grader said so in the grading the record is of, and never change
\* the record: an outage, a kill, a clean-up, a torn report or an aggregate makes nothing up.
THEOREM EarnedVerdictImplemented == Spec => ImplementsEarnedVerdict
  BY InitEarned, NextEarned, Invariant, PTL
     DEF Spec, ImplementsEarnedVerdict, Earned!Spec

=============================================================================
