------------------------------ MODULE Verdicts -------------------------------
(***************************************************************************)
(* The programs that record verdicts, and what they have in common: each   *)
(* implements EarnedVerdict.  They share no state and never run together:  *)
(* a behaviour is one of the official evaluator, of a trial of Frontier    *)
(* Harness or Terminal-Bench, or of iBench, and the state of the others    *)
(* stays as it is.                                                         *)
(***************************************************************************)
EXTENDS Naturals

CONSTANTS
  NPredictions, BatchId, InstanceId, RunIdLength, PullAttempts,   \* FrozenEvaluation
  MaxEntries,                                                     \* TrialHarness
  FrozenTasks, Batches, MaxGradings                               \* IBench

\* The plan, as frozenTaskIds checks it: no batch is empty, and together they have every task
\* exactly once.
ASSUME BatchesAssumption ==
  /\ {} \notin Batches /\ UNION Batches = FrozenTasks
  /\ \A a, b \in Batches : a # b => a \cap b = {}

VARIABLES
  program,
  dataset, freeze, stage, harness, timedOut, container, listed, runReport, reason, tests,
  disturbed,
  suite, phase, trial, log, logState, summary, disposition,
  step, mode, results, batchReport, priorScores, aggregate, graded

Evaluator == INSTANCE FrozenEvaluation
Trial == INSTANCE TrialHarness
Interaction == INSTANCE IBench

Programs == {"evaluator", "trial", "ibench"}

evaluatorVars ==
  <<dataset, freeze, stage, harness, timedOut, container, listed, runReport, reason, tests,
    disturbed>>
trialVars == <<suite, phase, trial, log, logState, summary, disposition>>
ibenchVars == <<step, mode, results, batchReport, priorScores, aggregate, graded>>
vars == <<program, evaluatorVars, trialVars, ibenchVars>>

Init ==
  /\ program \in Programs
  /\ Evaluator!Init /\ Trial!Init /\ Interaction!Init

Next ==
  \/ /\ program = "evaluator" /\ Evaluator!Next
     /\ UNCHANGED <<program, trialVars, ibenchVars>>
  \/ /\ program = "trial" /\ Trial!Next
     /\ UNCHANGED <<program, evaluatorVars, ibenchVars>>
  \/ /\ program = "ibench" /\ Interaction!Next
     /\ UNCHANGED <<program, evaluatorVars, trialVars>>

Spec == Init /\ [][Next]_vars

-----------------------------------------------------------------------------
(* The refinement: predictions, the one task of a trial, the tasks of iBench. *)

Tasks ==
  CASE program = "evaluator" -> 1..NPredictions
    [] program = "trial"     -> {1}
    [] program = "ibench"    -> FrozenTasks

AllTasks == 1..NPredictions \cup {1} \cup FrozenTasks

grading == [t \in AllTasks |-> IF program = "ibench" /\ t \in FrozenTasks
                               THEN Interaction!Grading(t) ELSE 0]
oracle ==
  [t \in AllTasks |-> IF t \notin Tasks THEN "silent"
                      ELSE CASE program = "evaluator" -> Evaluator!OracleOf(t)
                             [] program = "trial"     -> Trial!Oracle
                             [] program = "ibench"    -> Interaction!Oracle(t)]
verdict ==
  [t \in AllTasks |-> IF t \notin Tasks THEN "none"
                      ELSE CASE program = "evaluator" -> Evaluator!VerdictRecorded(t)
                             [] program = "trial"     -> Trial!VerdictRecorded
                             [] program = "ibench"    -> Interaction!VerdictRecorded(t)]

Earned == INSTANCE EarnedVerdict WITH Tasks <- AllTasks

\* Every program records a task as passed or failed only after its grader said so in the
\* grading the record is of, and never changes the record: a failure of the harness, of the
\* provider or of a clean-up, and a trial nobody could read, are recorded as open.
ImplementsEarnedVerdict == Earned!Spec

\* The official evaluator: a conclusive record is of tests that ended undisturbed.
ConclusiveIsUndisturbed == Evaluator!ConclusiveIsUndisturbed

=============================================================================
