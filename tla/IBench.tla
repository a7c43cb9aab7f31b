------------------------------- MODULE IBench --------------------------------
(***************************************************************************)
(* scripts/ibench-run.mjs and scripts/ibench-aggregate.mjs: the batches of *)
(* an iBench run, each in an output directory of its own, their re-grading *)
(* in place with another scorer, and the aggregate of their reports.       *)
(*                                                                         *)
(* External: "ibench run" and "ibench score", which write results.json.  A *)
(* score that fails may leave the old results or replace part of them.     *)
(* Processes may die at any time; a directory survives, and only a         *)
(* re-grading may enter it again.                                          *)
(***************************************************************************)
EXTENDS Naturals, FiniteSets

CONSTANTS
  FrozenTasks,   \* the tasks of the frozen batch plan
  Batches,       \* its batches, a partition of them
  MaxGradings    \* bound: times the results of a batch are replaced

VARIABLES
  step,        \* where the process of a batch is
  mode,        \* the options of that process: the scorer, and --solver-only
  results,     \* results.json of a batch
  batchReport, \* ibench-report.json of a batch
  priorScores, \* the report last copied to prior-scores, of a batch
  aggregate,   \* ibench-aggregate.json
  graded       \* history: times the results of a batch were replaced

vars == <<step, mode, results, batchReport, priorScores, aggregate, graded>>

Scorers == {"official", "custom"}
NoReward == "absent"
\* "other" stands for every number but 1.
Rewards == {NoReward, "1", "other"}
NoOptions == [scorer |-> "official", solverOnly |-> FALSE]
NoResults == <<>>
NoReport == [file |-> "none"]
TornReport == [file |-> "torn"]

Init ==
  /\ step = [b \in Batches |-> "idle"]
  /\ mode = [b \in Batches |-> NoOptions]
  /\ results = [b \in Batches |-> NoResults]
  /\ batchReport = [b \in Batches |-> NoReport]
  /\ priorScores = [b \in Batches |-> NoReport] /\ aggregate = NoReport
  /\ graded = [b \in Batches |-> 0]

Goto(b, place) == step' = [step EXCEPT ![b] = place]
Ends(b, place) == Goto(b, place) /\ mode' = [mode EXCEPT ![b] = NoOptions]

-----------------------------------------------------------------------------
(* The report. *)

\* Mutant: every trial that was scored passes.
RewardIsPass(reward) == reward # NoReward

IsPass(reward) == reward = "1"

\* computeReport: a row per declared task, of the results in the directory; "of" says, as
\* history, how often these had been replaced.
ComputeReport(b, options) ==
  [file |-> "written", scorer |-> options.scorer, solverOnly |-> options.solverOnly,
   rows |-> [t \in b |-> [passed |-> IsPass(results[b][t]), reward |-> results[b][t],
                          of |-> graded[b]]]]

\* pickScorer: the official scorer wants its key, if there is anything to score.
CanScore(options, hasKey) == options.scorer = "official" => hasKey \/ options.solverOnly

WriteReport(b) ==
  /\ batchReport' = [batchReport EXCEPT ![b] = ComputeReport(b, mode[b])]
  /\ Ends(b, "ended")
  /\ UNCHANGED <<results, priorScores, aggregate, graded>>

-----------------------------------------------------------------------------
(* main: solve, and score unless told not to. *)

\* Options, the pinned checkout, the selected tasks, the scorer; the directory is new.
\* Then the credential, the environment and the base image.  Any of it may throw.
Launch(b) ==
  /\ step[b] = "idle"
  /\ \E options \in [scorer : Scorers, solverOnly : BOOLEAN], hasKey \in BOOLEAN :
       /\ CanScore(options, hasKey)
       /\ mode' = [mode EXCEPT ![b] = options]
  /\ Goto(b, "solving")
  /\ UNCHANGED <<results, batchReport, priorScores, aggregate, graded>>

\* ibench run ends, with or without results; without scores if it was told not to score.
IbenchRuns(b) ==
  /\ step[b] = "solving" /\ Goto(b, "solved")
  /\ \E trials \in {NoResults} \cup [b -> Rewards] :
       /\ trials # NoResults /\ mode[b].solverOnly => \A t \in b : trials[t] = NoReward
       /\ results' = [results EXCEPT ![b] = trials]
  /\ UNCHANGED <<mode, batchReport, priorScores, aggregate, graded>>

\* Without results there is no report; with them there is one whatever the exit code.
ReportRun(b) ==
  /\ step[b] = "solved"
  /\ IF results[b] = NoResults
     THEN Ends(b, "ended") /\ UNCHANGED <<results, batchReport, priorScores, aggregate, graded>>
     ELSE WriteReport(b)

-----------------------------------------------------------------------------
(* scoreExistingRun: --score-only, in place. *)

\* It needs the results and a readable report of a run of the pinned release, whose tasks,
\* solver and provider it takes over, and copies them away first.
Regrade(b) ==
  /\ step[b] = "ended" /\ graded[b] < MaxGradings
  /\ results[b] # NoResults /\ batchReport[b].file = "written"
  /\ \E scorer \in Scorers, hasKey \in BOOLEAN :
       LET options == [scorer |-> scorer, solverOnly |-> FALSE] IN
       CanScore(options, hasKey) /\ mode' = [mode EXCEPT ![b] = options]
  /\ priorScores' = [priorScores EXCEPT ![b] = batchReport[b]]
  /\ Goto(b, "scoring")
  /\ UNCHANGED <<results, batchReport, aggregate, graded>>

\* ibench score --overwrite: it succeeds and has replaced the results, or fails and has
\* replaced them or not.
IbenchScores(b) ==
  /\ step[b] = "scoring" /\ Goto(b, "scored")
  /\ \/ /\ results' \in {[results EXCEPT ![b] = trials] : trials \in [b -> Rewards]}
        /\ graded' = [graded EXCEPT ![b] = @ + 1]
     \/ UNCHANGED <<results, graded>>
  /\ UNCHANGED <<mode, batchReport, priorScores, aggregate>>

\* The report of what results.json holds now, under the name of the new scorer and as a
\* scored run, whatever the exit code.
ReportRegrade(b) == step[b] = "scored" /\ WriteReport(b)

-----------------------------------------------------------------------------
\* The process dies; in the middle of a report it leaves part of it.
Dies(b) ==
  /\ step[b] \in {"solving", "solved", "scoring", "scored"}
  /\ \/ UNCHANGED batchReport
     \/ /\ step[b] \in {"solved", "scored"} /\ results[b] # NoResults
        /\ batchReport' = [batchReport EXCEPT ![b] = TornReport]
  /\ Ends(b, "ended")
  /\ UNCHANGED <<results, priorScores, aggregate, graded>>

\* aggregateReports, of the reports there are: all readable, of one scorer, together the
\* whole plan unless a part is allowed.
Aggregate ==
  LET reported == {b \in Batches : batchReport[b].file # "none"}
      identity(b) == <<batchReport[b].scorer, batchReport[b].solverOnly>>
  IN
  /\ reported # {} /\ \A b \in reported : batchReport[b].file = "written"
  /\ Cardinality({identity(b) : b \in reported}) = 1
  /\ \E allowPartial \in BOOLEAN :
       /\ UNION reported = FrozenTasks \/ allowPartial
       /\ aggregate' =
            [file |-> "written", partial |-> UNION reported # FrozenTasks,
             rows |-> [t \in UNION reported |->
                         LET b == CHOOSE b \in reported : t \in b IN batchReport[b].rows[t]]]
  /\ UNCHANGED <<step, mode, results, batchReport, priorScores, graded>>

Next ==
  \/ \E b \in Batches :
       \/ Launch(b) \/ IbenchRuns(b) \/ ReportRun(b)
       \/ Regrade(b) \/ IbenchScores(b) \/ ReportRegrade(b) \/ Dies(b)
  \/ Aggregate

-----------------------------------------------------------------------------
(* The scorer and the reports, as EarnedVerdict has them: the grading of a task is the one *)
(* its results are of, and a row of earlier results is no record of it.                    *)

BatchOf(t) == CHOOSE b \in Batches : t \in b
Grading(t) == graded[BatchOf(t)]

Oracle(t) ==
  LET b == BatchOf(t) IN
  IF results[b] = NoResults \/ results[b][t] = NoReward THEN "silent"
  ELSE IF results[b][t] = "1" THEN "pass" ELSE "fail"

VerdictOf(row) ==
  IF row.passed THEN "passed" ELSE IF row.reward # NoReward THEN "failed" ELSE "open"

\* The rows that speak of t: of the report of its batch, the copy of it, and the aggregate.
Rows(t) ==
  {file.rows[t] : file \in {f \in {batchReport[BatchOf(t)], priorScores[BatchOf(t)], aggregate} :
                              f.file = "written" /\ t \in DOMAIN f.rows}}

\* What the rows of the current grading say.
CurrentVerdicts(t) == {VerdictOf(row) : row \in {r \in Rows(t) : r.of = Grading(t)}}

VerdictRecorded(t) ==
  IF CurrentVerdicts(t) = {} THEN "none"
  ELSE IF \A v, w \in CurrentVerdicts(t) : v = w THEN CHOOSE v \in CurrentVerdicts(t) : TRUE
  ELSE "contradiction"

=============================================================================
