---------------------------- MODULE EarnedVerdict ----------------------------
(***************************************************************************)
(* What every program of this repository that records a verdict promises.  *)
(* A grader outside the repository (the official evaluator, the verifier   *)
(* of a Frontier or Terminal-Bench trial, the scorer of iBench) speaks at  *)
(* most once per grading of a task.  A task is recorded as passed or as    *)
(* failed only after the grader said so; otherwise its record is open, and *)
(* a record stays as it is.  Only a new grading, where a program has one,  *)
(* withdraws it.                                                           *)
(***************************************************************************)
EXTENDS Naturals

CONSTANT Tasks

VARIABLES
  grading,   \* number of the grading, per task
  oracle,    \* what the grader said in it
  verdict    \* what the program recorded of it

vars == <<grading, oracle, verdict>>

Init ==
  /\ grading = [t \in Tasks |-> 0]
  /\ oracle = [t \in Tasks |-> "silent"]
  /\ verdict = [t \in Tasks |-> "none"]

Earned == [pass |-> "passed", fail |-> "failed"]

Stays(t) == <<grading[t], oracle[t], verdict[t]>>' = <<grading[t], oracle[t], verdict[t]>>

Judge(t) ==
  /\ verdict[t] = "none" /\ oracle[t] = "silent"
  /\ oracle'[t] \in {"pass", "fail"}
  /\ <<grading[t], verdict[t]>>' = <<grading[t], verdict[t]>>

Record(t) ==
  /\ verdict[t] = "none"
  /\ verdict'[t] \in {"open"} \cup (IF oracle[t] = "silent" THEN {} ELSE {Earned[oracle[t]]})
  /\ <<grading[t], oracle[t]>>' = <<grading[t], oracle[t]>>

GradeAgain(t) ==
  /\ grading'[t] > grading[t]
  /\ oracle'[t] \in {"silent", "pass", "fail"} /\ verdict'[t] = "none"

Next == \A t \in Tasks : Stays(t) \/ Judge(t) \/ Record(t) \/ GradeAgain(t)

Spec == Init /\ [][Next]_vars

=============================================================================
