---------------------------- MODULE MCFormalRun ----------------------------
(***************************************************************************)
(* A small frozen plan for TLC: batch b1 of the tasks t1 and t2, batch b2  *)
(* of the task t3.                                                         *)
(***************************************************************************)
EXTENDS FormalRun, TLC

CONSTANTS b1, b2, t1, t2, t3

MCBatchOf == t1 :> b1 @@ t2 :> b1 @@ t3 :> b2

\* The gates admit; without them no population is accepted.
GatesAdmit == {TRUE}

\* The tasks of b1 play the same role.
TaskSymmetry == Permutations({t1, t2})

=============================================================================
