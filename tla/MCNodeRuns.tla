----------------------------- MODULE MCNodeRuns -----------------------------
(* Values of NodeRuns for TLC. *)
EXTENDS NodeRuns, TLC

\* The first batch, and another one that has its last task as well.
TwoBatches == [batch |-> [from |-> 1, to |-> 2], next |-> [from |-> 2, to |-> 2]]

Bounds == [one |-> 2, recovery |-> 2, batch |-> 2, next |-> 1]

=============================================================================
