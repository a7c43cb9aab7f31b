----------------------------- MODULE MCVerdicts ------------------------------
(* Values of Verdicts for TLC: two instances whose cut run ids are the same. *)
EXTENDS Verdicts, TLC

Batch == <<"/">>
Instances == <<<<"a">>, <<"a", "b">>>>
TwoBatches == {{1}, {2}}
TwoTasks == {1, 2}

=============================================================================
