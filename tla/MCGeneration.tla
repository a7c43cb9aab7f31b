---------------------------- MODULE MCGeneration ----------------------------
(***************************************************************************)
(* Values for the constants of Generation that a .cfg cannot write.        *)
(***************************************************************************)
EXTENDS Generation

\* A benchmark run: --preflight-only is absent.
Benchmark == {FALSE}

\* Either kind of run.
BothModes == BOOLEAN

=============================================================================
