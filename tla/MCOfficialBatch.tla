--------------------------- MODULE MCOfficialBatch ---------------------------
(***************************************************************************)
(* Two invocations for TLC.                                                *)
(***************************************************************************)
EXTENDS OfficialBatch

CONSTANTS first, second

=============================================================================
