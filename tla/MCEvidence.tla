----------------------------- MODULE MCEvidence -----------------------------
(***************************************************************************)
(* Two runs for TLC: the root run and one child.                           *)
(***************************************************************************)
EXTENDS Evidence

CONSTANTS root, child

=============================================================================
