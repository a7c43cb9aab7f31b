----------------------------- MODULE OnePromise -----------------------------
(***************************************************************************)
(* What a caller of runCliProcess may rely on: the promise resolves at     *)
(* most once, and only with one of CliOutcomes.  Module Watchdog is shown  *)
(* to implement this specification, and module Generation consumes it: the *)
(* result of an awaited worker process there is any member of CliOutcomes. *)
(***************************************************************************)
EXTENDS CliOutcome

VARIABLE promise

Init == promise = Pending

Resolve ==
  /\ promise = Pending
  /\ promise' \in CliOutcomes

Spec == Init /\ [][Resolve]_promise

=============================================================================
