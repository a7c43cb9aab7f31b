----------------------------- MODULE CliOutcome -----------------------------
(***************************************************************************)
(* The values a runCliProcess promise can resolve with, reduced to what    *)
(* its callers branch on (scripts/swe-bench-harness.mjs):                  *)
(*   error     cliResult.error is defined (spawn error or cleanup error)   *)
(*   timedOut  the watchdog deadline fired before the process closed       *)
(*   closure   timeoutClosure                                              *)
(*   clean     status = 0 and signal = null                                *)
(* The output text and the overflow flags are not modelled.                *)
(***************************************************************************)

Closures == {"not-applicable", "graceful", "forced"}

CliResult ==
  [error : BOOLEAN, timedOut : BOOLEAN, closure : Closures \cup {"pending"}, clean : BOOLEAN]

\* The promise before it is resolved.
Pending ==
  [error |-> FALSE, timedOut |-> FALSE, closure |-> "pending", clean |-> FALSE]

\* The child never started: ENOENT, EAGAIN, sudo missing.
SpawnFailed ==
  [error |-> TRUE, timedOut |-> FALSE, closure |-> "not-applicable", clean |-> FALSE]

\* The child closed on its own before the deadline.
Closed(clean) ==
  [error |-> FALSE, timedOut |-> FALSE, closure |-> "not-applicable", clean |-> clean]

\* The deadline fired and the whole process group went away within the grace.
Graceful(clean) ==
  [error |-> FALSE, timedOut |-> TRUE, closure |-> "graceful", clean |-> clean]

\* The deadline fired and the controller had to kill, or the exit was a signal;
\* cleanupFailed is the exception of the account-wide pkill.
Forced(cleanupFailed, clean) ==
  [error |-> cleanupFailed, timedOut |-> TRUE, closure |-> "forced", clean |-> clean]

SpawnedOutcomes ==
  {Closed(c) : c \in BOOLEAN} \cup {Graceful(c) : c \in BOOLEAN}
    \cup {Forced(e, c) : e, c \in BOOLEAN}

CliOutcomes == {SpawnFailed} \cup SpawnedOutcomes

=============================================================================
