------------------------------ MODULE Watchdog ------------------------------
(***************************************************************************)
(* One call of runCliProcess (scripts/swe-bench-harness.mjs): the child    *)
(* process tree, the deadline timer, the 25 ms closure poll, the 5 s force *)
(* timer and the promise.  Timer callbacks and child events interleave in  *)
(* any order the event loop allows; time itself is not modelled, so any    *)
(* relative speed of the tree and the timers is covered.                   *)
(*                                                                         *)
(* The process tree is a set of living kinds of process: the leader (the   *)
(* direct child), "group" (another member of the leader's process group)   *)
(* and "outside" (a descendant that left the group).  Any descendant may   *)
(* hold the stdio pipes, which is what delays the "close" event.           *)
(***************************************************************************)
EXTENDS CliOutcome

VARIABLES
  promise,     \* the returned promise: Pending or a member of CliOutcomes
  living,      \* the kinds of process that are alive
  holds,       \* the kinds that inherited the stdio pipes
  exitKind,    \* how the leader ended: "none", "clean", "failed", "signalled"
  closed,      \* directClosure is defined: "close" was delivered
  timedOut,    \* the flag of the same name
  force,       \* forceTimer: "unset", "armed", "fired", "cleared"
  polling,     \* closurePollTimer is set
  forceUsed,   \* the flag of the same name
  cleanupError,\* the variable of the same name is defined
  hasCleanup   \* the caller passed a forceCleanup function

vars == <<promise, living, holds, exitKind, closed, timedOut, force, polling,
          forceUsed, cleanupError, hasCleanup>>

Kinds == {"leader", "group", "outside"}
Descendants == {"group", "outside"}

TypeOK ==
  /\ promise \in {Pending} \cup CliOutcomes
  /\ living \subseteq Kinds
  /\ holds \subseteq Descendants
  /\ exitKind \in {"none", "clean", "failed", "signalled"}
  /\ closed \in BOOLEAN
  /\ timedOut \in BOOLEAN
  /\ force \in {"unset", "armed", "fired", "cleared"}
  /\ polling \in BOOLEAN
  /\ forceUsed \in BOOLEAN
  /\ cleanupError \in BOOLEAN
  /\ hasCleanup \in BOOLEAN

Settled == promise # Pending

\* processGroupExists: EPERM counts as existing, so only an empty group is gone.
GroupExists(alive) == alive \cap {"leader", "group"} # {}

-----------------------------------------------------------------------------
Init ==
  /\ promise = Pending
  /\ living \in {{"leader"}, {}}       \* {}: spawn failed, "error" is still to come
  /\ holds \in SUBSET Descendants
  /\ exitKind = "none"
  /\ closed = FALSE
  /\ timedOut = FALSE
  /\ force = "unset"
  /\ polling = FALSE
  /\ forceUsed = FALSE
  /\ cleanupError = FALSE
  /\ hasCleanup \in BOOLEAN

\* Mutant: settle() leaves the force timer armed.
SettleKeepsForce(outcome, forceTimer) ==
  /\ promise' = IF Settled THEN promise ELSE outcome
  /\ force' = forceTimer
  /\ polling' = FALSE

\* settle(): only the first call resolves; the timers are cleared.
Settle(outcome, forceTimer) ==
  /\ promise' = IF Settled THEN promise ELSE outcome
  /\ force' = IF forceTimer = "armed" THEN "cleared" ELSE forceTimer
  /\ polling' = FALSE

\* Mutant: the closure is taken from the direct child alone.
CanFinishOnClose(isClosed, alive) == isClosed

\* The guard and the value of finishTimedOutClosure().
CanFinish(isClosed, alive) == isClosed /\ ~GroupExists(alive)

ClosureOutcome(forced, failed) ==
  IF forced \/ exitKind = "signalled"
  THEN Forced(failed, exitKind = "clean")
  ELSE Graceful(exitKind = "clean")

-----------------------------------------------------------------------------
(* The process tree: it forks, exits and closes as it likes. *)

TreeOnly == UNCHANGED <<promise, holds, closed, timedOut, force, polling,
                        forceUsed, cleanupError, hasCleanup>>

Fork(d) ==
  /\ d \notin living
  /\ \/ GroupExists(living)
     \/ d = "outside" /\ living # {}
  /\ living' = living \cup {d}
  /\ UNCHANGED exitKind
  /\ TreeOnly

DescendantExits(d) ==
  /\ d \in living
  /\ living' = living \ {d}
  /\ UNCHANGED exitKind
  /\ TreeOnly

LeaderExits ==
  /\ "leader" \in living
  /\ living' = living \ {"leader"}
  /\ exitKind' \in {"clean", "failed", "signalled"}
  /\ TreeOnly

-----------------------------------------------------------------------------
(* The callbacks of the controller. *)

\* Mutant: an error emitted by the kill after the deadline resolves the promise.
ErrorSettlesAlways(late) == TRUE

\* child.on("error") is ignored once the deadline has fired.
ErrorSettles(late) == ~late

\* A failed spawn emits "error" first; its "close", with a negative code, follows.
SpawnError ==
  /\ living = {} /\ exitKind = "none"
  /\ exitKind' = "failed"
  /\ Settle(SpawnFailed, force)
  /\ UNCHANGED <<living, holds, closed, timedOut, forceUsed, cleanupError, hasCleanup>>

\* child.on("close"): the leader is gone and nobody holds its pipes.
Close ==
  /\ "leader" \notin living /\ exitKind # "none" /\ ~closed
  /\ holds \cap living = {}
  /\ closed' = TRUE
  /\ IF ~timedOut THEN Settle(Closed(exitKind = "clean"), force)
     ELSE IF CanFinish(TRUE, living)
          THEN Settle(ClosureOutcome(forceUsed, cleanupError), force)
          ELSE UNCHANGED <<promise, force, polling>>
  /\ UNCHANGED <<living, holds, exitKind, timedOut, forceUsed, cleanupError, hasCleanup>>

\* Mutant: the deadline does not arm the force timer.
DeadlineWithoutForce(refused) ==
  /\ ~timedOut /\ ~Settled
  /\ living # {} \/ exitKind # "none"
  /\ timedOut' = TRUE
  /\ polling' = TRUE
  /\ UNCHANGED <<promise, living, holds, exitKind, closed, force, forceUsed, cleanupError,
                 hasCleanup>>

\* The deadline: SIGTERM to the group, then to the child; when both are refused
\* (a sudo child), child.kill emits "error".  The poll and the force timer start.
Deadline(refused) ==
  /\ ~timedOut /\ ~Settled
  /\ living # {} \/ exitKind # "none"
  /\ timedOut' = TRUE
  /\ promise' = IF refused /\ ErrorSettles(timedOut')
                THEN [SpawnFailed EXCEPT !.timedOut = TRUE] ELSE promise
  /\ polling' = TRUE
  /\ force' = "armed"
  /\ UNCHANGED <<living, holds, exitKind, closed, forceUsed, cleanupError, hasCleanup>>

\* setInterval(finishTimedOutClosure, 25); a tick that cannot finish changes nothing.
Poll ==
  /\ polling /\ CanFinish(closed, living)
  /\ Settle(ClosureOutcome(forceUsed, cleanupError), force)
  /\ UNCHANGED <<living, holds, exitKind, closed, timedOut, forceUsed, cleanupError,
                 hasCleanup>>

\* forceCleanup, the account-wide pkill, takes every process with it; kill(-pid,
\* SIGKILL) takes the group.  Either may fail or be refused, or not be there at all.
AfterCleanup(works) == IF hasCleanup /\ works THEN {} ELSE living

AfterKill(alive, delivered) == IF delivered THEN alive \ {"leader", "group"} ELSE alive

\* The force timer: cleanup first; then finish if the group is gone, else SIGKILL it.
ForceFires(works, delivered) ==
  LET alive == AfterCleanup(works) IN
  /\ force = "armed"
  /\ cleanupError' = (hasCleanup /\ ~works)
  /\ forceUsed' = (hasCleanup \/ GroupExists(alive))
  /\ living' = AfterKill(alive, delivered)
  /\ exitKind' = IF "leader" \in living \ living' THEN "signalled" ELSE exitKind
  /\ IF CanFinish(closed, alive)
     THEN Settle(ClosureOutcome(forceUsed', cleanupError'), "fired")
     ELSE force' = "fired" /\ UNCHANGED <<promise, polling>>
  /\ UNCHANGED <<holds, closed, timedOut, hasCleanup>>

-----------------------------------------------------------------------------
Callbacks ==
  \/ SpawnError
  \/ Close
  \/ \E refused \in BOOLEAN : Deadline(refused)
  \/ Poll
  \/ \E works, delivered \in BOOLEAN : ForceFires(works, delivered)

Tree ==
  \/ \E d \in Descendants : Fork(d) \/ DescendantExits(d)
  \/ LeaderExits

Next == Callbacks \/ Tree

\* Events and due timers are delivered; nothing obliges a process to exit.
Fairness == WF_vars(Callbacks)

Spec == Init /\ [][Next]_vars /\ Fairness

-----------------------------------------------------------------------------
(* Properties. *)

\* The promise resolves once, with an outcome its callers know (settle, 791-809).
Promise == INSTANCE OnePromise
ResolvesOnce == Promise!Spec

\* A timed-out run is called graceful only if the controller never had to kill, the
\* exit was not a signal, and the process group was empty when the promise resolved.
GracefulIsQuiet ==
  promise.closure = "graceful" =>
    /\ ~forceUsed /\ ~cleanupError
    /\ exitKind # "signalled"
    /\ ~GroupExists(living)

\* After the promise has resolved no timer of this call is left to kill anything:
\* forceCleanup is account-wide, so a late one would hit the next worker.
NoKillAfterSettle ==
  [][Settled => UNCHANGED <<timedOut, force, forceUsed, cleanupError>>]_vars

\* Every call resolves, unless the force timer has fired and left a process alive:
\* pkill failed, SIGKILL was refused, or a process outside the group kept the pipe.
Resolves == <>Settled \/ <>[](force = "fired" /\ living # {})

=============================================================================
