--------------------------- MODULE WatchdogProofs ---------------------------
(***************************************************************************)
(* Theorems about module Watchdog.  The module has no constants, so what   *)
(* the proofs add to the exhaustive run is the argument: one inductive     *)
(* invariant from which safety and the refinement of OnePromise follow.    *)
(***************************************************************************)
EXTENDS Watchdog, TLAPS

\* Of all outcomes only Graceful is called graceful, and none is the pending promise.
LEMMA OutcomeClosures ==
  /\ \A o \in CliOutcomes : o # Pending
  /\ SpawnFailed \in CliOutcomes /\ SpawnFailed.closure # "graceful"
  /\ \A c \in BOOLEAN : Closed(c) \in CliOutcomes /\ Closed(c).closure # "graceful"
  /\ \A e, c \in BOOLEAN : Forced(e, c) \in CliOutcomes /\ Forced(e, c).closure # "graceful"
  /\ \A c \in BOOLEAN : Graceful(c) \in CliOutcomes
  /\ Pending.closure # "graceful"
<1>1. \A c \in BOOLEAN : Closed(c) # Pending /\ Graceful(c) # Pending
  BY DEF Closed, Graceful, Pending
<1>2. \A e, c \in BOOLEAN : Forced(e, c) # Pending
  BY DEF Forced, Pending
<1>3. SpawnFailed # Pending
  BY DEF SpawnFailed, Pending
<1>4. \A o \in CliOutcomes : o # Pending
  BY <1>1, <1>2, <1>3 DEF CliOutcomes, SpawnedOutcomes
<1>5. /\ SpawnFailed \in CliOutcomes
      /\ \A c \in BOOLEAN : Closed(c) \in CliOutcomes /\ Graceful(c) \in CliOutcomes
      /\ \A e, c \in BOOLEAN : Forced(e, c) \in CliOutcomes
  BY DEF CliOutcomes, SpawnedOutcomes
<1>6. SpawnFailed.closure # "graceful" /\ Pending.closure # "graceful"
  BY DEF SpawnFailed, Pending
<1>7. \A c \in BOOLEAN : Closed(c).closure # "graceful"
  BY DEF Closed
<1>8. \A e, c \in BOOLEAN : Forced(e, c).closure # "graceful"
  BY DEF Forced
<1> QED
  BY <1>4, <1>5, <1>6, <1>7, <1>8

\* What finishTimedOutClosure resolves with, and when it is graceful.
LEMMA ClosureOutcomes ==
  ASSUME NEW forced \in BOOLEAN, NEW failed \in BOOLEAN
  PROVE  /\ ClosureOutcome(forced, failed) \in CliOutcomes
         /\ ClosureOutcome(forced, failed).closure = "graceful"
              => ~forced /\ exitKind # "signalled"
BY OutcomeClosures DEF ClosureOutcome

-----------------------------------------------------------------------------
\* The inductive invariant: GracefulIsQuiet needs to know that a failed cleanup counts
\* as force and that a closed child is gone; NoKillAfterSettle, that a resolved promise
\* leaves no timer armed.
Inv ==
  /\ TypeOK
  /\ GracefulIsQuiet
  /\ Settled => force # "armed" /\ ~polling
  /\ cleanupError => forceUsed
  /\ closed => "leader" \notin living /\ exitKind # "none"
  /\ promise.closure = "graceful" => closed

\* It holds initially.
LEMMA InitInv == Init => Inv
BY OutcomeClosures DEF Init, Inv, TypeOK, GracefulIsQuiet, Settled, Kinds, Descendants

\* The process tree cannot disturb it: an empty group stays empty.
LEMMA TreeInv == Inv /\ Tree => Inv'
<1> SUFFICES ASSUME Inv, Tree PROVE Inv'
  OBVIOUS
<1> USE DEF Inv, TypeOK, GracefulIsQuiet, Settled, GroupExists, Kinds, Descendants, TreeOnly
<1>1. CASE \E d \in Descendants : Fork(d)
  BY <1>1 DEF Fork
<1>2. CASE \E d \in Descendants : DescendantExits(d)
  BY <1>2 DEF DescendantExits
<1>3. CASE LeaderExits
  BY <1>3 DEF LeaderExits
<1> QED
  BY <1>1, <1>2, <1>3 DEF Tree

\* Nor can the callbacks.
LEMMA CallbackInv == Inv /\ Callbacks => Inv'
<1> SUFFICES ASSUME Inv, Callbacks PROVE Inv'
  OBVIOUS
<1> USE OutcomeClosures DEF Inv, TypeOK, GracefulIsQuiet, Settled, Settle
<1>1. CASE SpawnError
  BY <1>1 DEF SpawnError
<1>2. CASE Close
  <2>1. CASE ~timedOut
    BY <1>2, <2>1 DEF Close
  <2>2. CASE timedOut /\ CanFinish(TRUE, living)
    BY <1>2, <2>2, ClosureOutcomes DEF Close, CanFinish
  <2>3. CASE timedOut /\ ~CanFinish(TRUE, living)
    BY <1>2, <2>3 DEF Close
  <2> QED
    BY <2>1, <2>2, <2>3
<1>3. CASE \E refused \in BOOLEAN : Deadline(refused)
  BY <1>3 DEF Deadline, ErrorSettles
<1>4. CASE Poll
  BY <1>4, ClosureOutcomes DEF Poll, CanFinish
<1>5. ASSUME NEW works \in BOOLEAN, NEW delivered \in BOOLEAN, ForceFires(works, delivered)
      PROVE  Inv'
  <2>1. /\ force = "armed" /\ promise = Pending /\ force' = "fired"
        /\ cleanupError' \in BOOLEAN /\ forceUsed' \in BOOLEAN /\ (cleanupError' => forceUsed')
        /\ living' \subseteq living /\ holds' = holds /\ closed' = closed
        /\ exitKind' \in {exitKind, "signalled"}
        /\ UNCHANGED <<timedOut, hasCleanup>>
    BY <1>5 DEF ForceFires, AfterCleanup, AfterKill, GroupExists
  <2>2. CASE CanFinish(closed, AfterCleanup(works))
    <3>1. promise' = ClosureOutcome(forceUsed', cleanupError') /\ polling' = FALSE
      BY <1>5, <2>1, <2>2 DEF ForceFires
    <3>2. closed /\ exitKind' = exitKind /\ ~GroupExists(living')
      BY <1>5, <2>1, <2>2 DEF ForceFires, CanFinish, AfterKill, AfterCleanup, GroupExists
    <3>3. promise' \in CliOutcomes /\ promise' # Pending
      BY <2>1, <3>1, ClosureOutcomes
    <3>4. GracefulIsQuiet'
      BY <2>1, <3>1, <3>2, ClosureOutcomes DEF GroupExists
    <3> QED
      <4>1. TypeOK'
        BY <2>1, <3>1, <3>3
      <4>2. Settled' => force' # "armed" /\ ~polling'
        BY <2>1, <3>1
      <4> QED
        BY <2>1, <3>2, <3>4, <4>1, <4>2
  <2>3. CASE ~CanFinish(closed, AfterCleanup(works))
    <3>1. UNCHANGED <<promise, polling>>
      BY <1>5, <2>3 DEF ForceFires
    <3> QED
      BY <2>1, <3>1
  <2> QED
    BY <2>2, <2>3
<1> QED
  BY <1>1, <1>2, <1>3, <1>4, <1>5 DEF Callbacks

\* It holds in every behaviour.
LEMMA Invariant == Spec => []Inv
<1>1. Inv /\ UNCHANGED vars => Inv'
  BY DEF vars, Inv, TypeOK, GracefulIsQuiet, Settled, GroupExists
<1> QED
  BY <1>1, InitInv, TreeInv, CallbackInv, PTL DEF Spec, Next

-----------------------------------------------------------------------------
\* The state of a call has its type.
THEOREM TypeCorrect == Spec => []TypeOK
<1>1. Inv => TypeOK
  BY DEF Inv
<1> QED
  BY <1>1, Invariant, PTL

\* A timed-out run called graceful left no process group and needed no kill.
THEOREM GracefulIsQuietHolds == Spec => []GracefulIsQuiet
<1>1. Inv => GracefulIsQuiet
  BY DEF Inv
<1> QED
  BY <1>1, Invariant, PTL

\* No timer of a resolved call is left to kill the next worker.
THEOREM NoKillAfterSettleHolds == Spec => NoKillAfterSettle
<1>1. Inv /\ [Next]_vars => [Settled => UNCHANGED <<timedOut, force, forceUsed, cleanupError>>]_vars
  <2> SUFFICES ASSUME Inv, [Next]_vars, Settled
               PROVE  UNCHANGED <<timedOut, force, forceUsed, cleanupError>>
    OBVIOUS
  <2> USE DEF Inv, Settle
  <2>1. CASE Tree
    BY <2>1 DEF Tree, Fork, DescendantExits, LeaderExits, TreeOnly
  <2>2. CASE SpawnError \/ Close \/ Poll
    BY <2>2 DEF SpawnError, Close, Poll
  <2>3. CASE \/ \E refused \in BOOLEAN : Deadline(refused)
             \/ \E works, delivered \in BOOLEAN : ForceFires(works, delivered)
    BY <2>3 DEF Deadline, ForceFires
  <2>4. CASE UNCHANGED vars
    BY <2>4 DEF vars
  <2> QED
    BY <2>1, <2>2, <2>3, <2>4 DEF Next, Callbacks
<1> QED
  BY <1>1, Invariant, PTL DEF Spec, NoKillAfterSettle

\* Watchdog implements OnePromise: every step resolves the promise with an outcome or
\* leaves it alone.
THEOREM ResolvesOnceHolds == Spec => ResolvesOnce
<1>0. Promise!Pending = Pending /\ Promise!CliOutcomes = CliOutcomes
  BY DEF Pending, CliOutcomes, SpawnedOutcomes, SpawnFailed, Closed, Graceful, Forced,
         Promise!Pending, Promise!CliOutcomes, Promise!SpawnedOutcomes, Promise!SpawnFailed,
         Promise!Closed, Promise!Graceful, Promise!Forced
<1>1. Init => Promise!Init
  BY <1>0 DEF Init, Promise!Init
<1>2. Inv /\ [Next]_vars => [Promise!Resolve]_promise
  <2> SUFFICES ASSUME Inv, [Next]_vars, promise' # promise PROVE Promise!Resolve
    OBVIOUS
  <2>1. Inv'
    BY TreeInv, CallbackInv DEF Next, Inv, TypeOK, GracefulIsQuiet, Settled, GroupExists, vars
  <2>2. promise = Pending
    BY DEF Next, Callbacks, Tree, SpawnError, Close, Deadline, ErrorSettles, Poll, ForceFires,
           Fork, DescendantExits, LeaderExits, TreeOnly, Settle, Settled, vars
  <2> QED
    BY <1>0, <2>1, <2>2 DEF Promise!Resolve, Inv, TypeOK
<1> QED
  BY <1>1, <1>2, Invariant, PTL DEF Spec, ResolvesOnce, Promise!Spec

=============================================================================
