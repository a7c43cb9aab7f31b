------------------------------ MODULE Evidence ------------------------------
(***************************************************************************)
(* The attempt evidence log and its admission: inspectAttemptEvidence of   *)
(* scripts/swe-bench-harness.mjs, which the harness, the recovery planner  *)
(* and the admission of a formal run all ask whether an attempt is         *)
(* complete.                                                               *)
(*                                                                         *)
(* The recorder is the candidate CLI, which is not part of the repository: *)
(* it is modelled from the records the inspection and its tests know.  It  *)
(* is killed with its process at any moment, in the middle of a line too,  *)
(* and it may go wrong: a record is lost, or written in another shape.     *)
(* "events" is what really happened, "log" what reached the file.          *)
(*                                                                         *)
(* Model calls are numbered in the order of their requests.  The recorder  *)
(* computes the hash of the footer over the bytes it wrote, so it matches  *)
(* unless the line is damaged ("misshapen").                               *)
(***************************************************************************)
EXTENDS Naturals, Sequences, FiniteSets, Functions

CONSTANTS
  Resources,      \* the runs a CLI may record
  Root,           \* the run the harness started
  MaxEvents,      \* bound: events of an attempt
  MaxDeviations   \* bound: events the recorder gets wrong

ASSUME RootAssumption == Root \in Resources
ASSUME EventsAssumption == MaxEvents \in Nat
ASSUME DeviationsAssumption == MaxDeviations \in Nat

VARIABLES
  events,      \* history: the calls, their results and the terminal snapshots
  log,         \* the whole lines of the file; its header is log[1]
  nextSeq,     \* the sequence number of the next record
  invocations, \* the calls whose requests were written, in order
  tail,        \* bytes follow the last whole line
  oversized,   \* the file is longer than the inspection reads
  recorder,    \* "off", "open", "sealed" (footer written), "killed"
  deviations,  \* history: events the recorder got wrong
  at,          \* the inspection: index into the log, 0 before it starts
  requests,    \* the map from each call to its resource, as pairs in order
  closures,    \* the calls that have a result
  terminals,   \* the resources that have a snapshot
  resources,   \* the resources seen
  rootCause,   \* rootTerminalCause; the recorder's rootStatus agrees with it
  rootFailure, \* rootModelFailureReason
  verdict      \* what the inspection returned

recorderVars ==
  <<events, log, nextSeq, invocations, tail, oversized, recorder, deviations>>
scanVars == <<at, requests, closures, terminals, resources, rootCause, rootFailure>>
vars == <<recorderVars, scanVars, verdict>>

Types == {"model-request", "model-outcome", "model-failure", "terminal-snapshot"}
FailureReasons == {"transport", "provider"}
Causes == {"completed", "model-failure", "stopped"}

\* One event: call is 0 for a snapshot, detail a reason or a cause.
Request(i, r) == [type |-> "model-request", call |-> i, resource |-> r, detail |-> "none"]
Outcome(i, r) == [type |-> "model-outcome", call |-> i, resource |-> r, detail |-> "none"]
Failure(i, r, why) == [type |-> "model-failure", call |-> i, resource |-> r, detail |-> why]
Snapshot(r, cause) ==
  [type |-> "terminal-snapshot", call |-> 0, resource |-> r, detail |-> cause]

Header == [type |-> "header", call |-> 0, resource |-> Root, detail |-> "none"]
FooterRecord == [type |-> "footer", call |-> 0, resource |-> Root, detail |-> "none"]

\* How a line reached the file: "garbage" is not JSON, "misshapen" is of another shape.
Forms == {"good", "misshapen", "garbage"}
Line(e, n, form) == [event |-> e, seq |-> n, form |-> form]

\* counts: the records of each type among the events es.
Tally(es) == [k \in Types |-> Cardinality({n \in DOMAIN es : es[n].type = k})]

\* What the first n lines of the log record.
Recorded(n) == [m \in 1..n |-> log[m].event]

NoVerdict == [prefixValid |-> FALSE, complete |-> FALSE, reason |-> "none"]
Refused(why) == [prefixValid |-> FALSE, complete |-> FALSE, reason |-> why]

TypeOK ==
  /\ nextSeq \in Nat /\ tail \in BOOLEAN /\ oversized \in BOOLEAN
  /\ recorder \in {"off", "open", "sealed", "killed"}
  /\ deviations \in 0..MaxDeviations
  /\ at \in 0..Len(log)
  /\ \A n \in 1..Len(requests) : requests[n] \in (Nat \ {0}) \X Resources
  /\ closures \subseteq {call[1] : call \in Range(requests)}
  /\ terminals \subseteq resources /\ resources \subseteq Resources
  /\ rootCause \in Causes \cup {"none"} /\ rootFailure \in FailureReasons \cup {"none"}
  /\ verdict.prefixValid \in BOOLEAN /\ verdict.complete \in BOOLEAN

Init ==
  /\ events = <<>> /\ log = <<>> /\ nextSeq = 0 /\ invocations = <<>>
  /\ tail = FALSE /\ oversized = FALSE
  /\ recorder = "off" /\ deviations = 0
  /\ at = 0 /\ requests = <<>> /\ closures = {} /\ terminals = {} /\ resources = {}
  /\ rootCause = "none" /\ rootFailure = "none"
  /\ verdict = NoVerdict

-----------------------------------------------------------------------------
(* The recorder. *)

Started(i) == \E e \in Range(events) : e.type = "model-request" /\ e.call = i
Ended(i) ==
  \E e \in Range(events) : e.type \in {"model-outcome", "model-failure"} /\ e.call = i
Terminated(r) == \E e \in Range(events) : e.type = "terminal-snapshot" /\ e.resource = r

\* The n-th event is the last result of a call of r.
IsResultOf(e, r) == e.type \in {"model-outcome", "model-failure"} /\ e.resource = r
LastResult(n, r) ==
  /\ IsResultOf(events[n], r)
  /\ \A m \in DOMAIN events : IsResultOf(events[m], r) => m <= n
EndsFailed(r) ==
  \E n \in DOMAIN events : LastResult(n, r) /\ events[n].type = "model-failure"

Open ==
  /\ recorder = "off"
  /\ recorder' = "open"
  /\ \/ log' = <<Line(Header, 0, "good")>> /\ UNCHANGED deviations
     \/ /\ deviations < MaxDeviations /\ deviations' = deviations + 1
        /\ log' = <<Line(Header, 0, "misshapen")>>
  /\ nextSeq' = 1
  /\ UNCHANGED <<events, invocations, tail, oversized, scanVars, verdict>>

Write(e, form) ==
  /\ log' = Append(log, Line(e, nextSeq, form)) /\ nextSeq' = nextSeq + 1
  /\ invocations' = IF e.type = "model-request" THEN Append(invocations, e.call)
                                               ELSE invocations

\* The event e is recorded; or, as a deviation, its record is lost before or after it
\* took its sequence number, or written in another form.
Record(e) ==
  /\ recorder = "open" /\ Len(events) < MaxEvents
  /\ events' = Append(events, e)
  /\ \/ Write(e, "good") /\ UNCHANGED deviations
     \/ /\ deviations < MaxDeviations /\ deviations' = deviations + 1
        /\ \/ UNCHANGED <<log, invocations>> /\ nextSeq' \in {nextSeq, nextSeq + 1}
           \/ \E form \in {"misshapen", "garbage"} : Write(e, form)
  /\ UNCHANGED <<tail, oversized, recorder, scanVars, verdict>>

\* A run calls the model, gets its results in any order, and ends; it ends with
\* "model-failure" only when the last result was one.
Call(r) == ~Terminated(r) /\ Record(Request(Tally(events)["model-request"] + 1, r))

Result(i) ==
  /\ Started(i) /\ ~Ended(i)
  /\ \E r \in Resources :
       /\ Request(i, r) \in Range(events) /\ ~Terminated(r)
       /\ Record(Outcome(i, r)) \/ \E why \in FailureReasons : Record(Failure(i, r, why))

Terminate(r) ==
  /\ ~Terminated(r)
  /\ \E cause \in Causes :
       /\ cause = "model-failure" => EndsFailed(r)
       /\ Record(Snapshot(r, cause))

\* The footer: what it expected to write and what it wrote.  A damaged one has another
\* shape, or a hash that does not match.
Seal ==
  /\ recorder = "open"
  /\ \E honest \in BOOLEAN, form \in {"good", "misshapen"} :
       /\ form = "misshapen" => deviations < MaxDeviations
       /\ deviations' = deviations + IF form = "misshapen" THEN 1 ELSE 0
       /\ log' = Append(log, [event |-> FooterRecord, seq |-> nextSeq, form |-> form,
                              complete |-> honest,
                              expectedCounts |-> Tally(events),
                              writtenCounts |-> Tally(Recorded(Len(log))),
                              invocations |-> invocations,
                              resources |-> {log[n].event.resource : n \in 2..Len(log)}])
  /\ nextSeq' = nextSeq + 1
  /\ recorder' = "sealed"
  /\ UNCHANGED <<events, invocations, tail, oversized, scanVars, verdict>>

\* The process is killed: it may leave part of a line, even of the header.
Kill ==
  /\ recorder \in {"off", "open"}
  /\ recorder' = "killed"
  /\ tail' \in BOOLEAN
  /\ oversized' \in {FALSE, log # <<>>}
  /\ UNCHANGED <<events, log, nextSeq, invocations, deviations, scanVars, verdict>>

-----------------------------------------------------------------------------
(* The inspection. *)

Inspecting == recorder \in {"sealed", "killed"} /\ verdict = NoVerdict

Return(v) == verdict' = v /\ UNCHANGED scanVars

\* Mutant: what follows the last newline is parsed as a record.
MalformedTail == tail \/ \E n \in 1..Len(log) : log[n].form = "garbage"

\* JSON.parse of a whole line throws.
Malformed == \E n \in 1..Len(log) : log[n].form = "garbage"

\* records[sequence].sequence !== sequence, over every record.
Gap == \E n \in 1..Len(log) : log[n].seq # n - 1

\* Up to the header.  Of an attempt that never wrote anything the file is missing or
\* has no whole line.
Begin ==
  /\ Inspecting /\ at = 0
  /\ IF log = <<>> /\ ~tail                             THEN Return(Refused("missing"))
     ELSE IF oversized                                  THEN Return(Refused("oversized"))
     ELSE IF Malformed                                  THEN Return(Refused("malformed-record"))
     ELSE IF Gap                                        THEN Return(Refused("sequence-gap"))
     ELSE IF log = <<>>                                 THEN Return(Refused("empty-prefix"))
     ELSE IF log[1].form # "good"                       THEN Return(Refused("invalid-header"))
     ELSE /\ at' = 1
          /\ UNCHANGED <<requests, closures, terminals, resources, rootCause, rootFailure,
                         verdict>>
  /\ UNCHANGED recorderVars

HasFooter == log[Len(log)].event.type = "footer"

\* Mutant: the body ends one record early.
LastBodyShort == IF HasFooter THEN Len(log) - 2 ELSE Len(log)

\* The index of the last record of the body.
LastBody == IF HasFooter THEN Len(log) - 1 ELSE Len(log)

Scanning == Inspecting /\ at > 0 /\ at < LastBody

Requested(i) == \E n \in 1..Len(requests) : requests[n][1] = i

\* A call is new.
ScanRequest(line) ==
  LET e == line.event IN
  IF line.form # "good" \/ Requested(e.call)
  THEN Return(Refused("invalid-model-request"))
  ELSE /\ requests' = Append(requests, <<e.call, e.resource>>)
       /\ resources' = resources \cup {e.resource}
       /\ at' = at + 1
       /\ UNCHANGED <<closures, terminals, rootCause, rootFailure, verdict>>

\* Mutant: the first failure of the root run is kept.
FailureKeptFirst(e) ==
  IF rootFailure = "none" /\ e.type = "model-failure" /\ e.resource = Root
  THEN e.detail ELSE rootFailure

\* The reason of the last failure of a call of the root run.
FailureAfter(e) ==
  IF e.type = "model-failure" /\ e.resource = Root THEN e.detail ELSE rootFailure

\* Mutant: a result need not belong to a call that was seen.
ScanAnyClosure(line) ==
  LET e == line.event IN
  IF line.form # "good" \/ e.call \in closures
  THEN Return(Refused("invalid-model-closure"))
  ELSE /\ closures' = closures \cup {e.call}
       /\ rootFailure' = FailureAfter(e)
       /\ at' = at + 1
       /\ UNCHANGED <<requests, terminals, resources, rootCause, verdict>>

\* A result belongs to a call of the same resource, once.
ScanClosure(line) ==
  LET e == line.event IN
  IF \/ line.form # "good" \/ e.call \in closures
     \/ <<e.call, e.resource>> \notin Range(requests)
  THEN Return(Refused("invalid-model-closure"))
  ELSE /\ closures' = closures \cup {e.call}
       /\ rootFailure' = FailureAfter(e)
       /\ at' = at + 1
       /\ UNCHANGED <<requests, terminals, resources, rootCause, verdict>>

\* A resource ends once.
ScanSnapshot(line) ==
  LET e == line.event IN
  IF line.form # "good" \/ e.resource \in terminals
  THEN Return(Refused("invalid-terminal-snapshot"))
  ELSE /\ terminals' = terminals \cup {e.resource}
       /\ resources' = resources \cup {e.resource}
       /\ rootCause' = IF e.resource = Root THEN e.detail ELSE rootCause
       /\ at' = at + 1
       /\ UNCHANGED <<requests, closures, rootFailure, verdict>>

\* One turn of the loop over the body.
Scan ==
  /\ Scanning
  /\ LET line == log[at + 1] IN
       CASE line.event.type = "model-request"                     -> ScanRequest(line)
         [] line.event.type \in {"model-outcome", "model-failure"} -> ScanClosure(line)
         [] line.event.type = "terminal-snapshot"                 -> ScanSnapshot(line)
  /\ UNCHANGED recorderVars

\* Every request has its result.
Paired ==
  /\ Len(requests) = Cardinality(closures)
  /\ \A n \in 1..Len(requests) : requests[n][1] \in closures

\* Mutant: only what was written is compared.
CountsMatchWritten(footer) == Tally(Recorded(at)) = footer.writtenCounts

\* counts, of the records scanned, against what the footer expected and wrote.
CountsMatch(footer) ==
  LET counts == Tally(Recorded(at)) IN
  counts = footer.expectedCounts /\ counts = footer.writtenCounts

\* The one-shot root is the only resource.
OnlyRoot(footer) == resources = footer.resources /\ resources = {Root}

IsComplete(footer) ==
  /\ footer.complete /\ ~tail
  /\ requests # <<>>
  /\ Paired
  /\ CountsMatch(footer)
  /\ [n \in 1..Len(requests) |-> requests[n][1]] = footer.invocations
  /\ OnlyRoot(footer)
  /\ Cardinality(terminals) = Cardinality(resources)
  /\ rootCause # "none"

\* After the loop.
Conclude ==
  /\ Inspecting /\ at > 0 /\ at >= LastBody
  /\ IF ~HasFooter
     THEN Return([prefixValid |-> TRUE, complete |-> FALSE,
                  reason |-> IF tail THEN "partial-tail" ELSE "missing-footer"])
     ELSE LET footer == log[Len(log)] IN
          IF footer.form # "good"
          THEN Return(Refused("invalid-footer"))
          ELSE Return([prefixValid |-> TRUE, complete |-> IsComplete(footer),
                       reason |-> IF IsComplete(footer) THEN "complete"
                                                        ELSE "incomplete-footer"])
  /\ UNCHANGED recorderVars

-----------------------------------------------------------------------------
Recorder ==
  \/ Open \/ Seal \/ Kill
  \/ \E r \in Resources : Call(r) \/ Terminate(r)
  \/ \E i \in 1..MaxEvents : Result(i)

Inspection == Begin \/ Scan \/ Conclude

Next == Recorder \/ Inspection

Spec == Init /\ [][Next]_vars

-----------------------------------------------------------------------------
(* Properties. *)

Returned == verdict # NoVerdict

\* An attempt is admitted as complete only if the file tells the whole story: nothing
\* that happened is missing from it, every call has its result, only the root run is
\* in it, and its end is the end the root run had (inspectAttemptEvidence, 1118-1165).
CompleteIsTheWholeStory ==
  verdict.complete =>
    /\ Recorded(Len(log)) = <<Header>> \o events \o <<FooterRecord>>
    /\ \A e \in Range(events) : e.type = "model-request" => Ended(e.call)
    /\ \A e \in Range(events) : e.resource = Root
    /\ Snapshot(Root, rootCause) \in Range(events)

\* The other way about: the whole log of a root run whose calls all ended and which
\* ended itself is admitted, unless the recorder itself calls it incomplete.
Whole ==
  /\ recorder = "sealed" /\ deviations = 0
  /\ log[Len(log)].complete
  /\ \E e \in Range(events) : e.type = "model-request"
  /\ \A e \in Range(events) : e.type = "model-request" => Ended(e.call)
  /\ \A e \in Range(events) : e.resource = Root
  /\ Terminated(Root)
WholeIsComplete == Returned /\ Whole => verdict.complete

\* A kill at any moment, in the middle of a line too, leaves a readable prefix: the
\* attempt is inconclusive for being cut off, never for being malformed.
CutIsReadable ==
  Returned /\ recorder = "killed" /\ deviations = 0 /\ log # <<>> /\ ~oversized =>
    verdict.prefixValid /\ verdict.reason \in {"missing-footer", "partial-tail"}

\* What the recovery planner takes for a provider transport failure: the last result of
\* the root run was one, not an earlier call that was answered later (plan-recovery,
\* classifyTaskRecovery, and rootModelFailureReason).
TransportIsTheLastWord ==
  verdict.complete /\ rootCause = "model-failure" /\ rootFailure = "transport" =>
    \E n \in DOMAIN events : LastResult(n, Root) /\ events[n].detail = "transport"

=============================================================================
