--------------------------- MODULE EvidenceProofs ----------------------------
(***************************************************************************)
(* Theorems about Evidence, for any resources, any number of events and of *)
(* deviations of the recorder.                                             *)
(*                                                                         *)
(* The argument: what happened obeys an order (EventsInv); the log is what *)
(* happened, or some type of record is counted fewer times in it than it   *)
(* happened (LogInv); and what the inspection has gathered is of the lines *)
(* it has read (ScanInv).  A footer whose counts agree with both then      *)
(* leaves nothing out.                                                     *)
(***************************************************************************)
EXTENDS Evidence, FiniteSetTheorems, TLAPS

Results == {"model-outcome", "model-failure"}

Numbers == Nat \ {0}
Event ==
  [type : {"model-request", "model-outcome"}, call : Numbers, resource : Resources,
   detail : {"none"}]
  \cup [type : {"model-failure"}, call : Numbers, resource : Resources, detail : FailureReasons]
  \cup [type : {"terminal-snapshot"}, call : {0}, resource : Resources, detail : Causes]

Lines == [event : Event \cup {Header}, seq : Nat, form : Forms]
Footers ==
  [event : {FooterRecord}, seq : Nat, form : Forms, complete : BOOLEAN,
   expectedCounts : [Types -> Nat], writtenCounts : [Types -> Nat], invocations : Seq(Nat),
   resources : SUBSET Resources]

\* How often each type has happened, and is recorded in the first n lines.
Happened(k) == Cardinality({n \in DOMAIN events : events[n].type = k})
Count(lines, n, k) == Cardinality({m \in 1..n : lines[m].event.type = k})

\* The last line that is no footer.
End == IF recorder = "sealed" THEN Len(log) - 1 ELSE Len(log)

Refusals ==
  {"missing", "oversized", "malformed-record", "sequence-gap", "empty-prefix", "invalid-header",
   "invalid-model-request", "invalid-model-closure", "invalid-terminal-snapshot",
   "invalid-footer"}
Reasons ==
  Refusals \cup {"none", "partial-tail", "missing-footer", "complete", "incomplete-footer"}

Typed ==
  /\ events \in Seq(Event)
  /\ log \in Seq(Lines \cup Footers)
  /\ nextSeq \in Nat /\ invocations \in Seq(Nat)
  /\ tail \in BOOLEAN /\ oversized \in BOOLEAN
  /\ recorder \in {"off", "open", "sealed", "killed"}
  /\ deviations \in 0..MaxDeviations
  /\ at \in Nat
  /\ requests \in Seq(Numbers \X Resources)
  /\ rootCause \in Causes \cup {"none"} /\ rootFailure \in FailureReasons \cup {"none"}
  /\ verdict \in [prefixValid : BOOLEAN, complete : BOOLEAN, reason : Reasons]

\* Calls are numbered; a result is of an earlier call of its resource, once; nothing of a
\* resource follows its snapshot; and it ends failed only after a failure.
Numbered ==
  /\ \A n \in DOMAIN events : events[n].type = "model-request" =>
       events[n].call \in 1..Happened("model-request")
  /\ \A m, n \in DOMAIN events :
       m # n /\ events[m].type = "model-request" /\ events[n].type = "model-request" =>
         events[m].call # events[n].call
Answered ==
  /\ \A n \in DOMAIN events : events[n].type \in Results =>
       \E m \in DOMAIN events : m < n /\ events[m] = Request(events[n].call, events[n].resource)
  /\ \A m, n \in DOMAIN events :
       m # n /\ events[m].type \in Results /\ events[n].type \in Results =>
         events[m].call # events[n].call
LastOfAll(n) ==
  /\ \A m \in DOMAIN events : n < m => events[m].resource # events[n].resource
  /\ events[n].detail = "model-failure" => EndsFailed(events[n].resource)
Ending == \A n \in DOMAIN events : events[n].type = "terminal-snapshot" => LastOfAll(n)
EventsInv == Numbered /\ Answered /\ Ending

\* The log is what happened.
Same == End = Len(events) + 1 /\ \A n \in DOMAIN events : log[n + 1].event = events[n]

\* Where a record is lost, its type is counted fewer times than it happened.
Kept ==
  /\ log = <<>> => events = <<>>
  /\ \A k \in Types : Count(log, End, k) <= Happened(k)
  /\ log = <<>> \/ Same \/ \E k \in Types : Count(log, End, k) < Happened(k)

Shape ==
  /\ recorder = "off" => log = <<>>
  /\ recorder \in {"open", "sealed"} => log # <<>>
  /\ recorder # "killed" => ~tail /\ ~oversized
  /\ log # <<>> => log[1].event = Header
  /\ \A n \in 2..End : log[n].event \in Event

\* Without deviations every record is kept and as it should be.
Clean ==
  deviations = 0 =>
    /\ log = <<>> \/ Same
    /\ \A k \in Types : Count(log, End, k) = Happened(k)
    /\ nextSeq = Len(log)
    /\ \A n \in 1..Len(log) : log[n].form = "good" /\ log[n].seq = n - 1

Listed ==
  /\ Len(invocations) = Count(log, End, "model-request")
  /\ \A n \in 2..End : log[n].event.type = "model-request" =>
       invocations[Count(log, n, "model-request")] = log[n].event.call

Sealed ==
  recorder = "sealed" =>
    /\ Len(log) >= 2
    /\ log[Len(log)].event = FooterRecord
    /\ log[Len(log)].expectedCounts = Tally(events)
    /\ log[Len(log)].writtenCounts = Tally(Recorded(End))
    /\ log[Len(log)].invocations = invocations
    /\ log[Len(log)].resources = {log[n].event.resource : n \in 2..End}

LogInv == Kept /\ Shape /\ Clean /\ Listed /\ Sealed

\* What has been gathered is of the lines 2..at.
Idle ==
  /\ requests = <<>> /\ closures = {} /\ terminals = {} /\ resources = {}
  /\ rootCause = "none" /\ rootFailure = "none"
Begun ==
  at > 0 =>
    /\ recorder \in {"sealed", "killed"} /\ log # <<>> /\ at \in 1..End
    /\ ~oversized /\ log[1].form = "good"
Requests ==
  /\ \A n \in 1..Len(requests) :
       \E m \in 2..at : /\ log[m].event.type = "model-request"
                       /\ requests[n] = <<log[m].event.call, log[m].event.resource>>
  /\ \A m \in 2..at : log[m].event.type = "model-request" =>
       \E n \in 1..Len(requests) : requests[n] = <<log[m].event.call, log[m].event.resource>>
Ids == {requests[n][1] : n \in 1..Len(requests)}
Order ==
  /\ Len(requests) = Count(log, at, "model-request")
  /\ \A n \in 1..Len(requests) : requests[n][1] = invocations[n]
  /\ IsFiniteSet(Ids) /\ Cardinality(Ids) = Len(requests)
Closures ==
  /\ \A c \in closures : \E m \in 2..at : log[m].event.type \in Results /\ log[m].event.call = c
  /\ \A m \in 2..at : log[m].event.type \in Results =>
       /\ log[m].event.call \in closures
       /\ \E n \in 1..Len(requests) : requests[n] = <<log[m].event.call, log[m].event.resource>>
Ends ==
  /\ terminals = {r \in Resources : \E m \in 2..at : /\ log[m].event.type = "terminal-snapshot"
                                                     /\ log[m].event.resource = r}
  /\ resources = {log[m].event.resource : m \in 2..at}
  /\ rootCause = "none" => Root \notin terminals
  /\ rootCause # "none" => \E m \in 2..at : log[m].event = Snapshot(Root, rootCause)

\* The m-th line is a failure of the root run.
RootFails(m) == log[m].event.type = "model-failure" /\ log[m].event.resource = Root
Failing ==
  /\ rootFailure = "none" => \A m \in 2..at : ~RootFails(m)
  /\ rootFailure # "none" =>
       \E m \in 2..at : /\ RootFails(m) /\ log[m].event.detail = rootFailure
                        /\ \A j \in 2..at : RootFails(j) => j <= m

ScanInv ==
  /\ at = 0 => Idle
  /\ recorder \in {"off", "open"} => at = 0
  /\ Begun /\ Requests /\ Order /\ Closures /\ Ends /\ Failing

VerdictInv ==
  /\ Returned => recorder \in {"sealed", "killed"}
  /\ CompleteIsTheWholeStory /\ WholeIsComplete /\ CutIsReadable /\ TransportIsTheLastWord

Inv == Typed /\ EventsInv /\ LogInv /\ ScanInv /\ VerdictInv

-----------------------------------------------------------------------------
(* Counting. *)

\* One more line.
LEMMA CountStep ==
  ASSUME NEW s, NEW n \in Nat, NEW k
  PROVE  /\ Count(s, n, k) \in Nat /\ Count(s, 0, k) = 0
         /\ Count(s, n + 1, k) = Count(s, n, k) + IF s[n + 1].event.type = k THEN 1 ELSE 0
<1> DEFINE Hits(i) == {m \in 1..i : s[m].event.type = k}
<1>1. IsFiniteSet(1..n) /\ Hits(n) \in SUBSET (1..n)
  BY FS_Interval
<1>2. IsFiniteSet(Hits(n)) /\ Cardinality(Hits(n)) \in Nat
  BY <1>1, FS_Subset, FS_CardinalityType
<1>3. Hits(0) = {} /\ Count(s, 0, k) = 0
  BY FS_EmptySet DEF Count
<1>4. CASE s[n + 1].event.type = k
  <2>1. Hits(n + 1) = Hits(n) \cup {n + 1} /\ n + 1 \notin Hits(n)
    BY <1>4
  <2> QED
    BY <1>2, <1>3, <1>4, <2>1, FS_AddElement DEF Count
<1>5. CASE s[n + 1].event.type # k
  <2>1. Hits(n + 1) = Hits(n)
    BY <1>5
  <2>2. Count(s, n + 1, k) = Count(s, n, k) /\ Count(s, n, k) \in Nat
    BY <1>2, <2>1 DEF Count
  <2> QED
    BY <1>3, <1>5, <2>2
<1> QED
  BY <1>4, <1>5

\* The same of lines that follow those of s.
LEMMA CountAppended ==
  ASSUME NEW s, NEW z, NEW n \in Nat, NEW next, next = n + 1, NEW k,
         \A m \in 1..n : z[m].event = s[m].event
  PROVE  /\ Count(s, n, k) \in Nat
         /\ z[next].event.type = k => Count(z, next, k) = Count(s, n, k) + 1
         /\ z[next].event.type # k => Count(z, next, k) = Count(s, n, k)
<1>1. Count(z, n, k) = Count(s, n, k)
  <2>1. {m \in 1..n : z[m].event.type = k} = {m \in 1..n : s[m].event.type = k}
    OBVIOUS
  <2> QED
    BY <2>1 DEF Count
<1>2. /\ Count(z, n, k) \in Nat
      /\ Count(z, n + 1, k) = Count(z, n, k) + IF z[n + 1].event.type = k THEN 1 ELSE 0
  BY CountStep
<1> QED
  BY <1>1, <1>2

\* Later lines count more.
LEMMA CountMonotone ==
  ASSUME NEW s, NEW m \in Nat, NEW n \in Nat, m <= n, NEW k
  PROVE  Count(s, m, k) <= Count(s, n, k)
<1>1. {i \in 1..m : s[i].event.type = k} \in SUBSET {i \in 1..n : s[i].event.type = k}
  OBVIOUS
<1>2. IsFiniteSet({i \in 1..n : s[i].event.type = k})
  <2>1. IsFiniteSet(1..n)
    BY FS_Interval
  <2> QED
    BY <2>1, FS_Subset
<1> QED
  BY <1>1, <1>2, FS_Subset DEF Count

\* Lines that stay are counted as before.
LEMMA CountKeeps ==
  ASSUME NEW s, NEW z, NEW n \in Nat, NEW k, \A m \in 1..n : z[m].event = s[m].event
  PROVE  Count(z, n, k) = Count(s, n, k)
<1>1. {m \in 1..n : z[m].event.type = k} = {m \in 1..n : s[m].event.type = k}
  OBVIOUS
<1> QED
  BY <1>1 DEF Count

\* One more event.
LEMMA HappenedStep ==
  ASSUME events \in Seq(Event), NEW e \in Event, events' = Append(events, e), NEW k
  PROVE  /\ Happened(k) \in Nat
         /\ Happened(k)' = Happened(k) + IF e.type = k THEN 1 ELSE 0
<1> DEFINE Hits == {n \in DOMAIN events : events[n].type = k}
           After == {n \in DOMAIN events' : events'[n].type = k}
<1>1. IsFiniteSet(1..Len(events))
  BY FS_Interval
<1>2. IsFiniteSet(Hits) /\ Cardinality(Hits) \in Nat
  BY <1>1, FS_Subset, FS_CardinalityType
<1>3. DOMAIN events' = DOMAIN events \cup {Len(events) + 1}
  OBVIOUS
<1>4. \A n \in DOMAIN events : events'[n] = events[n]
  OBVIOUS
<1>5. events'[Len(events) + 1] = e /\ Len(events) + 1 \notin DOMAIN events
  OBVIOUS
<1>6. CASE e.type = k
  <2>1. After = Hits \cup {Len(events) + 1} /\ Len(events) + 1 \notin Hits
    BY <1>3, <1>4, <1>5, <1>6
  <2> QED
    BY <1>2, <1>6, <2>1, FS_AddElement DEF Happened
<1>7. CASE e.type # k
  <2>1. After = Hits
    BY <1>3, <1>4, <1>5, <1>7
  <2>2. Happened(k)' = Happened(k) /\ Happened(k) \in Nat
    BY <1>2, <2>1 DEF Happened
  <2> QED
    BY <1>7, <2>2
<1> QED
  BY <1>6, <1>7

\* What has happened can be counted.
LEMMA HappenedType ==
  ASSUME events \in Seq(Event), NEW k
  PROVE  Happened(k) \in Nat
<1>1. IsFiniteSet(1..Len(events))
  BY FS_Interval
<1>2. {n \in DOMAIN events : events[n].type = k} \in SUBSET (1..Len(events))
  OBVIOUS
<1> QED
  BY <1>1, <1>2, FS_Subset, FS_CardinalityType DEF Happened

\* The tallies of the specification are these counts.
LEMMA TallyIsCount ==
  ASSUME NEW n \in Nat
  PROVE  Tally(Recorded(n)) = [k \in Types |-> Count(log, n, k)]
<1>1. \A k \in Types : {m \in DOMAIN Recorded(n) : Recorded(n)[m].type = k}
                         = {m \in 1..n : log[m].event.type = k}
  BY DEF Recorded
<1> QED
  BY <1>1 DEF Tally, Count

\* The expected counts of a footer are what happened.
LEMMA TallyIsHappened == Tally(events) = [k \in Types |-> Happened(k)]
  BY DEF Tally, Happened

-----------------------------------------------------------------------------
(* What happens. *)

\* One more event.
LEMMA Appended ==
  ASSUME events \in Seq(Event), NEW e \in Event, events' = Append(events, e)
  PROVE  /\ events' \in Seq(Event) /\ Len(events) \in Nat /\ Len(events') = Len(events) + 1
         /\ DOMAIN events = 1..Len(events) /\ DOMAIN events' = 1..(Len(events) + 1)
         /\ \A n \in DOMAIN events : events'[n] = events[n] /\ events[n] \in Event
         /\ events'[Len(events) + 1] = e
  OBVIOUS

\* Only a result changes how a resource ends.
LEMMA EndsFailedKeeps ==
  ASSUME events \in Seq(Event), NEW e \in Event, events' = Append(events, e),
         NEW r, e.type \in Results => e.resource # r, EndsFailed(r)
  PROVE  EndsFailed(r)'
<1>1. PICK n \in DOMAIN events : LastResult(n, r) /\ events[n].type = "model-failure"
  BY DEF EndsFailed
<1>2. LastResult(n, r)'
  BY <1>1, Appended DEF LastResult, IsResultOf, Results
<1> QED
  BY <1>1, <1>2, Appended DEF EndsFailed

\* Ending is kept by an event of a resource that has not ended, if a snapshot is as it should be.
LEMMA EndingKeeps ==
  ASSUME events \in Seq(Event), Ending, NEW e \in Event, events' = Append(events, e),
         ~Terminated(e.resource),
         e.type = "terminal-snapshot" /\ e.detail = "model-failure" => EndsFailed(e.resource)
  PROVE  Ending'
<1> SUFFICES ASSUME NEW n \in DOMAIN events', events'[n].type = "terminal-snapshot"
             PROVE  LastOfAll(n)'
  BY DEF Ending
<1>1. CASE n \in DOMAIN events
  <2>1. LastOfAll(n) /\ events[n] \in Event /\ events'[n] = events[n]
    BY <1>1, Appended DEF Ending
  <2>2. events[n].resource # e.resource
    BY <1>1, <2>1, Appended DEF Terminated, Range
  <2>3. ASSUME NEW r, r = events[n].resource, EndsFailed(r) PROVE EndsFailed(r)'
    BY <2>2, <2>3, EndsFailedKeeps
  <2>4. events[n].detail = "model-failure" => EndsFailed(events[n].resource)'
    BY <2>1, <2>3 DEF LastOfAll
  <2>5. \A m \in DOMAIN events' : n < m => events'[m].resource # events'[n].resource
    BY <1>1, <2>1, <2>2, Appended DEF LastOfAll
  <2> QED
    BY <2>1, <2>4, <2>5 DEF LastOfAll, Snapshot
<1>2. CASE n = Len(events) + 1
  <2>1. ASSUME NEW r, r = e.resource, EndsFailed(r), e.type \notin Results PROVE EndsFailed(r)'
    BY <2>1, EndsFailedKeeps
  <2>2. events'[n] = e /\ e.type = "terminal-snapshot"
    BY <1>2, Appended
  <2>3. e.detail = "model-failure" => EndsFailed(events[n].resource)'
    BY <2>1, <2>2 DEF Results
  <2>4. \A m \in DOMAIN events' : ~ n < m
    BY <1>2, Appended
  <2> QED
    BY <2>2, <2>3, <2>4 DEF LastOfAll, Snapshot
<1> QED
  BY <1>1, <1>2, Appended

\* What an event may be.
Fits(e) ==
  /\ e \in Event /\ ~Terminated(e.resource)
  /\ e.type = "model-request" => e.call = Happened("model-request") + 1
  /\ e.type \in Results => ~Ended(e.call) /\ Request(e.call, e.resource) \in Range(events)
  /\ e.type = "terminal-snapshot" /\ e.detail = "model-failure" => EndsFailed(e.resource)

\* An event that fits keeps the order of events.
LEMMA FitsKeeps ==
  ASSUME events \in Seq(Event), EventsInv, NEW e, Fits(e), events' = Append(events, e)
  PROVE  EventsInv'
<1>1. e \in Event
  BY DEF Fits
<1>2. Ending'
  BY <1>1, EndingKeeps DEF Fits, EventsInv
<1>3. /\ Happened("model-request") \in Nat
      /\ Happened("model-request")'
           = Happened("model-request") + IF e.type = "model-request" THEN 1 ELSE 0
  BY <1>1, HappenedStep
<1>4. Numbered'
  <2>1. ASSUME NEW n \in DOMAIN events', events'[n].type = "model-request"
        PROVE  events'[n].call \in 1..Happened("model-request")'
    <3>1. CASE n \in DOMAIN events
      <4>1. events[n].call \in 1..Happened("model-request")
        BY <1>1, <2>1, <3>1, Appended DEF EventsInv, Numbered
      <4> QED
        BY <1>1, <1>3, <3>1, <4>1, Appended
    <3>2. CASE n = Len(events) + 1
      <4>1. events'[n] = e
        BY <1>1, <3>2, Appended
      <4> QED
        BY <1>3, <2>1, <4>1 DEF Fits
    <3> QED
      BY <1>1, <3>1, <3>2, Appended
  <2>2. ASSUME NEW m \in DOMAIN events', NEW n \in DOMAIN events', m < n,
               events'[m].type = "model-request", events'[n].type = "model-request"
        PROVE  events'[m].call # events'[n].call
    <3>1. m \in DOMAIN events
      BY <1>1, <2>2, Appended
    <3>2. events'[m] = events[m] /\ events[m].call \in 1..Happened("model-request")
      BY <1>1, <2>2, <3>1, Appended DEF EventsInv, Numbered
    <3>3. CASE n \in DOMAIN events
      BY <1>1, <2>2, <3>1, <3>3, Appended DEF EventsInv, Numbered
    <3>4. CASE n = Len(events) + 1
      BY <1>1, <1>3, <2>2, <3>2, <3>4, Appended DEF Fits
    <3> QED
      BY <1>1, <3>3, <3>4, Appended
  <2>3. ASSUME NEW m \in DOMAIN events', NEW n \in DOMAIN events', m # n,
               events'[m].type = "model-request", events'[n].type = "model-request"
        PROVE  events'[m].call # events'[n].call
    <3>1. m < n \/ n < m
      BY <1>1, <2>3, Appended
    <3> QED
      BY <3>1, <2>2, <2>3
  <2> QED
    BY <2>1, <2>3 DEF Numbered
<1>5. Answered'
  <2>1. ASSUME NEW n \in DOMAIN events', events'[n].type \in Results
        PROVE  \E m \in DOMAIN events' :
                 m < n /\ events'[m] = Request(events'[n].call, events'[n].resource)
    <3>1. CASE n \in DOMAIN events
      <4>1. events'[n] = events[n]
        BY <1>1, <3>1, Appended
      <4>2. PICK m \in DOMAIN events :
              m < n /\ events[m] = Request(events[n].call, events[n].resource)
        BY <2>1, <3>1, <4>1 DEF EventsInv, Answered
      <4> QED
        BY <1>1, <4>1, <4>2, Appended
    <3>2. CASE n = Len(events) + 1
      <4>1. events'[n] = e
        BY <1>1, <3>2, Appended
      <4>2. PICK m \in DOMAIN events : events[m] = Request(e.call, e.resource)
        BY <2>1, <4>1 DEF Fits, Range
      <4> QED
        BY <1>1, <3>2, <4>1, <4>2, Appended
    <3> QED
      BY <1>1, <3>1, <3>2, Appended
  <2>2. ASSUME NEW m \in DOMAIN events', NEW n \in DOMAIN events', m < n,
               events'[m].type \in Results, events'[n].type \in Results
        PROVE  events'[m].call # events'[n].call
    <3>1. m \in DOMAIN events /\ events'[m] = events[m]
      BY <1>1, <2>2, Appended
    <3>2. CASE n \in DOMAIN events
      BY <1>1, <2>2, <3>1, <3>2, Appended DEF EventsInv, Answered
    <3>3. CASE n = Len(events) + 1
      <4>1. events'[n] = e /\ ~Ended(e.call)
        BY <1>1, <2>2, <3>3, Appended DEF Fits
      <4> QED
        BY <2>2, <3>1, <4>1 DEF Ended, Range, Results
    <3> QED
      BY <1>1, <3>2, <3>3, Appended
  <2>3. ASSUME NEW m \in DOMAIN events', NEW n \in DOMAIN events', m # n,
               events'[m].type \in Results, events'[n].type \in Results
        PROVE  events'[m].call # events'[n].call
    <3>1. m < n \/ n < m
      BY <1>1, <2>3, Appended
    <3> QED
      BY <3>1, <2>2, <2>3
  <2> QED
    BY <2>1, <2>3 DEF Answered
<1> QED
  BY <1>2, <1>4, <1>5 DEF EventsInv

\* Every event the recorder may record fits.
LEMMA CallFits ==
  ASSUME events \in Seq(Event), NEW r \in Resources, Call(r)
  PROVE  \E e \in Event : Fits(e) /\ Record(e)
<1> DEFINE e == Request(Happened("model-request") + 1, r)
<1>1. Tally(events)["model-request"] = Happened("model-request")
  BY TallyIsHappened DEF Types
<1>2. Happened("model-request") \in Nat
  BY HappenedType
<1>3. e \in Event
  BY <1>2 DEF Request, Event, Numbers
<1>4. /\ e.type = "model-request" /\ e.resource = r /\ e = Request(e.call, e.resource)
      /\ e.call = Happened("model-request") + 1
  BY DEF Request
<1> QED
  BY <1>1, <1>3, <1>4 DEF Call, Fits, Results

\* A result comes once, after its call and before the end of its run.
LEMMA ResultFits ==
  ASSUME events \in Seq(Event), NEW i \in 1..MaxEvents, Result(i)
  PROVE  \E e \in Event : Fits(e) /\ Record(e)
<1>1. PICK r \in Resources :
        /\ Request(i, r) \in Range(events) /\ ~Terminated(r)
        /\ Record(Outcome(i, r)) \/ \E why \in FailureReasons : Record(Failure(i, r, why))
  BY DEF Result
<1>2. i \in Nat /\ ~Ended(i)
  BY EventsAssumption DEF Result
<1>3. CASE Record(Outcome(i, r))
  <2>1. Outcome(i, r) \in Event
    BY <1>2 DEF Outcome, Event, Numbers
  <2> QED
    BY <1>1, <1>2, <1>3, <2>1 DEF Outcome, Fits
<1>4. CASE \E why \in FailureReasons : Record(Failure(i, r, why))
  <2>1. PICK why \in FailureReasons : Record(Failure(i, r, why))
    BY <1>4
  <2>2. Failure(i, r, why) \in Event
    BY <1>2 DEF Failure, Event, Numbers
  <2> QED
    BY <1>1, <1>2, <2>1, <2>2 DEF Failure, Fits
<1> QED
  BY <1>1, <1>3, <1>4

\* A run ends once, and as failed only if its last result was a failure.
LEMMA TerminateFits ==
  ASSUME events \in Seq(Event), NEW r \in Resources, Terminate(r)
  PROVE  \E e \in Event : Fits(e) /\ Record(e)
<1>1. PICK cause \in Causes : /\ cause = "model-failure" => EndsFailed(r)
                              /\ Record(Snapshot(r, cause))
  BY DEF Terminate
<1>2. Snapshot(r, cause) \in Event
  BY DEF Snapshot, Event, Numbers
<1> QED
  BY <1>1, <1>2 DEF Terminate, Snapshot, Fits, Results

-----------------------------------------------------------------------------
(* What is logged. *)

\* A line is added.
LEMMA LogAppended ==
  ASSUME log \in Seq(Lines \cup Footers), NEW line \in Lines \cup Footers,
         log' = Append(log, line)
  PROVE  /\ log' \in Seq(Lines \cup Footers) /\ Len(log) \in Nat /\ Len(log') = Len(log) + 1
         /\ log' # <<>> /\ log'[Len(log) + 1] = line
         /\ \A n \in 1..Len(log) : log'[n] = log[n]
  OBVIOUS

\* An event is written, in one form or another.
LEMMA WriteKeeps ==
  ASSUME Typed, LogInv, recorder = "open", UNCHANGED <<recorder, tail, oversized>>,
         NEW e, Fits(e), events' = Append(events, e), NEW form \in Forms, Write(e, form),
         deviations' \in Nat, deviations' = 0 => deviations = 0 /\ form = "good"
  PROVE  LogInv'
<1> DEFINE L == Len(log)
<1>1. e \in Event /\ e.type \in Types
  BY DEF Fits, Event, Types
<1>2. Line(e, nextSeq, form) \in Lines /\ Line(e, nextSeq, form).event = e
  BY <1>1 DEF Typed, Line, Lines
<1>3. /\ log \in Seq(Lines \cup Footers) /\ L \in Nat /\ L > 0 /\ End = L /\ End' = L + 1
      /\ log # <<>>
  BY <1>2, LogAppended DEF Typed, End, Write, LogInv, Shape
<1>4. /\ Len(log') = L + 1 /\ log'[L + 1] = Line(e, nextSeq, form) /\ log' # <<>>
      /\ \A n \in 1..L : log'[n] = log[n]
  BY <1>2, <1>3, LogAppended DEF Write
<1>5. events \in Seq(Event)
  BY DEF Typed
<1> HIDE DEF L
<1>6. ASSUME NEW k
      PROVE  /\ Count(log, L, k) \in Nat /\ Happened(k) \in Nat
             /\ Count(log', L + 1, k) = Count(log, L, k) + IF e.type = k THEN 1 ELSE 0
             /\ Happened(k)' = Happened(k) + IF e.type = k THEN 1 ELSE 0
  <2>1. \A m \in 1..L : log'[m].event = log[m].event
    BY <1>4
  <2>2. log'[L + 1].event.type = e.type
    BY <1>2, <1>4
  <2>3. /\ Count(log, L, k) \in Nat
        /\ log'[L + 1].event.type = k => Count(log', L + 1, k) = Count(log, L, k) + 1
        /\ log'[L + 1].event.type # k => Count(log', L + 1, k) = Count(log, L, k)
    BY <1>3, <2>1, CountAppended
  <2> QED
    BY <1>1, <1>5, <2>2, <2>3, HappenedStep
<1>7. Same => Same'
  <2> SUFFICES ASSUME Same PROVE Same'
    OBVIOUS
  <2>1. /\ Len(events) \in Nat /\ Len(events') = Len(events) + 1
        /\ DOMAIN events = 1..Len(events) /\ DOMAIN events' = 1..(Len(events) + 1)
        /\ \A n \in DOMAIN events : events'[n] = events[n]
        /\ events'[Len(events) + 1] = e
    BY <1>1, <1>5, Appended
  <2>2. L = Len(events) + 1 /\ \A n \in DOMAIN events : log[n + 1].event = events[n]
    BY <1>3 DEF Same
  <2>3. ASSUME NEW n \in DOMAIN events' PROVE log'[n + 1].event = events'[n]
    <3>1. CASE n \in DOMAIN events
      <4>1. n + 1 \in 1..L
        BY <2>1, <2>2, <3>1
      <4> QED
        BY <1>4, <2>1, <2>2, <3>1, <4>1
    <3>2. CASE n = Len(events) + 1
      BY <1>2, <1>4, <2>1, <2>2, <3>2
    <3> QED
      BY <2>1, <3>1, <3>2
  <2> QED
    BY <1>3, <2>1, <2>2, <2>3 DEF Same
<1>8. Kept'
  <2>1. ASSUME NEW k \in Types PROVE Count(log', L + 1, k) <= Happened(k)'
    BY <1>3, <1>6 DEF LogInv, Kept
  <2>2. ASSUME NEW k \in Types, Count(log, L, k) < Happened(k)
        PROVE  Count(log', L + 1, k) < Happened(k)'
    BY <1>6, <2>2
  <2> QED
    BY <1>3, <1>4, <1>7, <2>1, <2>2 DEF LogInv, Kept
<1>9. Shape'
  BY <1>1, <1>2, <1>3, <1>4 DEF LogInv, Shape
<1>10. Clean'
  <2> SUFFICES ASSUME deviations' = 0
               PROVE  /\ Same' /\ nextSeq' = L + 1
                      /\ \A k \in Types : Count(log', L + 1, k) = Happened(k)'
                      /\ \A n \in 1..(L + 1) : log'[n].form = "good" /\ log'[n].seq = n - 1
    BY <1>3, <1>4 DEF Clean
  <2>1. Same /\ nextSeq = L /\ \A n \in 1..L : log[n].form = "good" /\ log[n].seq = n - 1
    BY <1>3 DEF LogInv, Clean, L
  <2>2. log'[L + 1].form = "good" /\ log'[L + 1].seq = L
    BY <1>4, <2>1 DEF Line
  <2>3. nextSeq' = L + 1
    BY <2>1 DEF Write
  <2>4. \A k \in Types : Count(log', L + 1, k) = Happened(k)'
    BY <1>3, <1>6 DEF LogInv, Clean
  <2>5. ASSUME NEW n \in 1..(L + 1) PROVE log'[n].form = "good" /\ log'[n].seq = n - 1
    <3>1. CASE n \in 1..L
      BY <1>4, <2>1, <3>1
    <3>2. CASE n = L + 1
      BY <1>3, <2>2, <3>2
    <3> QED
      BY <1>3, <3>1, <3>2
  <2> QED
    BY <1>7, <2>1, <2>3, <2>4, <2>5
<1>11. Listed'
  <2>1. /\ invocations \in Seq(Nat) /\ Len(invocations) = Count(log, L, "model-request")
        /\ \A n \in 2..L : log[n].event.type = "model-request" =>
             invocations[Count(log, n, "model-request")] = log[n].event.call
    BY <1>3 DEF Typed, LogInv, Listed
  <2>2. invocations' = IF e.type = "model-request" THEN Append(invocations, e.call)
                                                   ELSE invocations
    BY DEF Write
  <2>3. e.call \in Nat
    BY <1>1 DEF Event, Numbers
  <2>4. Len(invocations') = Count(log', L + 1, "model-request")
    BY <1>6, <2>1, <2>2, <2>3
  <2>5. ASSUME NEW n \in 2..L, log'[n].event.type = "model-request"
        PROVE  invocations'[Count(log', n, "model-request")] = log'[n].event.call
    <3>1. n - 1 \in Nat /\ n \in Nat /\ n <= L /\ log'[n] = log[n]
      BY <1>3, <1>4
    <3>2. Count(log', n, "model-request") = Count(log, n, "model-request")
      BY <1>3, <1>4, <3>1, CountKeeps
    <3>3. Count(log, n, "model-request") <= Count(log, L, "model-request")
      BY <1>3, <3>1, CountMonotone
    <3>4. /\ Count(log, n - 1, "model-request") \in Nat
          /\ Count(log, n - 1 + 1, "model-request") = Count(log, n - 1, "model-request") + 1
      BY <2>5, <3>1, CountStep
    <3>5. Count(log, n, "model-request") \in 1..Len(invocations)
      BY <2>1, <3>1, <3>3, <3>4
    <3> QED
      BY <2>1, <2>2, <2>3, <2>5, <3>1, <3>2, <3>5
  <2>6. e.type = "model-request" => invocations'[Count(log', L + 1, "model-request")] = e.call
    BY <1>6, <2>1, <2>2, <2>3
  <2>7. log'[L + 1].event = e
    BY <1>2, <1>4
  <2> QED
    BY <1>3, <2>4, <2>5, <2>6, <2>7 DEF Listed
<1>12. Sealed'
  BY DEF Sealed
<1> QED
  BY <1>8, <1>9, <1>10, <1>11, <1>12 DEF LogInv

\* An event is not written.
LEMMA LossKeeps ==
  ASSUME Typed, LogInv, recorder = "open",
         UNCHANGED <<log, invocations, recorder, tail, oversized>>,
         NEW e, Fits(e), events' = Append(events, e), deviations' = deviations + 1
  PROVE  LogInv'
<1>1. e \in Event /\ e.type \in Types
  BY DEF Fits, Event, Types
<1>2. End' = End /\ log # <<>> /\ Len(log) \in Nat /\ End = Len(log)
  BY DEF Typed, End, LogInv, Shape
<1>3. ASSUME NEW k
      PROVE  /\ Count(log, End, k)' = Count(log, End, k) /\ Count(log, End, k) \in Nat
             /\ Happened(k) \in Nat
             /\ Happened(k)' = Happened(k) + IF e.type = k THEN 1 ELSE 0
  <2>1. End \in Nat
    BY <1>2
  <2>2. Count(log, End, k) \in Nat
    BY <2>1, CountStep
  <2> QED
    BY <1>1, <1>2, <2>2, HappenedStep DEF Typed, Count
<1>4. Kept'
  <2>1. ASSUME NEW k \in Types PROVE Count(log, End, k)' <= Happened(k)'
    BY <1>3 DEF LogInv, Kept
  <2>2. Count(log, End, e.type)' < Happened(e.type)'
    <3>1. ASSUME NEW k \in Types, k = e.type PROVE Count(log, End, k)' < Happened(k)'
      BY <1>3, <3>1 DEF LogInv, Kept
    <3> QED
      BY <1>1, <3>1
  <2> QED
    BY <1>1, <1>2, <2>1, <2>2 DEF Kept
<1>5. Shape'
  BY <1>2 DEF LogInv, Shape
<1>6. Clean'
  BY DEF Clean, Typed
<1>7. Listed'
  BY <1>2, <1>3 DEF LogInv, Listed, Count
<1>8. Sealed'
  BY DEF Sealed
<1> QED
  BY <1>4, <1>5, <1>6, <1>7, <1>8 DEF LogInv

\* The header is written.
LEMMA OpenKeeps ==
  ASSUME Typed, LogInv, Open
  PROVE  Typed' /\ LogInv'
<1> PICK form \in Forms : log' = <<Line(Header, 0, form)>> /\ (deviations' = 0 => form = "good")
  BY DeviationsAssumption DEF Open, Forms, Typed
<1>1. Line(Header, 0, form) \in Lines /\ Line(Header, 0, form).event = Header
  BY DEF Line, Lines
<1>2. /\ log = <<>> /\ events = <<>> /\ recorder = "off" /\ recorder' = "open" /\ nextSeq' = 1
      /\ UNCHANGED <<events, invocations, tail, oversized>>
  BY DEF Open, LogInv, Shape, Kept
<1>3. Typed'
  BY <1>1, <1>2, DeviationsAssumption DEF Typed, Open, scanVars
<1>4. /\ Len(log') = 1 /\ log' # <<>> /\ log'[1].event = Header /\ log'[1].seq = 0
      /\ log'[1].form = form
  BY <1>1 DEF Line
<1>5. End' = 1 /\ End = 0
  BY <1>2, <1>4 DEF End, LogInv, Shape
<1>6. ASSUME NEW k \in Types
      PROVE  Count(log', 1, k) = 0 /\ Count(log, 0, k) = 0 /\ Happened(k) = 0
  <2>1. log'[1].event.type # k
    BY <1>4 DEF Header, Types
  <2>2. Count(log, 0, k) = 0
    BY CountStep
  <2>3. Count(log', 1, k) = 0
    <3>1. {m \in 1..1 : log'[m].event.type = k} = {}
      BY <2>1
    <3> QED
      BY <3>1, FS_EmptySet DEF Count
  <2>4. {n \in DOMAIN events : events[n].type = k} = {}
    BY <1>2
  <2> QED
    BY <2>2, <2>3, <2>4, FS_EmptySet DEF Happened
<1>7. Kept'
  <2>1. ASSUME NEW k \in Types PROVE Count(log', 1, k) <= Happened(k)'
    BY <1>2, <1>6 DEF Happened
  <2> QED
    BY <1>2, <1>4, <1>5, <2>1 DEF Kept, Same
<1>8. Shape'
  BY <1>2, <1>4, <1>5 DEF LogInv, Shape
<1>9. Clean'
  <2>1. \A k \in Types : Count(log', 1, k) = Happened(k)'
    BY <1>2, <1>6 DEF Happened
  <2> QED
    BY <1>2, <1>4, <1>5, <2>1 DEF Clean, Same
<1>10. Listed'
  BY <1>2, <1>5, <1>6 DEF LogInv, Listed, Types
<1>11. Sealed'
  BY <1>2 DEF Sealed
<1> QED
  BY <1>3, <1>7, <1>8, <1>9, <1>10, <1>11 DEF LogInv

\* The footer is written.
LEMMA SealKeeps ==
  ASSUME Typed, LogInv, Seal
  PROVE  Typed' /\ LogInv'
<1> DEFINE L == Len(log)
<1> PICK honest \in BOOLEAN, form \in {"good", "misshapen"} :
      /\ form = "misshapen" => deviations < MaxDeviations
      /\ deviations' = deviations + IF form = "misshapen" THEN 1 ELSE 0
      /\ log' = Append(log, [event |-> FooterRecord, seq |-> nextSeq, form |-> form,
                             complete |-> honest,
                             expectedCounts |-> Tally(events),
                             writtenCounts |-> Tally(Recorded(Len(log))),
                             invocations |-> invocations,
                             resources |-> {log[n].event.resource : n \in 2..Len(log)}])
  BY DEF Seal
<1> DEFINE footer == [event |-> FooterRecord, seq |-> nextSeq, form |-> form,
                      complete |-> honest,
                      expectedCounts |-> Tally(events),
                      writtenCounts |-> Tally(Recorded(Len(log))),
                      invocations |-> invocations,
                      resources |-> {log[n].event.resource : n \in 2..Len(log)}]
<1>1. /\ recorder = "open" /\ recorder' = "sealed" /\ nextSeq' = nextSeq + 1
      /\ UNCHANGED <<events, invocations, tail, oversized, scanVars, verdict>>
  BY DEF Seal
<1>2. log \in Seq(Lines \cup Footers) /\ L \in Nat /\ log # <<>> /\ L >= 1 /\ End = L
  BY <1>1 DEF Typed, End, LogInv, Shape
<1>3. Tally(events) \in [Types -> Nat] /\ Tally(Recorded(Len(log))) \in [Types -> Nat]
  <2>1. \A k \in Types : Count(log, L, k) \in Nat
    BY <1>2, CountStep
  <2>2. \A k \in Types : Happened(k) \in Nat
    BY HappenedType DEF Typed
  <2> QED
    BY <1>2, <2>1, <2>2, TallyIsCount, TallyIsHappened
<1>4. {log[n].event.resource : n \in 2..Len(log)} \in SUBSET Resources
  BY <1>2 DEF LogInv, Shape, Event
<1>5. footer \in Footers
  BY <1>3, <1>4 DEF Footers, Forms, Typed
<1>6. log' = Append(log, footer)
  OBVIOUS
<1>7. /\ footer.event = FooterRecord /\ footer.seq = nextSeq /\ footer.form = form
      /\ footer.expectedCounts = Tally(events)
      /\ footer.writtenCounts = Tally(Recorded(Len(log)))
      /\ footer.invocations = invocations
      /\ footer.resources = {log[n].event.resource : n \in 2..Len(log)}
  OBVIOUS
<1> HIDE DEF footer
<1>8. /\ log' \in Seq(Lines \cup Footers) /\ Len(log') = L + 1 /\ log' # <<>>
      /\ log'[L + 1] = footer /\ \A n \in 1..L : log'[n] = log[n]
  BY <1>2, <1>5, <1>6, LogAppended
<1>9. End' = L
  BY <1>1, <1>2, <1>8 DEF End
<1>10. Typed'
  <2>1. deviations' \in 0..MaxDeviations
    BY DeviationsAssumption DEF Typed
  <2> QED
    BY <1>1, <1>8, <2>1 DEF Typed, scanVars
<1> HIDE DEF L
<1>11. ASSUME NEW n \in Nat, n <= L, NEW k PROVE Count(log', n, k) = Count(log, n, k)
  <2>1. \A m \in 1..n : log'[m].event = log[m].event
    BY <1>2, <1>8, <1>11
  <2> QED
    BY <2>1, CountKeeps
<1>12. Same' <=> Same
  <2>1. events' = events /\ Len(events) \in Nat /\ DOMAIN events = 1..Len(events)
    BY <1>1 DEF Typed
  <2>2. ASSUME L = Len(events) + 1, NEW n \in DOMAIN events PROVE log'[n + 1] = log[n + 1]
    <3>1. n + 1 \in 1..L
      BY <2>1, <2>2
    <3> QED
      BY <1>8, <3>1
  <2> QED
    BY <1>2, <1>9, <2>1, <2>2 DEF Same
<1>13. Kept'
  <2>1. \A k : Happened(k)' = Happened(k)
    BY <1>1 DEF Happened
  <2>2. \A k : Count(log', L, k) = Count(log, L, k)
    BY <1>2, <1>11
  <2> QED
    BY <1>2, <1>8, <1>9, <1>12, <2>1, <2>2 DEF LogInv, Kept
<1>14. Shape'
  BY <1>1, <1>2, <1>8, <1>9 DEF LogInv, Shape
<1>15. Clean'
  <2> SUFFICES ASSUME deviations' = 0
               PROVE  /\ Same' /\ nextSeq' = L + 1
                      /\ \A k \in Types : Count(log', L, k) = Happened(k)'
                      /\ \A n \in 1..(L + 1) : log'[n].form = "good" /\ log'[n].seq = n - 1
    BY <1>8, <1>9 DEF Clean
  <2>1. deviations = 0 /\ form = "good"
    BY DEF Typed
  <2>2. Same /\ nextSeq = L /\ \A n \in 1..L : log[n].form = "good" /\ log[n].seq = n - 1
    BY <1>2, <2>1 DEF LogInv, Clean, L
  <2>3. \A k \in Types : Count(log', L, k) = Happened(k)'
    <3>1. \A k : Happened(k)' = Happened(k)
      BY <1>1 DEF Happened
    <3>2. \A k : Count(log', L, k) = Count(log, L, k)
      BY <1>2, <1>11
    <3> QED
      BY <1>2, <2>1, <3>1, <3>2 DEF LogInv, Clean
  <2>4. \A n \in 1..(L + 1) : log'[n].form = "good" /\ log'[n].seq = n - 1
    BY <1>2, <1>7, <1>8, <2>1, <2>2
  <2> QED
    BY <1>1, <1>2, <1>12, <2>2, <2>3, <2>4
<1>16. Listed'
  <2>1. \A n \in 2..L : Count(log', n, "model-request") = Count(log, n, "model-request")
    BY <1>2, <1>11
  <2>2. Count(log', L, "model-request") = Count(log, L, "model-request")
    BY <1>2, <1>11
  <2>3. \A n \in 2..L : log'[n] = log[n]
    BY <1>2, <1>8
  <2>4. /\ Len(invocations) = Count(log, L, "model-request")
        /\ \A n \in 2..L : log[n].event.type = "model-request" =>
             invocations[Count(log, n, "model-request")] = log[n].event.call
    BY <1>2 DEF LogInv, Listed
  <2>5. invocations' = invocations
    BY <1>1
  <2> QED
    BY <1>9, <2>1, <2>2, <2>3, <2>4, <2>5 DEF Listed
<1>17. Sealed'
  <2>2. Tally(Recorded(End))' = Tally(Recorded(L))
    <3>1. Recorded(End)' = Recorded(L)
      BY <1>2, <1>8, <1>9 DEF Recorded
    <3> QED
      BY <3>1 DEF Tally
  <2>3. Tally(events)' = Tally(events)
    BY <1>1 DEF Tally
  <2>4. {log[n].event.resource : n \in 2..End}' = {log[n].event.resource : n \in 2..L}
    BY <1>2, <1>8, <1>9
  <2>5. /\ footer.writtenCounts = Tally(Recorded(L))
        /\ footer.resources = {log[n].event.resource : n \in 2..L}
    BY <1>7 DEF L
  <2>6. log'[Len(log')] = footer /\ Len(log') >= 2
    BY <1>2, <1>8
  <2>7. invocations' = invocations /\ recorder' = "sealed"
    BY <1>1
  <2> QED
    BY <1>7, <2>2, <2>3, <2>4, <2>5, <2>6, <2>7 DEF Sealed
<1> QED
  BY <1>10, <1>13, <1>14, <1>15, <1>16, <1>17 DEF LogInv

-----------------------------------------------------------------------------
(* The steps of the recorder. *)

\* Nothing happened.
LEMMA EventsStay ==
  ASSUME EventsInv, UNCHANGED events
  PROVE  EventsInv'
  BY DEF EventsInv, Numbered, Answered, Ending, LastOfAll, EndsFailed, LastResult, IsResultOf,
         Happened

\* Nothing was written.
LEMMA LogStays ==
  ASSUME LogInv, End' = End, UNCHANGED <<events, log, nextSeq, invocations, deviations>>,
         recorder' # "off" \/ recorder' = recorder,
         recorder' \in {"open", "sealed"} => recorder' = recorder,
         recorder' = "killed" \/ UNCHANGED <<recorder, tail, oversized>>
  PROVE  LogInv'
<1>1. Kept' /\ Clean'
  BY DEF LogInv, Kept, Clean, Same, Count, Happened
<1>2. Shape'
  BY DEF LogInv, Shape
<1>3. Listed'
  BY DEF LogInv, Listed, Count
<1>4. Sealed'
  <2>1. Tally(events)' = Tally(events)
    BY DEF Tally
  <2>2. Tally(Recorded(End))' = Tally(Recorded(End))
    BY DEF Tally, Recorded
  <2> QED
    BY <2>1, <2>2 DEF LogInv, Sealed
<1> QED
  BY <1>1, <1>2, <1>3, <1>4 DEF LogInv

\* Nothing is inspected while the recorder runs.
LEMMA ScanIdle ==
  ASSUME Inv, recorder \in {"off", "open"}, UNCHANGED <<scanVars, verdict>>
  PROVE  ScanInv' /\ VerdictInv'
<1>1. at = 0 /\ Idle /\ at' = 0 /\ Idle'
  BY DEF Inv, ScanInv, Idle, scanVars
<1>2. verdict' = NoVerdict
  BY DEF Inv, VerdictInv, Returned
<1>3. Begun' /\ Requests' /\ Closures' /\ Ends' /\ Failing'
  BY <1>1 DEF Idle, Begun, Requests, Closures, Ends, Failing
<1>4. Order'
  <2>1. Count(log', 0, "model-request") = 0
    BY CountStep
  <2>2. Len(<<>>) = 0
    OBVIOUS
  <2>3. {requests'[n][1] : n \in 1..Len(requests')} = {}
    BY <1>1 DEF Idle
  <2> QED
    BY <1>1, <2>1, <2>2, <2>3, FS_EmptySet DEF Idle, Order, Ids
<1>5. VerdictInv'
  BY <1>2 DEF VerdictInv, Returned, NoVerdict, CompleteIsTheWholeStory, WholeIsComplete,
              CutIsReadable, TransportIsTheLastWord
<1> QED
  BY <1>1, <1>3, <1>4, <1>5 DEF ScanInv

\* An event that fits, recorded or lost.
LEMMA RecordKeeps ==
  ASSUME Inv, NEW e, Fits(e), Record(e)
  PROVE  Inv'
<1>1. /\ recorder = "open" /\ UNCHANGED <<tail, oversized, recorder, scanVars, verdict>>
      /\ events' = Append(events, e) /\ e \in Event /\ events \in Seq(Event)
  BY DEF Record, Inv, Typed, Fits
<1>2. EventsInv'
  BY <1>1, FitsKeeps DEF Inv
<1>3. ScanInv' /\ VerdictInv'
  BY <1>1, ScanIdle
<1>4. events' \in Seq(Event)
  BY <1>1, Appended
<1>5. Typed' /\ LogInv'
  <2>1. ASSUME NEW form \in Forms, Write(e, form)
        PROVE  log' \in Seq(Lines \cup Footers) /\ nextSeq' \in Nat /\ invocations' \in Seq(Nat)
    <3>1. Line(e, nextSeq, form) \in Lines
      BY <1>1 DEF Inv, Typed, Line, Lines
    <3>2. e.call \in Nat
      BY <1>1 DEF Event, Numbers
    <3> QED
      BY <2>1, <3>1, <3>2, LogAppended DEF Write, Inv, Typed
  <2>2. CASE Write(e, "good") /\ UNCHANGED deviations
    <3>1. LogInv'
      <4>1. deviations' \in Nat /\ (deviations' = 0 => deviations = 0)
        BY <2>2, DeviationsAssumption DEF Inv, Typed
      <4> QED
        BY <1>1, <2>2, <4>1, WriteKeeps DEF Inv, Forms
    <3> QED
      BY <1>1, <1>4, <2>1, <2>2, <3>1 DEF Inv, Typed, Forms, scanVars
  <2>3. ASSUME NEW form \in {"misshapen", "garbage"}, Write(e, form),
               deviations < MaxDeviations, deviations' = deviations + 1
        PROVE  Typed' /\ LogInv'
    <3>1. LogInv'
      <4>1. deviations' \in Nat /\ deviations' # 0
        BY <2>3, DeviationsAssumption DEF Inv, Typed
      <4> QED
        BY <1>1, <2>3, <4>1, WriteKeeps DEF Inv, Forms
    <3>2. deviations' \in 0..MaxDeviations
      BY <2>3, DeviationsAssumption DEF Inv, Typed
    <3> QED
      BY <1>1, <1>4, <2>1, <2>3, <3>1, <3>2 DEF Inv, Typed, Forms, scanVars
  <2>4. CASE /\ deviations < MaxDeviations /\ deviations' = deviations + 1
             /\ UNCHANGED <<log, invocations>> /\ nextSeq' \in {nextSeq, nextSeq + 1}
    <3>1. LogInv'
      BY <1>1, <2>4, LossKeeps DEF Inv
    <3>2. deviations' \in 0..MaxDeviations /\ nextSeq' \in Nat
      BY <2>4, DeviationsAssumption DEF Inv, Typed
    <3> QED
      BY <1>1, <1>4, <2>4, <3>1, <3>2 DEF Inv, Typed, scanVars
  <2> QED
    BY <2>2, <2>3, <2>4 DEF Record
<1> QED
  BY <1>2, <1>3, <1>5 DEF Inv

\* Every step of the recorder.
LEMMA RecorderKeeps == Inv /\ Recorder => Inv'
<1> SUFFICES ASSUME Inv, Recorder PROVE Inv'
  OBVIOUS
<1>1. CASE Open
  <2>1. recorder = "off" /\ UNCHANGED <<events, scanVars, verdict>>
    BY <1>1 DEF Open
  <2> QED
    BY <1>1, <2>1, OpenKeeps, EventsStay, ScanIdle DEF Inv
<1>2. CASE Seal
  <2>1. recorder = "open" /\ UNCHANGED <<events, scanVars, verdict>>
    BY <1>2 DEF Seal
  <2> QED
    BY <1>2, <2>1, SealKeeps, EventsStay, ScanIdle DEF Inv
<1>3. CASE Kill
  <2>1. /\ recorder \in {"off", "open"} /\ recorder' = "killed" /\ tail' \in BOOLEAN
        /\ oversized' \in BOOLEAN
        /\ UNCHANGED <<events, log, nextSeq, invocations, deviations, scanVars, verdict>>
    BY <1>3 DEF Kill
  <2>2. End' = End
    BY <2>1 DEF End
  <2>3. LogInv'
    BY <2>1, <2>2, LogStays DEF Inv
  <2>4. Typed'
    BY <2>1 DEF Inv, Typed, scanVars
  <2> QED
    BY <2>1, <2>3, <2>4, EventsStay, ScanIdle DEF Inv
<1>4. CASE \E r \in Resources : Call(r) \/ Terminate(r)
  BY <1>4, CallFits, TerminateFits, RecordKeeps DEF Inv, Typed
<1>5. CASE \E i \in 1..MaxEvents : Result(i)
  BY <1>5, ResultFits, RecordKeeps DEF Inv, Typed
<1> QED
  BY <1>1, <1>2, <1>3, <1>4, <1>5 DEF Recorder

-----------------------------------------------------------------------------
(* The steps of the inspection. *)

\* What an inspection leaves as it is.
LEMMA InspectionStays ==
  ASSUME Inv, Inspecting, UNCHANGED recorderVars
  PROVE  EventsInv' /\ LogInv' /\ End' = End
<1>1. UNCHANGED <<events, log, nextSeq, invocations, tail, oversized, recorder, deviations>>
  BY DEF recorderVars
<1>2. End' = End
  BY <1>1 DEF End
<1> QED
  BY <1>1, <1>2, EventsStay, LogStays DEF Inv

\* Until it returns there is nothing to say of the verdict.
LEMMA NotReturned ==
  ASSUME verdict' = NoVerdict
  PROVE  VerdictInv'
  BY DEF VerdictInv, Returned, NoVerdict, CompleteIsTheWholeStory, WholeIsComplete,
         CutIsReadable, TransportIsTheLastWord

Refuses == \E why \in Refusals : Return(Refused(why))

\* It refuses only a log the recorder got wrong, or of which a kill left nothing readable.
LEMMA RefusedKeeps ==
  ASSUME Inv, Inspecting, UNCHANGED recorderVars, Refuses,
         deviations # 0 \/ (recorder = "killed" /\ (log = <<>> \/ oversized))
  PROVE  Inv'
<1> PICK why \in Refusals : Return(Refused(why))
  BY DEF Refuses
<1>1. /\ UNCHANGED <<events, log, nextSeq, invocations, tail, oversized, recorder, deviations>>
      /\ UNCHANGED <<at, requests, closures, terminals, resources, rootCause, rootFailure>>
      /\ verdict' = Refused(why) /\ recorder \in {"sealed", "killed"}
  BY DEF recorderVars, scanVars, Return, Inspecting
<1>2. EventsInv' /\ LogInv' /\ End' = End
  BY InspectionStays
<1>3. ScanInv'
  <2>1. Idle' <=> Idle
    BY <1>1 DEF Idle
  <2>2. Begun' /\ Requests' /\ Closures'
    BY <1>1, <1>2 DEF Inv, ScanInv, Begun, Requests, Closures
  <2>5. Ends'
    BY <1>1 DEF Inv, ScanInv, Ends
  <2>3. Order'
    BY <1>1 DEF Inv, ScanInv, Order, Ids, Count
  <2>4. Failing'
    BY <1>1 DEF Inv, ScanInv, Failing, RootFails
  <2> QED
    BY <1>1, <2>1, <2>2, <2>3, <2>4, <2>5 DEF Inv, ScanInv
<1>4. Typed'
  BY <1>1 DEF Inv, Typed, Refused, Refusals, Reasons
<1>5. verdict'.complete = FALSE
  BY <1>1 DEF Refused
<1>6. ~Whole'
  BY <1>1 DEF Whole
<1>7. VerdictInv'
  BY <1>1, <1>5, <1>6 DEF VerdictInv, CompleteIsTheWholeStory, WholeIsComplete, CutIsReadable,
                          TransportIsTheLastWord
<1> QED
  BY <1>2, <1>3, <1>4, <1>7 DEF Inv

\* The body ends where the lines of the recorder do.
LEMMA BodyEnds ==
  ASSUME Inv, Inspecting, log # <<>>
  PROVE  /\ Len(log) \in Nat /\ End \in Nat /\ End >= 1 /\ LastBody = End
         /\ (HasFooter <=> recorder = "sealed")
         /\ \A n \in 2..End : log[n].event \in Event /\ log[n] \in Lines
<1> DEFINE L == Len(log)
<1>1. L \in Nat /\ L >= 1
  BY DEF Inv, Typed
<1>2. ASSUME recorder = "sealed" PROVE End \in Nat /\ End >= 1 /\ LastBody = End /\ HasFooter
  <2>1. L >= 2 /\ log[L].event = FooterRecord /\ End = L - 1
    BY <1>2 DEF Inv, LogInv, Sealed, End
  <2>2. HasFooter
    BY <2>1 DEF HasFooter, FooterRecord
  <2>3. LastBody = L - 1
    BY <2>2 DEF LastBody
  <2> HIDE DEF L
  <2> QED
    BY <1>1, <1>2, <2>1, <2>2, <2>3
<1>3. ASSUME recorder = "killed" PROVE End \in Nat /\ End >= 1 /\ LastBody = End /\ ~HasFooter
  <2>1. End = L /\ log[1].event = Header
    BY <1>3 DEF End, Inv, LogInv, Shape
  <2>2. L >= 2 => log[L].event \in Event
    BY <1>1, <2>1 DEF Inv, LogInv, Shape
  <2>3. log[L].event.type # "footer"
    <3>1. CASE L = 1
      BY <2>1, <3>1 DEF Header
    <3>2. CASE L >= 2
      BY <2>2, <3>2 DEF Event
    <3>3. L = 1 \/ L >= 2
      <4> HIDE DEF L
      <4> QED
        BY <1>1
    <3> QED
      BY <3>1, <3>2, <3>3
  <2>4. ~HasFooter
    BY <2>3 DEF HasFooter
  <2>5. LastBody = L
    BY <2>4 DEF LastBody
  <2> HIDE DEF L
  <2> QED
    BY <1>1, <1>3, <2>1, <2>4, <2>5
<1>4. \A n \in 2..End : log[n].event \in Event /\ log[n] \in Lines
  <2>1. \A n \in 2..End : log[n].event \in Event
    BY DEF Inv, LogInv, Shape
  <2>2. \A n \in 2..End : log[n] \in Lines \cup Footers
    BY <1>1, <1>2, <1>3 DEF Inv, Typed, Inspecting, End
  <2>3. FooterRecord \notin Event
    BY DEF FooterRecord, Event
  <2> QED
    BY <2>1, <2>2, <2>3 DEF Footers
<1> QED
  BY <1>1, <1>2, <1>3, <1>4 DEF Inspecting

\* The inspection reads the file: refused, or at its first line.
LEMMA BeginKeeps ==
  ASSUME Inv, Begin
  PROVE  Inv'
<1>1. Inspecting /\ at = 0 /\ UNCHANGED recorderVars /\ recorder \in {"sealed", "killed"}
  BY DEF Begin, Inspecting
<1>2. CASE log = <<>> /\ Refuses
  <2>1. recorder = "killed"
    BY <1>1, <1>2 DEF Inv, LogInv, Shape
  <2> QED
    BY <1>1, <1>2, <2>1, RefusedKeeps
<1>3. CASE oversized /\ Refuses
  <2>1. recorder = "killed"
    BY <1>3 DEF Inv, LogInv, Shape
  <2> QED
    BY <1>1, <1>3, <2>1, RefusedKeeps
<1>4. CASE (Malformed \/ Gap \/ (log # <<>> /\ log[1].form # "good")) /\ Refuses
  <2>1. log # <<>> => Len(log) \in Nat /\ Len(log) >= 1
    BY DEF Inv, Typed
  <2>2. deviations # 0
    BY <1>4, <2>1 DEF Inv, LogInv, Clean, Malformed, Gap
  <2> QED
    BY <1>1, <1>4, <2>2, RefusedKeeps
<1>5. CASE /\ ~oversized /\ log # <<>> /\ log[1].form = "good" /\ at' = 1
           /\ UNCHANGED <<requests, closures, terminals, resources, rootCause, rootFailure,
                          verdict>>
  <2>1. /\ UNCHANGED <<events, log, nextSeq, invocations, tail, oversized, recorder, deviations>>
        /\ Idle /\ Idle' /\ verdict' = NoVerdict
    BY <1>1, <1>5 DEF recorderVars, Inv, ScanInv, Idle, Inspecting
  <2>2. EventsInv' /\ LogInv' /\ End' = End
    BY <1>1, InspectionStays
  <2>3. Typed' /\ VerdictInv'
    BY <1>5, <2>1, NotReturned DEF Inv, Typed
  <2>4. Begun'
    BY <1>1, <1>5, <2>1, <2>2, BodyEnds DEF Begun
  <2>5. Requests' /\ Closures' /\ Ends' /\ Failing'
    BY <1>5, <2>1 DEF Idle, Requests, Closures, Ends, Failing
  <2>6. Order'
    <3>1. log[1].event.type # "model-request"
      BY <1>5 DEF Inv, LogInv, Shape, Header
    <3>2. {m \in 1..1 : log[m].event.type = "model-request"} = {}
      BY <3>1
    <3>3. Count(log', at', "model-request") = 0
      BY <1>5, <2>1, <3>2, FS_EmptySet DEF Count
    <3>4. Ids' = {} /\ Len(requests') = 0
      BY <2>1 DEF Ids, Idle
    <3> QED
      BY <3>3, <3>4, FS_EmptySet DEF Order
  <2> QED
    BY <1>1, <1>5, <2>1, <2>2, <2>3, <2>4, <2>5, <2>6 DEF Inv, ScanInv
<1> QED
  <2>1. CASE log = <<>> /\ ~tail
    <3>1. Return(Refused("missing"))
      BY <2>1 DEF Begin
    <3>2. Refuses
      BY <3>1 DEF Refuses, Refusals
    <3> QED
      BY <1>2, <2>1, <3>2
  <2>2. CASE ~(log = <<>> /\ ~tail) /\ oversized
    <3>1. Return(Refused("oversized"))
      BY <2>2 DEF Begin
    <3>2. Refuses
      BY <3>1 DEF Refuses, Refusals
    <3> QED
      BY <1>3, <2>2, <3>2
  <2>3. CASE ~(log = <<>> /\ ~tail) /\ ~oversized /\ Malformed
    <3>1. Return(Refused("malformed-record"))
      BY <2>3 DEF Begin
    <3>2. Refuses
      BY <3>1 DEF Refuses, Refusals
    <3> QED
      BY <1>4, <2>3, <3>2
  <2>4. CASE ~(log = <<>> /\ ~tail) /\ ~oversized /\ ~Malformed /\ Gap
    <3>1. Return(Refused("sequence-gap"))
      BY <2>4 DEF Begin
    <3>2. Refuses
      BY <3>1 DEF Refuses, Refusals
    <3> QED
      BY <1>4, <2>4, <3>2
  <2>5. CASE tail /\ ~oversized /\ ~Malformed /\ ~Gap /\ log = <<>>
    <3>1. Return(Refused("empty-prefix"))
      BY <2>5 DEF Begin
    <3>2. Refuses
      BY <3>1 DEF Refuses, Refusals
    <3> QED
      BY <1>2, <2>5, <3>2
  <2>6. CASE ~oversized /\ ~Malformed /\ ~Gap /\ log # <<>> /\ log[1].form # "good"
    <3>1. Return(Refused("invalid-header"))
      BY <2>6 DEF Begin
    <3>2. Refuses
      BY <3>1 DEF Refuses, Refusals
    <3> QED
      BY <1>4, <2>6, <3>2
  <2>7. CASE ~oversized /\ ~Malformed /\ ~Gap /\ log # <<>> /\ log[1].form = "good"
    <3>1. /\ at' = 1
          /\ UNCHANGED <<requests, closures, terminals, resources, rootCause, rootFailure,
                         verdict>>
      BY <2>7 DEF Begin
    <3> QED
      BY <1>5, <2>7, <3>1
  <2> QED
    BY <2>1, <2>2, <2>3, <2>4, <2>5, <2>6, <2>7 DEF Inv, Typed

\* A line of the body records an event, unless the recorder went wrong.
LEMMA LineIsEvent ==
  ASSUME Inv, log # <<>>, End \in Nat, Same, NEW m \in 2..End
  PROVE  m - 1 \in DOMAIN events /\ log[m].event = events[m - 1]
<1>1. Len(events) \in Nat /\ DOMAIN events = 1..Len(events) /\ End = Len(events) + 1
  BY DEF Inv, Typed, Same
<1>2. m - 1 \in DOMAIN events /\ m - 1 + 1 = m
  BY <1>1
<1> QED
  BY <1>2 DEF Same

\* Of a log that is what happened, the n-th event is line n + 1.
LEMMA EventIsLine ==
  ASSUME Inv, Same, NEW n \in DOMAIN events
  PROVE  n \in Nat /\ n + 1 \in 2..End /\ log[n + 1].event = events[n]
  BY DEF Inv, Typed, Same

\* The next line.
LEMMA AtNext ==
  ASSUME Inv, Scanning
  PROVE  /\ at \in Nat /\ at >= 1 /\ at + 1 \in 2..End /\ End \in Nat
         /\ log # <<>> /\ recorder \in {"sealed", "killed"} /\ verdict = NoVerdict
         /\ log[at + 1].event \in Event /\ log[at + 1].form \in Forms
         /\ deviations = 0 => Same /\ log[at + 1].form = "good"
<1>1. Inspecting /\ at > 0 /\ at < LastBody /\ at \in Nat
  BY DEF Scanning, Inv, Typed
<1>2. log # <<>>
  BY <1>1 DEF Inv, ScanInv, Begun
<1>3. /\ Len(log) \in Nat /\ End \in Nat /\ LastBody = End
      /\ \A n \in 2..End : log[n].event \in Event /\ log[n] \in Lines
  BY <1>1, <1>2, BodyEnds
<1>4. at + 1 \in 2..End
  BY <1>1, <1>3
<1>5. deviations = 0 => Same /\ log[at + 1].form = "good"
  <2>1. End <= Len(log)
    BY <1>3 DEF End
  <2>2. at + 1 \in 1..Len(log)
    BY <1>3, <1>4, <2>1
  <2> QED
    BY <1>2, <2>2 DEF Inv, LogInv, Clean
<1> QED
  BY <1>1, <1>2, <1>3, <1>4, <1>5 DEF Inspecting, Lines

\* What a line that is accepted leaves as it is.
LEMMA AcceptedStays ==
  ASSUME Inv, Scanning, UNCHANGED recorderVars, UNCHANGED verdict, at' = at + 1
  PROVE  /\ EventsInv' /\ LogInv' /\ VerdictInv' /\ Begun' /\ End' = End
         /\ UNCHANGED <<events, log, nextSeq, invocations, tail, oversized, recorder, deviations>>
         /\ at' # 0 /\ recorder' \in {"sealed", "killed"}
         /\ \A k : /\ Count(log, at, k) \in Nat
                   /\ Count(log', at', k) = Count(log, at, k)
                                              + IF log[at + 1].event.type = k THEN 1 ELSE 0
<1>1. /\ at \in Nat /\ at >= 1 /\ at + 1 \in 2..End /\ End \in Nat /\ verdict' = NoVerdict
      /\ recorder \in {"sealed", "killed"} /\ Inspecting
  BY AtNext DEF Scanning
<1>2. UNCHANGED <<events, log, nextSeq, invocations, tail, oversized, recorder, deviations>>
  BY DEF recorderVars
<1>3. EventsInv' /\ LogInv' /\ End' = End
  BY <1>1, InspectionStays
<1>4. VerdictInv'
  BY <1>1, NotReturned
<1>5. Begun'
  BY <1>1, <1>2, <1>3 DEF Inv, ScanInv, Begun
<1>6. ASSUME NEW k
      PROVE  /\ Count(log, at, k) \in Nat
             /\ Count(log', at', k) = Count(log, at, k)
                                        + IF log[at + 1].event.type = k THEN 1 ELSE 0
  <2>1. /\ Count(log, at, k) \in Nat
        /\ Count(log, at + 1, k) = Count(log, at, k)
                                     + IF log[at + 1].event.type = k THEN 1 ELSE 0
    BY <1>1, CountStep
  <2> QED
    BY <1>2, <2>1
<1> QED
  BY <1>1, <1>2, <1>3, <1>4, <1>5, <1>6

\* A request.
LEMMA ScanRequestKeeps ==
  ASSUME Inv, Scanning, UNCHANGED recorderVars, log[at + 1].event.type = "model-request",
         ScanRequest(log[at + 1])
  PROVE  Inv'
<1> DEFINE e == log[at + 1].event
<1>1. /\ at \in Nat /\ at >= 1 /\ at + 1 \in 2..End /\ End \in Nat /\ log # <<>>
      /\ e \in Event /\ (deviations = 0 => Same /\ log[at + 1].form = "good")
  BY AtNext
<1>2. CASE log[at + 1].form # "good" \/ Requested(e.call)
  <2>1. Refuses
    BY <1>2 DEF ScanRequest, Refuses, Refusals
  <2>2. deviations # 0
    <3> SUFFICES ASSUME Same, log[at + 1].form = "good" PROVE FALSE
      BY <1>1
    <3>1. PICK n \in 1..Len(requests) : requests[n][1] = e.call
      BY <1>2 DEF Requested
    <3>2. PICK m \in 2..at : /\ log[m].event.type = "model-request"
                             /\ requests[n] = <<log[m].event.call, log[m].event.resource>>
      BY DEF Inv, ScanInv, Requests
    <3>3. m - 1 \in DOMAIN events /\ log[m].event = events[m - 1]
      BY <1>1, LineIsEvent
    <3>4. at \in DOMAIN events /\ e = events[at]
      <4>1. at + 1 - 1 \in DOMAIN events /\ e = events[at + 1 - 1]
        BY <1>1, LineIsEvent
      <4> QED
        BY <1>1, <4>1
    <3>5. events[m - 1].call = events[at].call
      BY <3>1, <3>2, <3>3, <3>4
    <3>6. m - 1 # at
      BY <1>1
    <3> QED
      BY <3>2, <3>3, <3>4, <3>5, <3>6 DEF Inv, EventsInv, Numbered
  <2> QED
    BY <2>1, <2>2, RefusedKeeps DEF Scanning
<1>3. CASE ~(log[at + 1].form # "good" \/ Requested(e.call))
  <2>1. /\ requests' = Append(requests, <<e.call, e.resource>>)
        /\ resources' = resources \cup {e.resource} /\ at' = at + 1
        /\ UNCHANGED <<closures, terminals, rootCause, rootFailure, verdict>>
    BY <1>3 DEF ScanRequest
  <2>2. /\ EventsInv' /\ LogInv' /\ VerdictInv' /\ Begun' /\ End' = End
        /\ UNCHANGED <<events, log, nextSeq, invocations, tail, oversized, recorder, deviations>>
        /\ at' # 0 /\ recorder' \in {"sealed", "killed"}
        /\ \A k : /\ Count(log, at, k) \in Nat
                  /\ Count(log', at', k) = Count(log, at, k)
                                             + IF log[at + 1].event.type = k THEN 1 ELSE 0
    BY <2>1, AcceptedStays
  <2>3. <<e.call, e.resource>> \in Numbers \X Resources /\ e.call \in Numbers
    BY <1>1 DEF Event
  <2>4. /\ requests \in Seq(Numbers \X Resources) /\ requests' \in Seq(Numbers \X Resources)
        /\ Len(requests) \in Nat /\ Len(requests') = Len(requests) + 1
        /\ \A n \in 1..Len(requests) : requests'[n] = requests[n]
        /\ requests'[Len(requests) + 1] = <<e.call, e.resource>>
    BY <2>1, <2>3 DEF Inv, Typed
  <2>5. Typed'
    BY <1>1, <2>1, <2>2, <2>4 DEF Inv, Typed
  <2>6. Requests'
    <3>1. ASSUME NEW n \in 1..Len(requests')
          PROVE  \E m \in 2..at' : /\ log'[m].event.type = "model-request"
                                   /\ requests'[n] = <<log'[m].event.call, log'[m].event.resource>>
      <4>1. CASE n \in 1..Len(requests)
        <5>1. PICK m \in 2..at : /\ log[m].event.type = "model-request"
                                 /\ requests[n] = <<log[m].event.call, log[m].event.resource>>
          BY <4>1 DEF Inv, ScanInv, Requests
        <5>2. m \in 2..at'
          BY <1>1, <2>1
        <5> QED
          BY <2>2, <2>4, <4>1, <5>1, <5>2
      <4>2. CASE n = Len(requests) + 1
        <5>1. at + 1 \in 2..at'
          BY <1>1, <2>1
        <5> QED
          BY <2>2, <2>4, <4>2, <5>1
      <4> QED
        BY <2>4, <4>1, <4>2
    <3>2. ASSUME NEW m \in 2..at', log'[m].event.type = "model-request"
          PROVE  \E n \in 1..Len(requests') :
                   requests'[n] = <<log'[m].event.call, log'[m].event.resource>>
      <4>1. CASE m \in 2..at
        <5>1. PICK n \in 1..Len(requests) :
                requests[n] = <<log[m].event.call, log[m].event.resource>>
          BY <2>2, <3>2, <4>1 DEF Inv, ScanInv, Requests
        <5>2. n \in 1..Len(requests') /\ requests'[n] = requests[n]
          BY <2>4
        <5>3. log'[m] = log[m]
          BY <2>2
        <5> QED
          BY <5>1, <5>2, <5>3
      <4>2. CASE m = at + 1
        <5>1. Len(requests) + 1 \in 1..Len(requests') /\ log'[m].event = e
          BY <2>2, <2>4, <4>2
        <5>2. requests'[Len(requests) + 1] = <<e.call, e.resource>>
          BY <2>4
        <5> QED
          BY <5>1, <5>2
      <4>3. m \in 2..at \/ m = at + 1
        BY <1>1, <2>1
      <4> QED
        BY <4>1, <4>2, <4>3
    <3> QED
      BY <3>1, <3>2 DEF Requests
  <2>7. Order'
    <3>1. /\ Len(requests) = Count(log, at, "model-request")
          /\ \A n \in 1..Len(requests) : requests[n][1] = invocations[n]
          /\ IsFiniteSet(Ids) /\ Cardinality(Ids) = Len(requests)
      BY DEF Inv, ScanInv, Order
    <3>2. Count(log', at', "model-request") = Count(log, at, "model-request") + 1
      BY <2>2
    <3>3. Ids' = Ids \cup {e.call}
      BY <2>4 DEF Ids
    <3>4. e.call \notin Ids
      BY <1>3 DEF Requested, Ids
    <3>5. IsFiniteSet(Ids') /\ Cardinality(Ids') = Len(requests')
      <4>1. /\ IsFiniteSet(Ids \cup {e.call})
            /\ Cardinality(Ids \cup {e.call}) = Cardinality(Ids) + 1
        BY <3>1, <3>4, FS_AddElement
      <4> QED
        BY <2>4, <3>1, <3>3, <4>1
    <3>6. invocations[Count(log, at + 1, "model-request")] = e.call
      BY <1>1 DEF Inv, LogInv, Listed
    <3>7. Count(log, at + 1, "model-request") = Len(requests) + 1
      BY <2>1, <2>2, <3>1, <3>2
    <3>8. ASSUME NEW n \in 1..Len(requests') PROVE requests'[n][1] = invocations'[n]
      <4>1. CASE n \in 1..Len(requests)
        BY <2>2, <2>4, <3>1, <4>1
      <4>2. CASE n = Len(requests) + 1
        BY <2>2, <2>4, <3>6, <3>7, <4>2
      <4> QED
        BY <2>4, <4>1, <4>2
    <3> QED
      BY <2>4, <3>1, <3>2, <3>5, <3>8 DEF Order
  <2>8. Closures'
    <3>1. \A m \in 2..at' : log'[m].event.type \in Results => m \in 2..at
      BY <1>1, <2>1, <2>2 DEF Results
    <3>2. 2..at \subseteq 2..at'
      BY <1>1, <2>1
    <3>3. \A c \in closures' :
            \E m \in 2..at' : log'[m].event.type \in Results /\ log'[m].event.call = c
      BY <2>1, <2>2, <3>2 DEF Inv, ScanInv, Closures
    <3>4. ASSUME NEW m \in 2..at', log'[m].event.type \in Results
          PROVE  /\ log'[m].event.call \in closures'
                 /\ \E n \in 1..Len(requests') :
                      requests'[n] = <<log'[m].event.call, log'[m].event.resource>>
      <4>1. /\ log[m].event.call \in closures
            /\ \E n \in 1..Len(requests) :
                 requests[n] = <<log[m].event.call, log[m].event.resource>>
        BY <2>2, <3>1, <3>4 DEF Inv, ScanInv, Closures
      <4>2. PICK n \in 1..Len(requests) :
              requests[n] = <<log[m].event.call, log[m].event.resource>>
        BY <4>1
      <4>3. n \in 1..Len(requests')
        BY <2>4
      <4> QED
        BY <2>1, <2>2, <2>4, <4>1, <4>2, <4>3
    <3> QED
      BY <3>3, <3>4 DEF Closures
  <2>9. Ends'
    <3>1. 2..at' = 2..at \cup {at + 1}
      BY <1>1, <2>1
    <3> QED
      BY <2>1, <2>2, <3>1 DEF Inv, ScanInv, Ends
  <2>10. Failing'
    <3>1. 2..at' = 2..at \cup {at + 1}
      BY <1>1, <2>1
    <3>2. \A m : RootFails(m)' <=> RootFails(m)
      BY <2>2 DEF RootFails
    <3>3. ~RootFails(at + 1)
      BY DEF RootFails
    <3> QED
      BY <2>1, <2>2, <3>1, <3>2, <3>3 DEF Inv, ScanInv, Failing
  <2> QED
    BY <2>2, <2>5, <2>6, <2>7, <2>8, <2>9, <2>10 DEF Inv, ScanInv
<1> QED
  BY <1>2, <1>3

\* What the requests say is said as before when none is added.
LEMMA RequestsStay ==
  ASSUME Inv, Scanning, UNCHANGED recorderVars, UNCHANGED verdict, at' = at + 1,
         UNCHANGED requests, log[at + 1].event.type # "model-request"
  PROVE  Requests' /\ Order' /\ 2..at' = 2..at \cup {at + 1}
<1>1. at \in Nat /\ at >= 1 /\ at + 1 \in 2..End
  BY AtNext
<1>2. /\ UNCHANGED <<log, invocations>>
      /\ \A k : /\ Count(log, at, k) \in Nat
                /\ Count(log', at', k) = Count(log, at, k)
                                           + IF log[at + 1].event.type = k THEN 1 ELSE 0
  BY AcceptedStays
<1>3. 2..at' = 2..at \cup {at + 1}
  BY <1>1
<1>4. Requests'
  BY <1>2, <1>3 DEF Inv, ScanInv, Requests
<1>5. Order'
  <2>1. Count(log', at', "model-request") = Count(log, at, "model-request")
    BY <1>2
  <2> QED
    BY <1>2, <2>1 DEF Inv, ScanInv, Order, Ids
<1> QED
  BY <1>3, <1>4, <1>5

\* A result.
LEMMA ScanClosureKeeps ==
  ASSUME Inv, Scanning, UNCHANGED recorderVars, log[at + 1].event.type \in Results,
         ScanClosure(log[at + 1])
  PROVE  Inv'
<1> DEFINE e == log[at + 1].event
           refused == \/ log[at + 1].form # "good" \/ e.call \in closures
                      \/ <<e.call, e.resource>> \notin Range(requests)
<1>1. /\ at \in Nat /\ at >= 1 /\ at + 1 \in 2..End /\ End \in Nat /\ log # <<>>
      /\ e \in Event /\ (deviations = 0 => Same /\ log[at + 1].form = "good")
  BY AtNext
<1>2. CASE refused
  <2>1. Refuses
    BY <1>2 DEF ScanClosure, Refuses, Refusals
  <2>2. deviations # 0
    <3> SUFFICES ASSUME Same, log[at + 1].form = "good" PROVE FALSE
      BY <1>1
    <3>1. at \in DOMAIN events /\ e = events[at]
      <4>1. at + 1 - 1 \in DOMAIN events /\ e = events[at + 1 - 1]
        BY <1>1, LineIsEvent
      <4> QED
        BY <1>1, <4>1
    <3>2. CASE e.call \in closures
      <4>1. PICK m \in 2..at : log[m].event.type \in Results /\ log[m].event.call = e.call
        BY <3>2 DEF Inv, ScanInv, Closures
      <4>2. m - 1 \in DOMAIN events /\ log[m].event = events[m - 1]
        BY <1>1, LineIsEvent
      <4>3. m - 1 # at
        BY <1>1
      <4> QED
        BY <3>1, <4>1, <4>2, <4>3 DEF Inv, EventsInv, Answered
    <3>3. CASE <<e.call, e.resource>> \notin Range(requests)
      <4>1. PICK n \in DOMAIN events : n < at /\ events[n] = Request(e.call, e.resource)
        BY <3>1 DEF Inv, EventsInv, Answered
      <4>2. n \in Nat /\ n + 1 \in 2..End /\ log[n + 1].event = events[n]
        BY EventIsLine
      <4>3. n + 1 \in 2..at
        BY <1>1, <4>1, <4>2
      <4>4. /\ log[n + 1].event.type = "model-request" /\ log[n + 1].event.call = e.call
            /\ log[n + 1].event.resource = e.resource
        BY <4>1, <4>2 DEF Request
      <4>5. PICK i \in 1..Len(requests) : requests[i] = <<e.call, e.resource>>
        BY <4>3, <4>4 DEF Inv, ScanInv, Requests
      <4>6. DOMAIN requests = 1..Len(requests)
        BY DEF Inv, Typed
      <4> QED
        BY <3>3, <4>5, <4>6 DEF Range
    <3> QED
      BY <1>2, <3>2, <3>3
  <2> QED
    BY <2>1, <2>2, RefusedKeeps DEF Scanning
<1>3. CASE ~refused
  <2>1. /\ closures' = closures \cup {e.call} /\ rootFailure' = FailureAfter(e)
        /\ at' = at + 1
        /\ UNCHANGED <<requests, terminals, resources, rootCause, verdict>>
    BY <1>3 DEF ScanClosure
  <2>2. /\ EventsInv' /\ LogInv' /\ VerdictInv' /\ Begun' /\ End' = End
        /\ UNCHANGED <<events, log, nextSeq, invocations, tail, oversized, recorder, deviations>>
        /\ at' # 0 /\ recorder' \in {"sealed", "killed"}
    BY <2>1, AcceptedStays
  <2>3. Requests' /\ Order' /\ 2..at' = 2..at \cup {at + 1}
    BY <2>1, RequestsStay DEF Results
  <2>4. rootFailure' \in FailureReasons \cup {"none"}
    BY <1>1, <2>1 DEF FailureAfter, Inv, Typed, Event
  <2>5. Typed'
    BY <1>1, <2>1, <2>2, <2>4 DEF Inv, Typed
  <2>6. DOMAIN requests = 1..Len(requests)
    BY DEF Inv, Typed
  <2>7. PICK q \in 1..Len(requests) : requests[q] = <<e.call, e.resource>>
    BY <1>3, <2>6 DEF Range
  <2>8. Closures'
    <3>1. \A c \in closures' :
            \E m \in 2..at' : log'[m].event.type \in Results /\ log'[m].event.call = c
      BY <2>1, <2>2, <2>3 DEF Inv, ScanInv, Closures
    <3>2. ASSUME NEW m \in 2..at', log'[m].event.type \in Results
          PROVE  /\ log'[m].event.call \in closures'
                 /\ \E n \in 1..Len(requests') :
                      requests'[n] = <<log'[m].event.call, log'[m].event.resource>>
      <4>1. CASE m \in 2..at
        BY <2>1, <2>2, <3>2, <4>1 DEF Inv, ScanInv, Closures
      <4>2. CASE m = at + 1
        BY <2>1, <2>2, <2>7, <4>2
      <4> QED
        BY <2>3, <4>1, <4>2
    <3> QED
      BY <3>1, <3>2 DEF Closures
  <2>9. Ends'
    <3>1. terminals' = terminals /\ resources' = resources /\ e.type # "terminal-snapshot"
      BY <2>1 DEF Results
    <3>2. e.resource \in resources
      <4>1. PICK m \in 2..at : /\ log[m].event.type = "model-request"
                               /\ requests[q] = <<log[m].event.call, log[m].event.resource>>
        BY DEF Inv, ScanInv, Requests
      <4>2. log[m].event.resource = e.resource
        BY <2>7, <4>1
      <4> QED
        BY <4>2 DEF Inv, ScanInv, Ends
    <3>3. resources' = {log'[m].event.resource : m \in 2..at'}
      BY <2>2, <2>3, <3>1, <3>2 DEF Inv, ScanInv, Ends
    <3>4. terminals' = {r \in Resources :
                          \E m \in 2..at' : /\ log'[m].event.type = "terminal-snapshot"
                                            /\ log'[m].event.resource = r}
      BY <2>2, <2>3, <3>1 DEF Inv, ScanInv, Ends
    <3> QED
      BY <2>1, <2>2, <2>3, <3>3, <3>4 DEF Inv, ScanInv, Ends
  <2>10. Failing'
    <3>1. \A m : RootFails(m)' <=> RootFails(m)
      BY <2>2 DEF RootFails
    <3>2. CASE RootFails(at + 1)
      <4>1. rootFailure' = e.detail /\ e.detail # "none"
        BY <1>1, <2>1, <3>2 DEF RootFails, FailureAfter, Event, FailureReasons
      <4> PICK i \in Nat : i = at + 1
        BY <1>1
      <4>2. \A j \in 2..at' : j <= i
        BY <1>1, <2>1
      <4>3. i \in 2..at' /\ RootFails(i)' /\ log'[i].event.detail = rootFailure'
        BY <2>2, <2>3, <3>1, <3>2, <4>1
      <4> QED
        BY <3>1, <4>1, <4>2, <4>3 DEF Failing
    <3>3. CASE ~RootFails(at + 1)
      <4>1. rootFailure' = rootFailure
        BY <2>1, <3>3 DEF RootFails, FailureAfter
      <4> QED
        BY <2>2, <2>3, <3>1, <3>3, <4>1 DEF Inv, ScanInv, Failing
    <3> QED
      BY <3>2, <3>3
  <2> QED
    BY <2>2, <2>3, <2>5, <2>8, <2>9, <2>10 DEF Inv, ScanInv
<1> QED
  BY <1>2, <1>3

\* A terminal snapshot.
LEMMA ScanSnapshotKeeps ==
  ASSUME Inv, Scanning, UNCHANGED recorderVars, log[at + 1].event.type = "terminal-snapshot",
         ScanSnapshot(log[at + 1])
  PROVE  Inv'
<1> DEFINE e == log[at + 1].event
<1>1. /\ at \in Nat /\ at >= 1 /\ at + 1 \in 2..End /\ End \in Nat /\ log # <<>>
      /\ e \in Event /\ (deviations = 0 => Same /\ log[at + 1].form = "good")
  BY AtNext
<1>2. CASE log[at + 1].form # "good" \/ e.resource \in terminals
  <2>1. Refuses
    BY <1>2 DEF ScanSnapshot, Refuses, Refusals
  <2>2. deviations # 0
    <3> SUFFICES ASSUME Same, log[at + 1].form = "good" PROVE FALSE
      BY <1>1
    <3>1. PICK m \in 2..at : /\ log[m].event.type = "terminal-snapshot"
                             /\ log[m].event.resource = e.resource
      BY <1>2 DEF Inv, ScanInv, Ends
    <3>2. m - 1 \in DOMAIN events /\ log[m].event = events[m - 1]
      BY <1>1, LineIsEvent
    <3>3. at \in DOMAIN events /\ e = events[at]
      <4>1. at + 1 - 1 \in DOMAIN events /\ e = events[at + 1 - 1]
        BY <1>1, LineIsEvent
      <4> QED
        BY <1>1, <4>1
    <3>4. m - 1 < at
      BY <1>1
    <3>5. LastOfAll(m - 1)
      BY <3>1, <3>2 DEF Inv, EventsInv, Ending
    <3> QED
      BY <3>1, <3>2, <3>3, <3>4, <3>5 DEF LastOfAll
  <2> QED
    BY <2>1, <2>2, RefusedKeeps DEF Scanning
<1>3. CASE ~(log[at + 1].form # "good" \/ e.resource \in terminals)
  <2>1. /\ terminals' = terminals \cup {e.resource}
        /\ resources' = resources \cup {e.resource}
        /\ rootCause' = IF e.resource = Root THEN e.detail ELSE rootCause
        /\ at' = at + 1
        /\ UNCHANGED <<requests, closures, rootFailure, verdict>>
    BY <1>3 DEF ScanSnapshot
  <2>2. /\ EventsInv' /\ LogInv' /\ VerdictInv' /\ Begun' /\ End' = End
        /\ UNCHANGED <<events, log, nextSeq, invocations, tail, oversized, recorder, deviations>>
        /\ at' # 0 /\ recorder' \in {"sealed", "killed"}
    BY <2>1, AcceptedStays
  <2>3. Requests' /\ Order' /\ 2..at' = 2..at \cup {at + 1}
    BY <2>1, RequestsStay
  <2>4. /\ e.detail \in Causes /\ e.resource \in Resources
        /\ e = Snapshot(e.resource, e.detail)
    BY <1>1 DEF Event, Snapshot
  <2>5. Typed'
    BY <1>1, <2>1, <2>2, <2>4 DEF Inv, Typed
  <2>6. Closures'
    BY <2>1, <2>2, <2>3 DEF Inv, ScanInv, Closures, Results
  <2>7. Ends'
    <3>1. resources' = {log'[m].event.resource : m \in 2..at'}
      BY <2>1, <2>2, <2>3 DEF Inv, ScanInv, Ends
    <3>2. terminals' = {r \in Resources :
                          \E m \in 2..at' : /\ log'[m].event.type = "terminal-snapshot"
                                            /\ log'[m].event.resource = r}
      BY <2>1, <2>2, <2>3, <2>4 DEF Inv, ScanInv, Ends
    <3>3. rootCause' = "none" => Root \notin terminals'
      BY <2>1, <2>4 DEF Inv, ScanInv, Ends, Causes
    <3>4. rootCause' # "none" => \E m \in 2..at' : log'[m].event = Snapshot(Root, rootCause')
      BY <2>1, <2>2, <2>3, <2>4 DEF Inv, ScanInv, Ends
    <3> QED
      BY <3>1, <3>2, <3>3, <3>4 DEF Ends
  <2>8. Failing'
    <3>1. \A m : RootFails(m)' <=> RootFails(m)
      BY <2>2 DEF RootFails
    <3>2. ~RootFails(at + 1)
      BY DEF RootFails
    <3> QED
      BY <2>1, <2>2, <2>3, <3>1, <3>2 DEF Inv, ScanInv, Failing
  <2> QED
    BY <2>2, <2>3, <2>5, <2>6, <2>7, <2>8 DEF Inv, ScanInv
<1> QED
  BY <1>2, <1>3

-----------------------------------------------------------------------------
(* The conclusion. *)

\* The footer agrees with what was read and with what happened: nothing is missing.
LEMMA CountsMean ==
  ASSUME Inv, recorder = "sealed", at = End, CountsMatch(log[Len(log)])
  PROVE  Same
<1>1. /\ log # <<>> /\ End \in Nat
  BY DEF Inv, Typed, LogInv, Shape, End
<1>2. Tally(Recorded(End)) = Tally(events)
  BY DEF CountsMatch, Inv, LogInv, Sealed
<1>3. [k \in Types |-> Count(log, End, k)] = [k \in Types |-> Happened(k)]
  BY <1>1, <1>2, TallyIsCount, TallyIsHappened
<1>4. \A k \in Types : Count(log, End, k) = Happened(k)
  BY <1>3
<1>5. \A k \in Types : Happened(k) \in Nat
  BY HappenedType DEF Inv, Typed
<1>6. ~ \E k \in Types : Count(log, End, k) < Happened(k)
  BY <1>4, <1>5
<1> QED
  BY <1>1, <1>6 DEF Inv, LogInv, Kept

\* What a complete log says of what happened.
LEMMA CompleteMeans ==
  ASSUME Inv, recorder = "sealed", at = End, log # <<>>, IsComplete(log[Len(log)])
  PROVE  /\ Recorded(Len(log)) = <<Header>> \o events \o <<FooterRecord>>
         /\ \A e \in Range(events) : e.type = "model-request" => Ended(e.call)
         /\ \A e \in Range(events) : e.resource = Root
         /\ Snapshot(Root, rootCause) \in Range(events)
         /\ rootCause = "model-failure" /\ rootFailure = "transport" =>
              \E n \in DOMAIN events : LastResult(n, Root) /\ events[n].detail = "transport"
<1> DEFINE footer == log[Len(log)]
<1>1. Same
  BY CountsMean DEF IsComplete
<1>2. /\ events \in Seq(Event) /\ Len(events) \in Nat /\ DOMAIN events = 1..Len(events)
      /\ log \in Seq(Lines \cup Footers) /\ Len(log) \in Nat /\ End = Len(log) - 1
      /\ End = Len(events) + 1 /\ Len(log) = Len(events) + 2 /\ End \in Nat
  BY <1>1 DEF Inv, Typed, Same, End
<1>3. Recorded(Len(log)) = <<Header>> \o events \o <<FooterRecord>>
  <2> DEFINE told == <<Header>> \o events \o <<FooterRecord>>
             L == Len(events)
  <2>1. L \in Nat
    BY <1>2
  <2>2. Len(told) = L + 2 /\ DOMAIN told = 1..(L + 2) /\ told = [n \in 1..(L + 2) |-> told[n]]
    BY <1>2
  <2>3. told[1] = Header /\ told[L + 2] = FooterRecord /\ \A n \in 1..L : told[n + 1] = events[n]
    BY <1>2
  <2>4. /\ log[1].event = Header /\ log[L + 2].event = FooterRecord
        /\ \A n \in 1..L : log[n + 1].event = events[n]
    BY <1>1, <1>2 DEF Inv, LogInv, Shape, Sealed, Same
  <2> HIDE DEF told, L
  <2>5. ASSUME NEW n \in 1..(L + 2) PROVE log[n].event = told[n]
    <3>1. CASE n = 1
      BY <2>3, <2>4, <3>1
    <3>2. CASE n = L + 2
      BY <2>3, <2>4, <3>2
    <3>3. CASE n \in 2..(L + 1)
      <4>1. n - 1 \in 1..L /\ n - 1 + 1 = n
        BY <2>1, <3>3
      <4> QED
        BY <2>3, <2>4, <4>1
    <3> QED
      BY <2>1, <3>1, <3>2, <3>3
  <2>6. Recorded(L + 2) = told
    BY <2>2, <2>5 DEF Recorded
  <2> QED
    BY <1>2, <2>6 DEF told, L
<1>4. \A e \in Range(events) : e.type = "model-request" => Ended(e.call)
  <2> SUFFICES ASSUME NEW n \in DOMAIN events, events[n].type = "model-request"
               PROVE  Ended(events[n].call)
    BY DEF Range
  <2>1. n + 1 \in 2..at /\ log[n + 1].event = events[n]
    BY <1>1, EventIsLine
  <2>2. PICK i \in 1..Len(requests) : requests[i] = <<events[n].call, events[n].resource>>
    BY <2>1 DEF Inv, ScanInv, Requests
  <2>3. events[n].call \in closures
    BY <2>2 DEF IsComplete, Paired
  <2>4. PICK m \in 2..at : log[m].event.type \in Results /\ log[m].event.call = events[n].call
    BY <2>3 DEF Inv, ScanInv, Closures
  <2>5. m - 1 \in DOMAIN events /\ log[m].event = events[m - 1]
    BY <1>1, <1>2, LineIsEvent
  <2> QED
    BY <2>4, <2>5 DEF Ended, Range, Results
<1>5. \A e \in Range(events) : e.resource = Root
  <2> SUFFICES ASSUME NEW n \in DOMAIN events PROVE events[n].resource = Root
    BY DEF Range
  <2>1. n + 1 \in 2..at /\ log[n + 1].event = events[n]
    BY <1>1, EventIsLine
  <2>2. events[n].resource \in resources
    BY <2>1 DEF Inv, ScanInv, Ends
  <2> QED
    BY <2>2 DEF IsComplete, OnlyRoot
<1>6. PICK m \in 2..at : log[m].event = Snapshot(Root, rootCause)
  BY DEF Inv, ScanInv, Ends, IsComplete
<1>7. m - 1 \in DOMAIN events /\ log[m].event = events[m - 1]
  BY <1>1, <1>2, LineIsEvent
<1>8. Snapshot(Root, rootCause) \in Range(events)
  BY <1>6, <1>7 DEF Range
<1>9. ASSUME rootCause = "model-failure", rootFailure = "transport"
      PROVE  \E n \in DOMAIN events : LastResult(n, Root) /\ events[n].detail = "transport"
  <2>1. /\ events[m - 1].type = "terminal-snapshot" /\ events[m - 1].resource = Root
        /\ events[m - 1].detail = "model-failure"
    BY <1>6, <1>7, <1>9 DEF Snapshot
  <2>2. EndsFailed(Root)
    BY <1>7, <2>1 DEF Inv, EventsInv, Ending, LastOfAll
  <2>3. PICK n \in DOMAIN events : LastResult(n, Root) /\ events[n].type = "model-failure"
    BY <2>2 DEF EndsFailed
  <2>4. n \in Nat /\ n + 1 \in 2..at /\ log[n + 1].event = events[n]
    BY <1>1, EventIsLine
  <2>5. RootFails(n + 1)
    BY <2>3, <2>4 DEF RootFails, LastResult, IsResultOf
  <2>6. PICK l \in 2..at : /\ RootFails(l) /\ log[l].event.detail = "transport"
                           /\ \A j \in 2..at : RootFails(j) => j <= l
    BY <1>9 DEF Inv, ScanInv, Failing
  <2>7. l - 1 \in DOMAIN events /\ log[l].event = events[l - 1]
    BY <1>1, <1>2, LineIsEvent
  <2>8. IsResultOf(events[l - 1], Root)
    BY <2>6, <2>7 DEF RootFails, IsResultOf
  <2>9. l - 1 <= n /\ n + 1 <= l
    BY <2>3, <2>4, <2>5, <2>6, <2>7, <2>8 DEF LastResult
  <2>10. l - 1 = n
    BY <1>2, <2>4, <2>9
  <2> QED
    BY <2>3, <2>6, <2>7, <2>10
<1> QED
  BY <1>3, <1>4, <1>5, <1>8, <1>9

\* The log of a whole attempt is complete.
LEMMA WholeMeans ==
  ASSUME Inv, recorder = "sealed", at = End, log # <<>>, Whole
  PROVE  IsComplete(log[Len(log)]) /\ log[Len(log)].form = "good"
<1> DEFINE footer == log[Len(log)]
<1>1. /\ deviations = 0 /\ footer.complete
      /\ \E e \in Range(events) : e.type = "model-request"
      /\ \A e \in Range(events) : e.type = "model-request" => Ended(e.call)
      /\ \A e \in Range(events) : e.resource = Root
      /\ Terminated(Root)
  BY DEF Whole
<1>2. /\ Same /\ \A k \in Types : Count(log, End, k) = Happened(k)
      /\ \A n \in 1..Len(log) : log[n].form = "good"
  BY <1>1 DEF Inv, LogInv, Clean
<1>3. /\ Len(log) \in Nat /\ Len(log) >= 2 /\ End = Len(log) - 1 /\ End \in Nat
      /\ footer.expectedCounts = Tally(events) /\ footer.writtenCounts = Tally(Recorded(End))
      /\ footer.invocations = invocations
      /\ footer.resources = {log[n].event.resource : n \in 2..End}
      /\ ~tail
  BY DEF Inv, Typed, LogInv, Shape, Sealed, End
<1>4. footer.form = "good"
  BY <1>2, <1>3
<1>5. /\ requests \in Seq(Numbers \X Resources) /\ Len(requests) \in Nat
      /\ DOMAIN requests = 1..Len(requests)
      /\ Len(requests) = Count(log, End, "model-request")
      /\ \A n \in 1..Len(requests) : requests[n][1] = invocations[n]
      /\ Cardinality(Ids) = Len(requests)
  BY DEF Inv, Typed, ScanInv, Order
<1>6. PICK n \in DOMAIN events : events[n].type = "model-request"
  BY <1>1 DEF Range
<1>7. n + 1 \in 2..at /\ log[n + 1].event = events[n]
  BY <1>2, EventIsLine
<1>8. requests # <<>>
  <2>1. PICK i \in 1..Len(requests) :
          requests[i] = <<log[n + 1].event.call, log[n + 1].event.resource>>
    BY <1>6, <1>7 DEF Inv, ScanInv, Requests
  <2> QED
    BY <2>1
<1>9. Ids \subseteq closures
  <2> SUFFICES ASSUME NEW i \in 1..Len(requests) PROVE requests[i][1] \in closures
    BY DEF Ids
  <2>1. PICK m \in 2..at : /\ log[m].event.type = "model-request"
                           /\ requests[i] = <<log[m].event.call, log[m].event.resource>>
    BY DEF Inv, ScanInv, Requests
  <2>2. m - 1 \in DOMAIN events /\ log[m].event = events[m - 1]
    BY <1>2, <1>3, LineIsEvent
  <2>3. Ended(log[m].event.call)
    BY <1>1, <2>1, <2>2 DEF Range
  <2>4. PICK j \in DOMAIN events : /\ events[j].type \in Results
                                   /\ events[j].call = log[m].event.call
    BY <2>3 DEF Ended, Range, Results
  <2>5. j + 1 \in 2..at /\ log[j + 1].event = events[j]
    BY <1>2, EventIsLine
  <2>6. log[j + 1].event.call \in closures
    BY <2>4, <2>5 DEF Inv, ScanInv, Closures
  <2> QED
    BY <2>1, <2>4, <2>5, <2>6
<1>10. closures \subseteq Ids
  <2> SUFFICES ASSUME NEW c \in closures PROVE c \in Ids
    OBVIOUS
  <2>1. PICK m \in 2..at : log[m].event.type \in Results /\ log[m].event.call = c
    BY DEF Inv, ScanInv, Closures
  <2>2. PICK i \in 1..Len(requests) :
          requests[i] = <<log[m].event.call, log[m].event.resource>>
    BY <2>1 DEF Inv, ScanInv, Closures
  <2>3. requests[i][1] = c
    BY <2>1, <2>2
  <2> QED
    BY <2>3 DEF Ids
<1>11. Paired
  <2>1. closures = Ids
    BY <1>9, <1>10
  <2> QED
    BY <1>5, <2>1 DEF Paired, Ids
<1>12. CountsMatch(footer)
  <2>1. Tally(Recorded(End)) = Tally(events)
    BY <1>2, <1>3, TallyIsCount, TallyIsHappened
  <2> QED
    BY <1>3, <2>1 DEF CountsMatch
<1>13. [i \in 1..Len(requests) |-> requests[i][1]] = footer.invocations
  <2>1. /\ invocations \in Seq(Nat) /\ Len(invocations) = Len(requests)
        /\ invocations = [i \in 1..Len(invocations) |-> invocations[i]]
    BY <1>5 DEF Inv, Typed, LogInv, Listed
  <2> QED
    BY <1>3, <1>5, <2>1
<1>14. OnlyRoot(footer)
  <2>1. resources = footer.resources
    BY <1>3 DEF Inv, ScanInv, Ends
  <2>2. \A m \in 2..End : log[m].event.resource = Root
    <3> TAKE m \in 2..End
    <3>1. m - 1 \in DOMAIN events /\ log[m].event = events[m - 1]
      BY <1>2, <1>3, LineIsEvent
    <3> QED
      BY <1>1, <3>1 DEF Range
  <2>3. footer.resources = {Root}
    BY <1>3, <1>7, <2>2
  <2> QED
    BY <2>1, <2>3 DEF OnlyRoot
<1>15. Root \in terminals
  <2>1. PICK j \in DOMAIN events : events[j].type = "terminal-snapshot" /\ events[j].resource = Root
    BY <1>1 DEF Terminated, Range
  <2>2. j + 1 \in 2..at /\ log[j + 1].event = events[j]
    BY <1>2, EventIsLine
  <2> QED
    BY <2>1, <2>2, RootAssumption DEF Inv, ScanInv, Ends
<1>16. terminals = resources
  <2>1. terminals \subseteq resources
    BY DEF Inv, ScanInv, Ends
  <2> QED
    BY <1>14, <1>15, <2>1 DEF OnlyRoot
<1>17. rootCause # "none"
  BY <1>15 DEF Inv, ScanInv, Ends
<1> HIDE DEF footer
<1>18. IsComplete(footer)
  BY <1>1, <1>3, <1>8, <1>11, <1>12, <1>13, <1>14, <1>16, <1>17 DEF IsComplete
<1> QED
  BY <1>4, <1>18 DEF footer

\* After the loop: the counts of the footer agree, or the attempt is refused.
LEMMA ConcludeKeeps ==
  ASSUME Inv, Conclude
  PROVE  Inv'
<1> DEFINE footer == log[Len(log)]
<1>1. Inspecting /\ at > 0 /\ at >= LastBody /\ UNCHANGED recorderVars
  BY DEF Conclude
<1>2. log # <<>> /\ at \in 1..End /\ recorder \in {"sealed", "killed"}
  BY <1>1 DEF Inv, ScanInv, Begun
<1>3. LastBody = End /\ End \in Nat /\ (HasFooter <=> recorder = "sealed")
  BY <1>1, <1>2, BodyEnds
<1>4. at = End
  BY <1>1, <1>2, <1>3
<1>5. CASE HasFooter /\ footer.form # "good"
  <2>1. Refuses
    <3>1. Return(Refused("invalid-footer"))
      BY <1>5 DEF Conclude
    <3> QED
      BY <3>1 DEF Refuses, Refusals
  <2>2. Len(log) \in Nat /\ Len(log) >= 1
    BY <1>2 DEF Inv, Typed
  <2>3. deviations # 0
    BY <1>2, <1>5, <2>2 DEF Inv, LogInv, Clean
  <2> QED
    BY <1>1, <2>1, <2>3, RefusedKeeps
<1>6. ASSUME NEW complete \in BOOLEAN, NEW reason \in Reasons \ {"none"},
             Return([prefixValid |-> TRUE, complete |-> complete, reason |-> reason]),
             recorder = "killed" => ~complete /\ reason \in {"missing-footer", "partial-tail"},
             recorder = "sealed" => (complete <=> IsComplete(footer))
      PROVE  Inv'
  <2>1. /\ UNCHANGED <<events, log, nextSeq, invocations, tail, oversized, recorder, deviations>>
        /\ UNCHANGED <<at, requests, closures, terminals, resources, rootCause, rootFailure>>
        /\ verdict' = [prefixValid |-> TRUE, complete |-> complete, reason |-> reason]
    BY <1>1, <1>6 DEF recorderVars, scanVars, Return
  <2>2. EventsInv' /\ LogInv' /\ End' = End
    BY <1>1, InspectionStays
  <2>3. ScanInv'
    <3>1. Idle' <=> Idle
      BY <2>1 DEF Idle
    <3>2. Begun' /\ Requests' /\ Closures'
      BY <2>1, <2>2 DEF Inv, ScanInv, Begun, Requests, Closures
    <3>3. Order'
      BY <2>1 DEF Inv, ScanInv, Order, Ids, Count
    <3>4. Failing'
      BY <2>1 DEF Inv, ScanInv, Failing, RootFails
    <3>5. Ends'
      BY <2>1 DEF Inv, ScanInv, Ends
    <3> QED
      BY <2>1, <3>1, <3>2, <3>3, <3>4, <3>5 DEF Inv, ScanInv
  <2>4. Typed'
    BY <1>6, <2>1 DEF Inv, Typed
  <2>5. /\ verdict'.complete = complete /\ verdict'.prefixValid = TRUE
        /\ verdict'.reason = reason
    BY <2>1
  <2>6. complete => recorder = "sealed" /\ IsComplete(footer)
    BY <1>2, <1>6
  <2>7. CompleteIsTheWholeStory' /\ TransportIsTheLastWord'
    <3>1. CASE complete
      <4>1. /\ Recorded(Len(log)) = <<Header>> \o events \o <<FooterRecord>>
            /\ \A e \in Range(events) : e.type = "model-request" => Ended(e.call)
            /\ \A e \in Range(events) : e.resource = Root
            /\ Snapshot(Root, rootCause) \in Range(events)
            /\ rootCause = "model-failure" /\ rootFailure = "transport" =>
                 \E n \in DOMAIN events : LastResult(n, Root) /\ events[n].detail = "transport"
        BY <1>2, <1>4, <2>6, <3>1, CompleteMeans
      <4>2. Recorded(Len(log))' = Recorded(Len(log))
        BY <2>1 DEF Recorded
      <4>3. \A n : LastResult(n, Root)' <=> LastResult(n, Root)
        BY <2>1 DEF LastResult
      <4>4. \A i : Ended(i)' <=> Ended(i)
        BY <2>1 DEF Ended
      <4>5. CompleteIsTheWholeStory'
        BY <2>1, <4>1, <4>2, <4>4 DEF CompleteIsTheWholeStory
      <4>6. TransportIsTheLastWord'
        BY <2>1, <4>1, <4>3 DEF TransportIsTheLastWord
      <4> QED
        BY <4>5, <4>6
    <3>2. CASE ~complete
      BY <2>5, <3>2 DEF CompleteIsTheWholeStory, TransportIsTheLastWord
    <3> QED
      BY <3>1, <3>2
  <2>8. WholeIsComplete'
    <3>1. Whole' <=> Whole
      BY <2>1 DEF Whole, Ended, Terminated
    <3>2. Whole => complete
      <4>1. Whole => recorder = "sealed"
        BY DEF Whole
      <4> QED
        BY <1>2, <1>4, <1>6, <4>1, WholeMeans
    <3> QED
      BY <2>5, <3>1, <3>2 DEF WholeIsComplete
  <2>9. CutIsReadable'
    BY <1>6, <2>1, <2>5 DEF CutIsReadable
  <2>10. VerdictInv'
    BY <1>2, <2>1, <2>7, <2>8, <2>9 DEF VerdictInv
  <2> QED
    BY <2>2, <2>3, <2>4, <2>10 DEF Inv
<1>7. CASE ~HasFooter
  <2> DEFINE why == IF tail THEN "partial-tail" ELSE "missing-footer"
  <2>1. Return([prefixValid |-> TRUE, complete |-> FALSE, reason |-> why])
    BY <1>7 DEF Conclude
  <2>2. why \in Reasons \ {"none"} /\ why \in {"missing-footer", "partial-tail"}
    BY DEF Reasons
  <2> HIDE DEF why
  <2> QED
    BY <1>2, <1>3, <1>6, <1>7, <2>1, <2>2
<1>8. CASE HasFooter /\ footer.form = "good"
  <2> DEFINE why == IF IsComplete(footer) THEN "complete" ELSE "incomplete-footer"
  <2>1. Return([prefixValid |-> TRUE, complete |-> IsComplete(footer), reason |-> why])
    BY <1>8 DEF Conclude
  <2>2. why \in Reasons \ {"none"}
    BY DEF Reasons
  <2>3. IsComplete(footer) \in BOOLEAN
    BY DEF IsComplete
  <2> HIDE DEF why
  <2> QED
    BY <1>3, <1>6, <1>8, <2>1, <2>2, <2>3
<1> QED
  BY <1>5, <1>7, <1>8

-----------------------------------------------------------------------------
(* The theorems. *)

\* Nothing has happened, nothing is written, nothing read.
LEMMA InitInv == Init => Inv
<1> SUFFICES ASSUME Init PROVE Inv
  OBVIOUS
<1>1. /\ events = <<>> /\ log = <<>> /\ recorder = "off" /\ at = 0 /\ verdict = NoVerdict
      /\ End = 0 /\ Len(log) = 0 /\ Len(invocations) = 0 /\ Len(requests) = 0
      /\ requests = <<>> /\ invocations = <<>>
  BY DEF Init, End
<1>2. Typed
  <2>1. /\ events \in Seq(Event) /\ log \in Seq(Lines \cup Footers)
        /\ invocations \in Seq(Nat) /\ requests \in Seq(Numbers \X Resources)
    BY <1>1
  <2>2. nextSeq \in Nat /\ at \in Nat /\ deviations \in 0..MaxDeviations
    BY DeviationsAssumption DEF Init
  <2>3. verdict \in [prefixValid : BOOLEAN, complete : BOOLEAN, reason : Reasons]
    BY DEF Init, NoVerdict, Reasons
  <2>4. /\ tail \in BOOLEAN /\ oversized \in BOOLEAN
        /\ recorder \in {"off", "open", "sealed", "killed"}
        /\ rootCause \in Causes \cup {"none"} /\ rootFailure \in FailureReasons \cup {"none"}
    BY DEF Init
  <2> QED
    BY <2>1, <2>2, <2>3, <2>4 DEF Typed
<1>3. EventsInv
  BY <1>1 DEF EventsInv, Numbered, Answered, Ending
<1>4. \A k : Count(log, 0, k) = 0
  BY CountStep
<1>5. \A k : Happened(k) = 0
  <2> TAKE k
  <2>1. {n \in DOMAIN events : events[n].type = k} = {}
    BY <1>1
  <2> QED
    BY <2>1, FS_EmptySet DEF Happened
<1>6. LogInv
  BY <1>1, <1>4, <1>5 DEF Init, LogInv, Kept, Shape, Clean, Listed, Sealed
<1>7. ScanInv
  <2>1. Idle
    BY DEF Init, Idle
  <2>2. Begun /\ Requests /\ Closures /\ Ends /\ Failing
    BY <1>1, <2>1 DEF Idle, Begun, Requests, Closures, Ends, Failing
  <2>3. Ids = {}
    BY <1>1 DEF Ids
  <2>4. Order
    BY <1>1, <1>4, <2>3, FS_EmptySet DEF Order
  <2> QED
    BY <1>1, <2>1, <2>2, <2>4 DEF ScanInv
<1>8. VerdictInv
  BY <1>1 DEF VerdictInv, Returned, NoVerdict, CompleteIsTheWholeStory, WholeIsComplete,
              CutIsReadable, TransportIsTheLastWord
<1> QED
  BY <1>2, <1>3, <1>6, <1>7, <1>8 DEF Inv

\* Every step of the inspection.
LEMMA InspectionKeeps == Inv /\ Inspection => Inv'
<1> SUFFICES ASSUME Inv, Inspection PROVE Inv'
  OBVIOUS
<1>1. CASE Scan
  <2>1. Scanning /\ UNCHANGED recorderVars
    BY <1>1 DEF Scan
  <2>2. log[at + 1].event \in Event
    BY <2>1, AtNext
  <2>3. CASE log[at + 1].event.type = "model-request"
    BY <1>1, <2>1, <2>3, ScanRequestKeeps DEF Scan
  <2>4. CASE log[at + 1].event.type \in Results
    BY <1>1, <2>1, <2>4, ScanClosureKeeps DEF Scan, Results
  <2>5. CASE log[at + 1].event.type = "terminal-snapshot"
    BY <1>1, <2>1, <2>5, ScanSnapshotKeeps DEF Scan
  <2> QED
    BY <2>2, <2>3, <2>4, <2>5 DEF Event, Results
<1> QED
  BY <1>1, BeginKeeps, ConcludeKeeps DEF Inspection

\* Every step, of the recorder or of the inspection.
LEMMA NextKeeps == Inv /\ [Next]_vars => Inv'
<1> SUFFICES ASSUME Inv, [Next]_vars PROVE Inv'
  OBVIOUS
<1>1. CASE Next
  BY <1>1, RecorderKeeps, InspectionKeeps DEF Next
<1>2. CASE UNCHANGED vars
  <2>1. /\ UNCHANGED <<events, log, nextSeq, invocations, tail, oversized, recorder, deviations>>
        /\ UNCHANGED <<at, requests, closures, terminals, resources, rootCause, rootFailure>>
        /\ UNCHANGED verdict
    BY <1>2 DEF vars, recorderVars, scanVars
  <2>2. End' = End
    BY <2>1 DEF End
  <2>3. EventsInv' /\ LogInv'
    BY <2>1, <2>2, EventsStay, LogStays DEF Inv
  <2>4. ScanInv'
    <3>1. Idle' <=> Idle
      BY <2>1 DEF Idle
    <3>2. Begun' /\ Requests' /\ Closures'
      BY <2>1, <2>2 DEF Inv, ScanInv, Begun, Requests, Closures
    <3>3. Order'
      BY <2>1 DEF Inv, ScanInv, Order, Ids, Count
    <3>4. Failing'
      BY <2>1 DEF Inv, ScanInv, Failing, RootFails
    <3>5. Ends'
      BY <2>1 DEF Inv, ScanInv, Ends
    <3> QED
      BY <2>1, <3>1, <3>2, <3>3, <3>4, <3>5 DEF Inv, ScanInv
  <2>5. Typed'
    BY <2>1 DEF Inv, Typed
  <2>6. VerdictInv'
    <3>1. Recorded(Len(log))' = Recorded(Len(log))
      BY <2>1 DEF Recorded
    <3>2. \A n : LastResult(n, Root)' <=> LastResult(n, Root)
      BY <2>1 DEF LastResult
    <3>3. \A i : Ended(i)' <=> Ended(i)
      BY <2>1 DEF Ended
    <3>4. CompleteIsTheWholeStory'
      BY <2>1, <3>1, <3>3 DEF Inv, VerdictInv, CompleteIsTheWholeStory
    <3>5. TransportIsTheLastWord'
      BY <2>1, <3>2 DEF Inv, VerdictInv, TransportIsTheLastWord
    <3>6. WholeIsComplete' /\ CutIsReadable'
      BY <2>1, <3>3 DEF Inv, VerdictInv, WholeIsComplete, Whole, Terminated, CutIsReadable, Returned
    <3> QED
      BY <2>1, <3>4, <3>5, <3>6 DEF Inv, VerdictInv, Returned
  <2> QED
    BY <2>3, <2>4, <2>5, <2>6 DEF Inv
<1> QED
  BY <1>1, <1>2

\* The invariant holds always.
LEMMA Invariant == Spec => []Inv
  BY InitInv, NextKeeps, PTL DEF Spec

\* The inspection indexes the log within its bounds, closes only calls it has seen, and ends only
\* runs it has seen, however the recorder goes wrong.
THEOREM TypeCorrect == Spec => []TypeOK
<1>1. Inv => TypeOK
  <2> SUFFICES ASSUME Inv PROVE TypeOK
    OBVIOUS
  <2>0. at = 0 \/ at \in 1..End
    BY DEF Inv, Typed, ScanInv, Begun
  <2>1. at \in 0..Len(log)
    <3> DEFINE length == Len(log)
    <3>1. length \in Nat
      BY DEF Inv, Typed
    <3>2. End = length \/ End = length - 1
      BY DEF End
    <3> HIDE DEF length
    <3>3. at \in 0..length
      BY <2>0, <3>1, <3>2
    <3> QED
      BY <3>3 DEF length
  <2>2. closures \subseteq {call[1] : call \in Range(requests)}
    <3> SUFFICES ASSUME NEW c \in closures
                 PROVE  \E call \in Range(requests) : c = call[1]
      OBVIOUS
    <3>1. PICK m \in 2..at : log[m].event.type \in Results /\ log[m].event.call = c
      BY DEF Inv, ScanInv, Closures
    <3>2. PICK n \in 1..Len(requests) :
            requests[n] = <<log[m].event.call, log[m].event.resource>>
      BY <3>1 DEF Inv, ScanInv, Closures
    <3>3. requests[n] \in Range(requests) /\ requests[n][1] = c
      BY <3>1, <3>2 DEF Range, Inv, Typed
    <3> QED
      BY <3>3
  <2>3. terminals \subseteq resources /\ resources \subseteq Resources
    <3>1. ASSUME NEW m \in 2..at PROVE log[m].event.resource \in Resources
      <4>1. log[m].event \in Event
        <5>1. End \in Int
          BY DEF End, Inv, Typed
        <5>2. m \in 2..End
          BY <2>0, <5>1
        <5> QED
          BY <5>2 DEF Inv, LogInv, Shape
      <4> QED
        BY <4>1 DEF Event
    <3> QED
      BY <3>1 DEF Inv, ScanInv, Ends
  <2> QED
    BY <2>1, <2>2, <2>3 DEF Inv, Typed, Numbers, TypeOK
<1> QED
  BY <1>1, Invariant, PTL

\* Whatever the recorder loses or garbles: an attempt is admitted as complete only if its log is
\* all that happened, each call with its result and the root run with its end.
THEOREM CompleteIsTheWholeStoryHolds == Spec => []CompleteIsTheWholeStory
  BY Invariant, PTL DEF Inv, VerdictInv

\* The log of a whole attempt, recorded without deviation and sealed as complete, is admitted.
THEOREM WholeIsCompleteHolds == Spec => []WholeIsComplete
  BY Invariant, PTL DEF Inv, VerdictInv

\* A kill at any moment leaves a readable prefix.
THEOREM CutIsReadableHolds == Spec => []CutIsReadable
  BY Invariant, PTL DEF Inv, VerdictInv

\* The failure an admitted attempt is retried for is the last word of its root run.
THEOREM TransportIsTheLastWordHolds == Spec => []TransportIsTheLastWord
  BY Invariant, PTL DEF Inv, VerdictInv

=============================================================================
