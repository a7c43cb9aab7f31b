---------------------------- MODULE TrialHarness -----------------------------
(***************************************************************************)
(* One task of Frontier Harness or of Terminal-Bench:                      *)
(* scripts/frontier-harness-harness.mjs around Pier,                       *)
(* scripts/terminal-bench-harness.mjs around Harbor.  Each job has fresh   *)
(* directories and one task; the process may die at any time.              *)
(*                                                                         *)
(* External: the runner (Pier, Harbor), which leaves a trial directory     *)
(* with what its verifier and its agent came to, or part of it; and the    *)
(* log of the CLI in it, of which Frontier reads what follows.  (What      *)
(* Terminal-Bench reads of it is module Evidence, and no verdict depends   *)
(* on it.)                                                                 *)
(*                                                                         *)
(* Rewards are counted in halves.                                          *)
(***************************************************************************)
EXTENDS Naturals, Sequences

CONSTANT MaxEntries   \* bound: entries of the log after its header

VARIABLES
  suite,     \* "frontier" or "terminal"
  phase,     \* where the process is
  trial,     \* result.json of the latest trial directory
  log,       \* best-agent-evidence.jsonl
  logState,  \* how reading it ends
  summary,   \* what the reducer over its lines holds
  disposition  \* of the record

vars == <<suite, phase, trial, log, logState, summary, disposition>>

Whole == 2
\* The verifier writes "reward", or only other keys; <<>> is no reward at all.
RewardKeys == {"reward", "p2p"}
Rewards == {<<>>} \cup UNION {[keys -> 0..Whole] : keys \in (SUBSET RewardKeys) \ {{}}}

NoTrial == [file |-> "none"]
Unparsable == [file |-> "torn"]
Results == [file : {"result"}, exception : BOOLEAN, rewards : Rewards]

\* Entries of the primary run have the header's run id.  Other lines say nothing here:
\* the counts of a footer are those of the log, and a line that is no JSON is skipped.
Header == [type |-> "header"]
Entries ==
  [type : {"model-outcome"}, run : {"root", "other"}]
  \cup [type : {"model-failure"}, run : {"root", "other"}, reason : {"connection", "timeout"}]
  \cup [type : {"terminal-snapshot"}, run : {"root", "other"},
        cause : {"model-failure", "completed"}]

Dispositions == {"passed", "failed", "error", "inconclusive", "not-evaluated"}

\* createEvidenceSummary: rootRunId is "null" until there is a header; of the reasons of the
\* failures only the last is asked for.
EmptySummary ==
  [lines |-> 0, rootRunId |-> "null", countedOutcomes |-> 0, primaryOutcomes |-> 0,
   terminalCause |-> "null", fatalFailureReason |-> "null"]

Init ==
  /\ suite \in {"frontier", "terminal"}
  /\ phase = "idle" /\ trial = NoTrial /\ logState = "readable" /\ disposition = "none"
  /\ summary = EmptySummary
  /\ log \in IF suite = "frontier" THEN {<<>>, <<Header>>} ELSE {<<>>}

-----------------------------------------------------------------------------
(* The log of an attempt: summarizeAttemptEvidence. *)

HasHeader == log # <<>> /\ log[1] = Header

\* feed: the last one wins, of the terminal snapshots and of the failures.
Feed(s, entry) ==
  LET is(type) == entry.type = type
      ofPrimary == s.rootRunId = "null" \/ entry.run = s.rootRunId
  IN
  [lines           |-> s.lines + 1,
   rootRunId       |-> IF is("header") THEN "root" ELSE s.rootRunId,
   countedOutcomes |-> s.countedOutcomes + IF is("model-outcome") THEN 1 ELSE 0,
   primaryOutcomes |->
     s.primaryOutcomes + IF is("model-outcome") /\ entry.run = s.rootRunId THEN 1 ELSE 0,
   terminalCause   |->
     IF is("terminal-snapshot") /\ ofPrimary THEN entry.cause ELSE s.terminalCause,
   fatalFailureReason |->
     IF is("model-failure") /\ ofPrimary THEN entry.reason ELSE s.fatalFailureReason]

\* modelOutcomes === 0: it is null if the file is missing or empty.
NoModelOutcome ==
  /\ summary.lines > 0
  /\ 0 = IF summary.rootRunId = "null" THEN summary.countedOutcomes ELSE summary.primaryOutcomes

\* connection and transport are one.
ProviderFailureReasons == {"connection"}

-----------------------------------------------------------------------------
(* The projections of a trial. *)

\* Mutant: any reward that is whole.
AnyWholeReward(rewards) == \E k \in DOMAIN rewards : rewards[k] >= Whole

CanonicalPassed(rewards) ==
  IF "reward" \in DOMAIN rewards THEN rewards["reward"] >= Whole
  ELSE \E k \in DOMAIN rewards : rewards[k] >= Whole

\* classifyTrialOutcome, with the evidence read.
ClassifyTrialOutcome(result) ==
  LET preModelFailure == result.exception /\ NoModelOutcome
      infraFailure == /\ summary.terminalCause = "model-failure"
                      /\ summary.fatalFailureReason \in ProviderFailureReasons
  IN
  IF preModelFailure \/ infraFailure THEN "error"
  ELSE IF result.rewards # <<>>
       THEN IF CanonicalPassed(result.rewards) THEN "passed" ELSE "failed"
  ELSE IF result.exception THEN "error" ELSE "inconclusive"

\* A line longer than a string makes it throw.
ClassifyTrialOutcomeOrDegrade(result) ==
  IF logState = "overlong" THEN "inconclusive" ELSE ClassifyTrialOutcome(result)

\* projectTrialResult of Terminal-Bench.
ProjectTrialResult(result) ==
  IF result.exception THEN "error"
  ELSE IF "reward" \in DOMAIN result.rewards /\ result.rewards["reward"] \in {0, Whole}
       THEN IF result.rewards["reward"] = Whole THEN "passed" ELSE "failed"
  ELSE "inconclusive"

-----------------------------------------------------------------------------
(* main. *)

Goto(place) == phase' = place

\* Arguments, corpus, source commits; for Frontier the staged copy of the task; the frozen
\* identity of the CLI and the provider; the output must not exist.  Any of it may throw.
PrepareFrontier ==
  /\ suite = "frontier" /\ phase = "idle"
  /\ Goto("staged") \/ Goto("ended")
  /\ UNCHANGED <<suite, trial, log, logState, summary, disposition>>

StagePierTask ==
  /\ phase = "staged"
  /\ Goto("verified") \/ Goto("ended")
  /\ UNCHANGED <<suite, trial, log, logState, summary, disposition>>

VerifyFrozenIdentity ==
  /\ phase = "verified"
  /\ Goto("running") \/ Goto("ended")
  /\ UNCHANGED <<suite, trial, log, logState, summary, disposition>>

PrepareTerminal ==
  /\ suite = "terminal" /\ phase = "idle"
  /\ Goto("verified") \/ Goto("ended")
  /\ UNCHANGED <<suite, trial, log, logState, summary, disposition>>

\* External: the CLI logs what its runs do.
AgentLogs ==
  /\ suite = "frontier" /\ phase = "running"
  /\ Len(log) < MaxEntries + IF HasHeader THEN 1 ELSE 0
  /\ \E entry \in Entries : log' = Append(log, entry)
  /\ UNCHANGED <<suite, phase, trial, logState, summary, disposition>>

\* runPier and runHarbor: the runner closed its pipes, whatever its status.
RunnerCloses ==
  /\ phase = "running" /\ Goto("closed")
  /\ trial' \in {NoTrial, Unparsable} \cup Results
  /\ logState' \in IF suite = "frontier" THEN {"readable", "overlong", "unreadable"}
                                         ELSE {"readable", "unreadable"}
  /\ UNCHANGED <<suite, log, summary, disposition>>

\* It could not be started, or its output could not be written.
RunnerRejects ==
  /\ phase = "running" /\ Goto("ended")
  /\ UNCHANGED <<suite, trial, log, logState, summary, disposition>>

\* Reading result.json and the log is not guarded: main throws before there is a record.
ReadingThrows == trial = Unparsable \/ (trial # NoTrial /\ logState = "unreadable")

\* There are lines of the log to be read.
Unread ==
  /\ suite = "frontier" /\ trial # NoTrial /\ ~ReadingThrows
  /\ logState = "readable" /\ summary.lines < Len(log)

\* One turn of the loop of summarizeAttemptEvidence.
FeedLine ==
  /\ phase = "closed" /\ Unread
  /\ summary' = Feed(summary, log[summary.lines + 1])
  /\ UNCHANGED <<suite, phase, trial, log, logState, disposition>>

Record(what) ==
  /\ phase = "closed"
  /\ IF ReadingThrows THEN UNCHANGED disposition
                      ELSE disposition' \in {"torn", IF trial = NoTrial THEN "not-evaluated"
                                                                     ELSE what}
  /\ Goto("ended")
  /\ UNCHANGED <<suite, trial, log, logState, summary>>

RecordFrontier ==
  suite = "frontier" /\ ~Unread /\ Record(ClassifyTrialOutcomeOrDegrade(trial))

RecordTerminal == suite = "terminal" /\ Record(ProjectTrialResult(trial))

\* The job is cancelled or the host goes away.
Dies ==
  /\ phase \notin {"idle", "ended"} /\ Goto("ended")
  /\ UNCHANGED <<suite, trial, log, logState, summary, disposition>>

Next ==
  \/ PrepareFrontier \/ StagePierTask \/ PrepareTerminal \/ VerifyFrozenIdentity
  \/ AgentLogs \/ RunnerCloses \/ RunnerRejects \/ FeedLine
  \/ RecordFrontier \/ RecordTerminal \/ Dies

-----------------------------------------------------------------------------
(* What the verifier said, as EarnedVerdict has it. *)

\* The provider ended the primary run: it says so at its end, and no other failure of the
\* model came after the last one of the connection.
Outage ==
  LET Of(i, type) == log[i].type = type /\ (~HasHeader \/ log[i].run = "root")
      LastOf(i, type) == Of(i, type) /\ \A j \in DOMAIN log : Of(j, type) => j <= i
  IN /\ \E i \in DOMAIN log : /\ LastOf(i, "terminal-snapshot")
                              /\ log[i].cause = "model-failure"
     /\ \E i \in DOMAIN log : LastOf(i, "model-failure") /\ log[i].reason = "connection"

\* The agent failed without an answer of the model.
Unanswered ==
  /\ trial.exception /\ log # <<>>
  /\ \A i \in DOMAIN log : log[i].type = "model-outcome" => HasHeader /\ log[i].run # "root"

\* A verifier is heard if there was an attempt to verify.  With a key "reward" that is what
\* it says: Frontier asks for a whole one, Terminal-Bench knows only 0 and 1.
Oracle ==
  IF trial.file # "result" \/ trial.rewards = <<>> THEN "silent"
  ELSE LET best == IF "reward" \in DOMAIN trial.rewards THEN {"reward"} ELSE DOMAIN trial.rewards
           whole == \E k \in best : trial.rewards[k] >= Whole
       IN CASE suite = "frontier" ->
                 IF Outage \/ Unanswered THEN "silent" ELSE IF whole THEN "pass" ELSE "fail"
            [] suite = "terminal" ->
                 IF trial.exception \/ "reward" \notin DOMAIN trial.rewards THEN "silent"
                 ELSE CASE trial.rewards["reward"] = Whole -> "pass"
                        [] trial.rewards["reward"] = 0     -> "fail"
                        [] OTHER                           -> "silent"

VerdictRecorded ==
  CASE disposition \in {"none", "torn"}       -> "none"
    [] disposition \in {"passed", "failed"}   -> disposition
    [] OTHER                                  -> "open"

=============================================================================
