\* Two invocations over three tasks, two of them with a prediction, in batches of two.
CONSTANTS
  first = first
  second = second
  Invocations = {first, second}
  NTasks = 3
  Predicted = {1, 3}
  Concurrency = 2
  MaxFaults = 1
SPECIFICATION Spec
INVARIANT TypeOK
INVARIANT EvaluatedAtMostOnce
INVARIANT ClaimPrecedesCall
INVARIANT ReportIsOnFile
CHECK_DEADLOCK FALSE
