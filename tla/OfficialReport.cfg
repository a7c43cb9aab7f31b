\* One invocation over two tasks, one of them with a prediction; nothing fails.
CONSTANTS
  first = first
  second = second
  Invocations = {first}
  NTasks = 2
  Predicted = {1}
  Concurrency = 1
  MaxFaults = 0
SPECIFICATION Spec
INVARIANT ReportVerifies
CHECK_DEADLOCK FALSE
