\* One write fault while a receipt is written.
CONSTANTS
  NTasks = 2
  Concurrency = 1
  PreflightModes <- Benchmark
  MaxFaults = 1
SPECIFICATION Spec
INVARIANT RejectionNeverAborts
