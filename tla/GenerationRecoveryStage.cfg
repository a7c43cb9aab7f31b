\* One task, no write fault: the deadline passes and the account-wide pkill fails.
CONSTANTS
  NTasks = 1
  Concurrency = 1
  PreflightModes <- Benchmark
  MaxFaults = 0
SPECIFICATION Spec
INVARIANT RecoveryStagesPrecedeModel
