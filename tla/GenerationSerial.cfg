\* One task at a time, as bench.yml runs the harness; two write faults.
CONSTANTS
  NTasks = 2
  Concurrency = 1
  PreflightModes <- Benchmark
  MaxFaults = 2
SPECIFICATION Spec
INVARIANT SerialIsolation
PROPERTY Completes
