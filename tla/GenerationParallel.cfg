\* A batch of two tasks on the shared worker account; one write fault.
CONSTANTS
  NTasks = 2
  Concurrency = 2
  PreflightModes <- BothModes
  MaxFaults = 1
SPECIFICATION Spec
INVARIANT TypeOK
INVARIANT RecordIsReceipt
INVARIANT ConclusiveIsEarned
INVARIANT QuietCapture
INVARIANT NothingOutlivesDirectory
PROPERTY RecordsAreFinal
