\* Two dispatches of the workflows of the first task and of the first batch, one of a batch that
\* shares a task with it; four dispatches and re-runs in all.
CONSTANT NTasks = 2
CONSTANT Batch <- TwoBatches
CONSTANT MaxRuns <- Bounds
CONSTANT MaxRequests = 4
SPECIFICATION Spec
INVARIANT TypeOK
INVARIANT OneSuccess
INVARIANT VerdictNamesAttempt
INVARIANT BatchAfterFirst
PROPERTY RepeatIsDeclared
CHECK_DEADLOCK FALSE
