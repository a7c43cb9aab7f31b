\* Two predictions whose run ids are cut to the same, a log of up to three entries after its
\* header, two batches of one task each, each re-graded up to once.
CONSTANT NPredictions = 2
CONSTANT BatchId <- Batch
CONSTANT InstanceId <- Instances
CONSTANT RunIdLength = 3
CONSTANT PullAttempts = 3
CONSTANT MaxEntries = 3
CONSTANT FrozenTasks <- TwoTasks
CONSTANT Batches <- TwoBatches
CONSTANT MaxGradings = 1
SPECIFICATION Spec
INVARIANT ConclusiveIsUndisturbed
PROPERTY ImplementsEarnedVerdict
CHECK_DEADLOCK FALSE
