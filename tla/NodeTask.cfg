\* One job, every outcome of its commands and writes, killed at any point.
SPECIFICATION Spec
INVARIANT TypeOK
INVARIANT PredictionIsEarned
INVARIANT EvidenceOutlivesModel
INVARIANT LockCoversContainers
INVARIANT SuccessIsAccounted
PROPERTY Ends
CHECK_DEADLOCK FALSE
