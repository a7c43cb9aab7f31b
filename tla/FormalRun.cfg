\* Two batches, three tasks, one "re-run failed jobs".
CONSTANTS
  b1 = b1
  b2 = b2
  t1 = t1
  t2 = t2
  t3 = t3
  Batches = {b1, b2}
  Tasks = {t1, t2, t3}
  BatchOf <- MCBatchOf
  GateOutcomes <- GatesAdmit
  MaxAttempts = 2
SYMMETRY TaskSymmetry
SPECIFICATION Spec
INVARIANT TypeOK
INVARIANT AcceptedIsExact
INVARIANT AcceptedAttempts
INVARIANT AcceptedKeepsSource
PROPERTY GapsCloseOnce
CHECK_DEADLOCK FALSE
