SPECIFICATION Spec
INVARIANT TypeOK
INVARIANT GracefulIsQuiet
PROPERTY ResolvesOnce
PROPERTY NoKillAfterSettle
PROPERTY Resolves
CHECK_DEADLOCK FALSE
