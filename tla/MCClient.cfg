SPECIFICATION Spec
CONSTANTS
  Thread = {t1, t2}
  Conv = {c1, c2}
  SchemaVersion = 2
  MaxTasks = 2
INVARIANTS NeverBricked StoppedIsQuiet SyncedListens
PROPERTIES OneIdentity StopReturns
CHECK_DEADLOCK FALSE
