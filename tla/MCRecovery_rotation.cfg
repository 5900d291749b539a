SPECIFICATION Spec
CONSTANTS
  RECOVERY_WINDOW = 4
  RECOVERY_PROBE_CYCLES = 3
  HelloRing = 512
  Talkers <- Anyone
  Rooted = {TRUE}
  Budgets <- OneLoss
CHECK_DEADLOCK FALSE
INVARIANT RotationKeepsChat
