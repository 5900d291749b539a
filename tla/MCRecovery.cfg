SPECIFICATION Spec
CONSTANTS
  RECOVERY_WINDOW = 2
  RECOVERY_PROBE_CYCLES = 2
  HelloRing = 1
  Talkers <- OffererOnly
  Rooted = {TRUE, FALSE}
  Budgets <- Mixed
CHECK_DEADLOCK FALSE
INVARIANTS TypeOK PeerGenKnown GivesUpLate
PROPERTIES GenerationsRise Reconverges
