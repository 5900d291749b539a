SPECIFICATION Spec
CONSTANTS
  Sender = {tap1}
  Quota <- OneTwo
  Budget <- NoFault
  MaxFaults = 0
CHECK_DEADLOCK FALSE
INVARIANTS AckedMeansPersisted
