SPECIFICATION Spec
CONSTANTS
  Sender = {tap1, tap2}
  Quota <- TwoNone
  Budget <- EachFault
  MaxFaults = 2
SYMMETRY Taps
CHECK_DEADLOCK FALSE
INVARIANTS SentMeansAccepted FirstCopiesInOrder AckedMeansPersisted LossBounded
