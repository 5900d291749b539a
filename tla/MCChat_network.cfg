SPECIFICATION FairSpec
CONSTANTS
  Sender = {tap1}
  Quota <- TwoNone
  Budget <- Network
  MaxFaults = 4
CHECK_DEADLOCK FALSE
INVARIANTS ExactlyOnceInOrder
PROPERTIES EventuallyDelivered
