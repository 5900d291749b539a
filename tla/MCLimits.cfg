SPECIFICATION Spec
CONSTANTS
  s1 = s1
  s2 = s2
  b1 = b1
  Source <- TwoSources
  Mailbox <- OneMailbox
  Limit <- Limits
  MaxSources = 1
  MaxIdle = 2
  Minute = 2
  MaxClock = 5
SYMMETRY Swap
CHECK_DEADLOCK FALSE
INVARIANTS RateHeld SourcesBounded
PROPERTIES ActiveKept
