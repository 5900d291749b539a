SPECIFICATION Spec
CONSTANTS
  Offer = {o1, o2}
  Scanner = {r1, r2}
  OFFER_TTL_S = 1
  FUTURE_SKEW_S = 0
  ABSENT_ID = 4
  Skews <- Skewed
  MaxClock = 1
  Budgets <- Scenarios
INVARIANTS PairedAgree OfferKeepsKey
PROPERTIES  OneIsPaired
CHECK_DEADLOCK FALSE
