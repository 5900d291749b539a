SPECIFICATION FairSpec
CONSTANTS
  launch = launch
  Caller <- OneCaller
  Script <- Cycles
  MaxKills = 2
CHECK_DEADLOCK FALSE
INVARIANTS OrderlyStop EngineHasService
PROPERTIES CommandSyncs
