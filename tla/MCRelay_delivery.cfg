SPECIFICATION FairSpec
CONSTANTS
  c1 = c1
  c2 = c2
  NoSubscriber = NoSubscriber
  Conn <- MCConn
  NumIds = 1
  NumDeletes = 1
  BlobLen = {1}
  MaxMessages = 2
  MaxBytes = 3
  MaxMailboxes = 1
  Ttl = 1
  MaxDeposits = 2
  MaxClock = 0
CHECK_DEADLOCK FALSE
INVARIANTS NoLostWakeup InOrderOnce
PROPERTIES EventuallySent PingedCloses
