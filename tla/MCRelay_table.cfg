SPECIFICATION Spec
CONSTANTS
  c1 = c1
  c2 = c2
  NoSubscriber = NoSubscriber
  Conn <- OneConn
  NumIds = 2
  NumDeletes = 1
  BlobLen = {1, 2}
  MaxMessages = 2
  MaxBytes = 3
  MaxMailboxes = 2
  Ttl = 1
  MaxDeposits = 2
  MaxClock = 2
CHECK_DEADLOCK FALSE
INVARIANTS TypeOK ByteAccounting ActivityCoversQueue
PROPERTIES NoSilentLoss ImplementsService
