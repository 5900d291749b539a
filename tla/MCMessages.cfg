SPECIFICATION Spec
CONSTANTS
  Base = 8
  W16 = 2
  W32 = 1
  W64 = 1
  MAILBOX_ID_LEN = 1
  RECOVERY_CONTRIB_LEN = 1
  OFFER_SIG_LEN = 1
  ABSENT_ID = 7
  MAX_OFFER_TTL_S = 3
  FUTURE_SKEW_S = 1
  Buckets = {4, 8}
  Clocks = {2, 3}
  Offers <- MCOffers
  Samples <- MCSamples
  Typed <- MCTyped
  Relays <- MCRelays
  Handoffs <- MCHandoffs
  PeerFrames <- MCPeerFrames
  MAX_CHAT_UTF8_BYTES = 5
  MAX_LABEL_SCALARS = 4
  max_blob_bytes = 14
  Shifts = {1, 4}
  MaxConvs = 2
  MaxMsgs = 2
  MaxEdited = 1
INVARIANTS OfferClass ParsersStrict OutboxInOrder RowsKeepRules
PROPERTIES ActivityRises
CHECK_DEADLOCK FALSE
