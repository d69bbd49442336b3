SPECIFICATION MCSpec
CONSTANTS
  Initiator = Initiator
  Responder = Responder
  ZeroKey = ZeroKey
  NoKey = NoKey
  CorruptKey = CorruptKey
  ReceiverChainsMax = 2
  MaxSkip = 2
  MaxSends = 4
  MaxNumber = 3
INVARIANTS
  TypeOK
  MessageKeyNeverReused
  PNCountsPreviousChain
  ReceiverKeysMatchSender
  OutstandingDecryptableInWindow
  NextInOrderDecryptable
  RejectionLeavesSession
PROPERTIES
  CurrentChainAtMostOnce
CHECK_DEADLOCK FALSE
