SPECIFICATION MCSpec
CONSTANTS
  Initiator = Initiator
  Responder = Responder
  ZeroKey = ZeroKey
  NoKey = NoKey
  CorruptKey = CorruptKey
  ReceiverChainsMax = 2
  MaxSkip = 3
  MaxSends = 4
  MaxNumber = 4
INVARIANTS
  EachHalfNeverReusesKey
  FailedEncryptLeavesSession
  RejectionLeavesSession
  RecentOutstandingDecryptable
  ErasedForGood
PROPERTIES
  ImplementsChannel
CHECK_DEADLOCK FALSE
