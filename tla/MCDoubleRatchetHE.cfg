SPECIFICATION MCSpec
CONSTANTS
  Initiator = Initiator
  Responder = Responder
  ZeroKey = ZeroKey
  NoKey = NoKey
  ReceiverChainsMax = 2
  MaxSkip = 1
  MaxSends = 4
INVARIANTS
  HeaderNonceNeverReused
  NextHeaderOpens
  DirectionsSeparate
  AcceptedAtMostOnce
  OutstandingDecryptableIfCareful
  RejectionLeavesSession
  ErasedForGood
CHECK_DEADLOCK FALSE
