SPECIFICATION Spec
CONSTANTS
  Initiator = Initiator
  Responder = Responder
  ZeroKey = ZeroKey
  NoKey = NoKey
  CorruptKey = CorruptKey
  ReceiverChainsMax = 5
  MaxSkip = 4
  MaxSends = 3
  MaxNumber = 4
INVARIANT NoMessageAcceptedTwice
CHECK_DEADLOCK FALSE
