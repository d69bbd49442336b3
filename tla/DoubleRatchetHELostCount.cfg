SPECIFICATION Spec
CONSTANTS
  Initiator = Initiator
  Responder = Responder
  ZeroKey = ZeroKey
  NoKey = NoKey
  ReceiverChainsMax = 5
  MaxSkip = 4
  MaxSends = 3
INVARIANT
  PNCountsPreviousChain
CHECK_DEADLOCK FALSE
