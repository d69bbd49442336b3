SPECIFICATION FairSpec
CONSTANTS
  Receiver = Receiver
  Sender = Sender
  ZeroKey = ZeroKey
  NoKey = NoKey
  ReceiverChainsMax = 2
  MaxSkip = 2
  WordSize = 8
  LongestChain = 4
INVARIANTS
  CallComputesDecrypt
PROPERTY DecryptReturns
