SPECIFICATION MemorySpec
CONSTANTS
  ZeroKey = ZeroKey
  NoKey = NoKey
  Owner = Owner
  Peer = Peer
  ReceiverChainsMax = 2
  MaxSkip = 2
  PeerKeys = 3
  MaxNumber = 2
  MaxCalls = 4
INVARIANTS
  CloseErasesSlices
PROPERTIES
  ImplementsCalls
CHECK_DEADLOCK FALSE
