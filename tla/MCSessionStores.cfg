SPECIFICATION MCSpec
CONSTANTS
  RatchetPK = {pk1, pk2}
  MessageNumber = {0, 1}
  MessageKey = {mk1, mk2}
  MaxSkip = 3
  ZeroKey = ZeroKey
  NoKey = NoKey
  PK = {pk1, pk2, pk3, pk4}
  CK = {ck1, ck2}
  Nr = {0, 1}
  ReceiverChainsMax = 3
PROPERTIES
  ImplementsFifoMap
  ImplementsLatestChains
