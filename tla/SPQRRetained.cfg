SPECIFICATION Spec
CONSTANTS
  Initiator = Initiator
  Responder = Responder
  ZeroKey = ZeroKey
  NoKey = NoKey
  MaxSkip = 1
  MaxSends = 4
  MaxNumber = 2
INVARIANT RetainedKeysWithinMaxSkip
CHECK_DEADLOCK FALSE
