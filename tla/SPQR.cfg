SPECIFICATION Spec
CONSTANTS
  Initiator = Initiator
  Responder = Responder
  ZeroKey = ZeroKey
  NoKey = NoKey
  MaxSkip = 4
  MaxSends = 4
  MaxNumber = 5
INVARIANTS
  SessionFollowsProvider
  EncryptNeverFails
  RecentOutstandingDecryptable
  AcceptedAtMostOnce
  AuthFailureLeavesSession
CHECK_DEADLOCK FALSE
