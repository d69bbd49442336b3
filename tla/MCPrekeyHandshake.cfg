SPECIFICATION MCSpec
CONSTANTS
  Alice = Alice
  Bob = Bob
  Carol = Carol
  ZeroKey = ZeroKey
  NoKey = NoKey
  NoId = NoId
  BobKeys <- MCBobKeys
  MaxHandshakes = 2
  MaxCompletions = 2
INVARIANTS
  SecretAgreementIsFull
  BundleBelongsToIdentity
  OneSignedPreKeyFits
  OneTimePreKeyUsedOnce
CHECK_DEADLOCK FALSE
