SPECIFICATION Spec
CONSTANTS
  Bits = 11
  P = 2029
  D = 1844
  L = 257
  BaseU = 9
  EightInvModL = 225
  None = None
  PrivateKey = {1024, 1040, 1512, 2040}
  Message = {0, 1}
  Nonce = {0, 1, 2, 5, 128, 256}
INVARIANTS
  ValidKeysHavePrimeOrder
  ValidatedSecretsAgree
  SignatureVerifies
  SignatureScalarUnique
CHECK_DEADLOCK FALSE
