SPECIFICATION Spec
CONSTANTS
  Keys <- MCKeys
  Envs <- MCAnyMunera
  MaxChanges = 1
INVARIANT RefusedKeyWasSent
