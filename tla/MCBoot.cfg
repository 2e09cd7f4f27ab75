SPECIFICATION Spec
CONSTANTS
  Keys <- MCKeys
  Envs <- MCAnyMunera
  MaxChanges = 2
INVARIANTS ListensWithKey CheckIsTrue
PROPERTY ComesUp
