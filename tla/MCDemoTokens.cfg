SPECIFICATION TokensSpec
CONSTANTS
  n1 = n1
  n2 = n2
  n3 = n3
  global = global
  Everybody = global
  Names <- MCNames
  Operations <- AllOperations
  Maximum <- MCMaximum
  Window <- MCWindow
  MaxEntries = 9
  MaxTokens = 1
  MaxCleaned = 1
  TokenLife = 3
  MaxTime = 3
SYMMETRY NameSymmetry
INVARIANTS
  LimitsHold
PROPERTY
  NoWindowForgotten
CHECK_DEADLOCK FALSE
