SPECIFICATION Spec
CONSTANTS
  u1 = u1
  u2 = u2
  n1 = n1
  n2 = n2
  c1 = c1
  c2 = c2
  k1 = k1
  s1 = s1
  s2 = s2
  s3 = s3
  Ids <- MCIds
  Names <- MCNames
  SessionIds <- MCSessionIds
  KeyIds = {k1}
  Calls <- MCCalls
  Operations <- MCOperations
  MaxSessions = 1
  MaxKeys = 1
  NormalLife = 2
  RestrictedLife = 1
  TemporaryLife = 1
  KeyLife = 1
  MaxTime = 2
SYMMETRY MCSymmetry
INVARIANTS
  OneAdministrator
  NamesUnique
  SessionsWithinCap
  RetiredForGood
PROPERTY
  SessionsKeepTheirRights
CHECK_DEADLOCK FALSE
