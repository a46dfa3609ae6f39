SPECIFICATION Spec
CONSTANTS
  f1 = f1
  f2 = f2
  L = L
  P = P
  Q = Q
  b1 = b1
  b2 = b2
  b3 = b3
  None = None
  Body = {b1, b2, b3}
  Library = {L}
  Profile = {P, Q}
  FileOrder <- MCFileOrder
  Document <- MCDocument
  Snippet <- MCSnippet
  MaxEdits = 2
  MaxUpdates = 2
INVARIANTS
  TypeOK
  
  CacheMatchesSources
  MissIsHonest
  
CHECK_DEADLOCK FALSE
