SPECIFICATION Spec
CONSTANTS
  Reader = {r1}
  Writer = {w1}
  ReaderStatus = {matched, other}
  WriterStatus = {matched}
  ReadStatus = {matched}
  Guard = Guard
  Nobody = Nobody
  MaxClears = 1
  MaxThrows = 1
INVARIANTS
  TypeOK
  NothingDangles
  
PROPERTIES
  TeardownReturns
  
  StatusServed
CHECK_DEADLOCK FALSE
