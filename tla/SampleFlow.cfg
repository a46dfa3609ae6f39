SPECIFICATION Spec
CONSTANTS
  Reader = {chat, alarm}
  Thread = {th1, th2}
  MaxQueue = 2
  MaxSamples = 3
  Torn = Torn
  NoData = NoData
INVARIANTS
  TypeOK
  IntactUntilNextCall
  WrongDataMeansLateWorker
  EmittedInOrder
PROPERTIES
  SamplesFlow
CHECK_DEADLOCK FALSE
