SPECIFICATION Spec
CONSTANTS
  Caller = {worker, stats}
  Scheduler = stats
  NoEntry = NoEntry
  Plain = Plain
  MaxBackups = 2
  MaxSize = 1
  OldFiles = 3
  MaxEntries = 5
  MaxFaults = 1
  Config <- MCConfig
  Absent = Absent
  Wrong = Wrong
  MaxEdits = 2
  CounterOrder <- MCCounterOrder
  MaxIncs = 1
  MaxRecords = 1
INVARIANTS
  TypeOK
  FilesHoldNewestWritten
  StrandedAtMostOneEach
  CountsConserved
CHECK_DEADLOCK FALSE
PROPERTIES
  EntriesReachTheLog
  ConvergesToFile
