SPECIFICATION Spec
CONSTANTS
  Poster = {ipc, dds}
  MaxQueue = 2
  MonitorOn = TRUE
  MaxPosts = 3
  MaxStarts = 2
INVARIANTS
  TypeOK
  Accounting
  SnapshotNeverOvercounts
  NothingRunsAfterStop
CHECK_DEADLOCK FALSE
