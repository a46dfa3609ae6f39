SPECIFICATION Spec
CONSTANTS
  Poster = {ipc, dds}
  MaxQueue = 2
  MonitorOn = FALSE
  MaxPosts = 3
  MaxStarts = 2
PROPERTIES
  ImplementsJobQueue
  StopReturnsOutsideWindow
CHECK_DEADLOCK FALSE
