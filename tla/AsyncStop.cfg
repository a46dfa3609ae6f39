SPECIFICATION Spec
CONSTANTS
  Poster = {dds}
  MaxQueue = 2
  MonitorOn = TRUE
  MaxPosts = 2
  MaxStarts = 1
PROPERTIES
  StopReturns
CHECK_DEADLOCK FALSE
