SPECIFICATION Spec
CONSTANTS
  Paths = {"a"}
  Sectors = {0, 1, 4}
  NoFile = NoFile
  NoReq = NoReq
  Workers = 2
  MaxBuf = 1
  MaxMerge = 3
  Channels = 2
  MaxOnlink = 2
  Width = 16
  HitThreshold = 1
  Threads = {"t1"}
  Loads <- MCClearLoads
PROPERTIES
  ClearPreventsCallback
CHECK_DEADLOCK FALSE
