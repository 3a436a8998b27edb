SPECIFICATION Spec
CONSTANTS
  Paths = {"a", "b"}
  Sectors = {0, 1}
  NoFile = NoFile
  NoReq = NoReq
  Workers = 2
  MaxBuf = 1
  MaxMerge = 3
  Channels = 2
  MaxOnlink = 1
  Width = 16
  HitThreshold = 1
  Threads = {"t1", "t2"}
  Loads <- MCLoads
INVARIANTS
  
  SectorsCurrentUnlessLate
  WritesLandUnlessCrossed
  QueueBound
PROPERTIES
  OpsEnd
CHECK_DEADLOCK FALSE
