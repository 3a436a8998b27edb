SPECIFICATION Spec
CONSTANTS
  Centers = {"jinan", "beijing"}
  Proxies = {1, 2}
  Cid <- MCCid
  Resources = {"disk"}
  Threads = {"h1", "h2"}
  NoDoc = NoDoc
  NoRes = NoRes
  Empty = Empty
  Failed = Failed
  NoList = NoList
  Loads <- MCLoads
  MaxOps = 2
  MaxFaults = 1
INVARIANTS
  CentersKept
  ProxiesKept
  ResourceKept
  DiesOnlyWithoutCenters
PROPERTIES
  
  NodesConverge
  
CHECK_DEADLOCK FALSE
