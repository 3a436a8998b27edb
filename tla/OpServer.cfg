CONSTANTS
  a = a  b = b  sa = sa  sb = sb  sb2 = sb2
  wa1 = wa1  wa2 = wa2  wb1 = wb1  wb2 = wb2
  Proxies = {a, b}
  Schedulers = {sa, sb, sb2}
  Workers = {wa1, wa2, wb1, wb2}
  ProxyOf <- ProxyOfTwo
  SchedulerOf <- SchedulerOfTwo
  ClientCalls = {c1, c2}
  ReadProxies = {a}
  NoCall = NoCall
  NoWorker = NoWorker
SPECIFICATION FairSpec
INVARIANT CallsSound
 
CHECK_DEADLOCK FALSE
