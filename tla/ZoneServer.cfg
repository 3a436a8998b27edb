CONSTANTS
  Storages = {s1, s2}
  SpaceIDs = {i1, i2}
  Threads = {t1, t2}
  NoStorage = NoStorage
  NoSpace = NoSpace
  Total = 4
  Sizes = {2, 3}
  MaxFaults = 1
  MaxOps = 3
  ZoneIDs = {z1, z2}
  Users = {u1, u2}
  Admins = {u2}
  MemberLists = {{u1}}
  Names = {n1}
  NoName = NoName
  NoZone = NoZone
  NoUser = NoUser
  MaxZoneOps = 3
  MaxZoneFaults = 1
SPECIFICATION ZoneSpec
SYMMETRY Sym
CONSTRAINT OneFault
INVARIANTS  AccountingUnlessDrift ZonesOwnSpaces
PROPERTIES MembersOnlyByShare 
CHECK_DEADLOCK FALSE
