CONSTANTS
  Centers = {a, b, c}
  Home = a
  Workers = {w1}
  PageSize = 2
  NPages = 2
  ReadRanges <- PageReads
  InitSize = 3
  MaxOps = 3
SPECIFICATION SerialSpec
INVARIANT CopiesCurrent
PROPERTY ReadsLatest
CHECK_DEADLOCK FALSE
