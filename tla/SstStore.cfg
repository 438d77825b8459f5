SPECIFICATION Spec
CHECK_DEADLOCK FALSE
CONSTANTS
  Keys = {0, 1}
  Values = {v1}
  Absent = Absent
  ZeroValue = ZeroValue
  v1 = v1
  MaxBufferLength = 3
  LastNum = 2
  OverflowPrefix = 1
  PathIsCwd = TRUE
  MaxFlushes = 2
  Hash <- MCHash
INVARIANTS
  TypeOK
  CacheIsCurrent
  FilterComplete
  FreshIfBufferedOnce
PROPERTIES
  ImplementsDurableMap
