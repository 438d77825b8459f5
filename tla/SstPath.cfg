SPECIFICATION Spec
CHECK_DEADLOCK FALSE
CONSTANTS
  Keys = {1, 2}
  Values = {v1}
  Absent = Absent
  ZeroValue = ZeroValue
  v1 = v1
  MaxBufferLength = 3
  LastNum = 3
  OverflowPrefix = 1
  PathIsCwd = FALSE
  MaxFlushes = 3
  Hash <- MCHash
INVARIANTS
  StartsWithAllFiles
