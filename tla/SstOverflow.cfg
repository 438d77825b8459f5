SPECIFICATION Spec
CHECK_DEADLOCK FALSE
CONSTANTS
  Keys = {1}
  Values = {v1}
  Absent = Absent
  ZeroValue = ZeroValue
  v1 = v1
  MaxBufferLength = 1
  LastNum = 2
  OverflowPrefix = 1
  PathIsCwd = TRUE
  MaxFlushes = 5
  Hash <- MCHash
INVARIANTS
  NewestLast
