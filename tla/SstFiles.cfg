SPECIFICATION Spec
CHECK_DEADLOCK FALSE
CONSTANTS
  Keys = {0, 1, 2}
  Values = {}
  Absent = Absent
  ZeroValue = ZeroValue
  MaxBufferLength = 3
  LastNum = 2
  OverflowPrefix = 1
  PathIsCwd = TRUE
  MaxFlushes = 3
  Hash <- MCHash
INVARIANTS
  AllSstFilesLoaded
  NewestLast
  WholeLinesAreFound
