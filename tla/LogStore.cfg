SPECIFICATION Spec
CONSTANTS
  Keys = {k1, Empty}
  EmptyKey = Empty
  ZeroValue = ZeroValue
  Values = {v1, v2}
  k1 = k1
  Empty = Empty
  v1 = v1
  v2 = v2
  w1 = w1
  w2 = w2
  Absent = Absent
  Garbage = Garbage
  Writers = {w1, w2}
  MaxLines = 4
INVARIANTS
  CleanLogParses
  GetIsRecent
PROPERTIES
  WholeLinesStay
