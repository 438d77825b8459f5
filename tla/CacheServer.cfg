SPECIFICATION FairSpec
CHECK_DEADLOCK FALSE
CONSTANTS
  Clients = {c1, c2, c3}
  Keys = {k1}
  Values = {v1}
  c1 = c1
  c2 = c2
  c3 = c3
  k1 = k1
  v1 = v1
  Absent = Absent
  Ops <- AllOps
  None = None
  MaxSeq = 1
INVARIANTS
  TypeOK
  NoConcurrentMapWrite
  StatsAreConsistent
PROPERTIES
  NumbersAreUnique
  RequestsAreAnswered
