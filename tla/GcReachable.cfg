SPECIFICATION FairSpec
CONSTANTS
  HeapMax = 6
  HeaderSize = 2
  MinAllocSize = 4
  AllocSizes = {1, 7}
  Vars = {x, y}
PROPERTIES
  ReachableStay
