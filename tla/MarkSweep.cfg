SPECIFICATION FairSpec
CONSTANTS
  Objects = {o1, o2, o3, o4}
  Ports = {"c", "zig"}
  StackMax = 3
  InitObjNumMax = 2
  MaxU32 = 6
INVARIANTS
  TypeOK
  ReachableStay
  CountIsListLength
  UnmarkedBetweenCollections
  CountWithinThreshold
PROPERTIES
  CollectionsEnd
  ImplementsHeap
CHECK_DEADLOCK FALSE
