\* Four nodes, arrays of five, two questions on a page of one, two tables of
\* at most two columns and two rows, a heap of six units.  A sort ends, and a shell that panics.
SPECIFICATION MCSpec
CHECK_DEADLOCK FALSE
CONSTANTS
  Nodes = {1, 2, 3, 4}
  Vals = {1, 2}
  MaxArray = 2
  Length = 5
  Numbers = {1, 2, 3}
  Questions = {q1, q2}
  NoQuestions = NoQuestions
  PageSize = 1
  MaxTime = 2
  Names = {t, u}
  ColumnNames = {c}
  MaxColumns = 2
  MaxRows = 2
  HeapMax = 6
  HeaderSize = 2
  MinAllocSize = 4
  AllocSizes = {1, 7}
  Vars = {x, y}
INVARIANTS
  OperationsAreExact
  SortsInPlace
  PrintedIsNews
  TablesAreWhole
  HeapIsTiled
  FreeListIsSorted
  TagsCleared
PROPERTIES
  RowsAreKept
  LostOnlyWithFirst
  RootedStay
  CallsReturn
