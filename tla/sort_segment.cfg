CONSTANTS
  Offset = 3
  Length = 5
  NumCells = 3
SPECIFICATION Spec
INVARIANTS NothingOverwritten SortedByCell LiveCount
