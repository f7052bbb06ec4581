CONSTANTS
  Size = 5
  Segment = 2
  NumCells = 2
  MaxId = 6
SPECIFICATION Spec
INVARIANTS NoneBeyondNumber NoTwins Compacted
PROPERTIES SortKeepsParticles SortReturns
