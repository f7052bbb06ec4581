CONSTANTS
  Program <- Built
  NumSpecies = 2
  Interval = 2
  SpecialInterval = 3
  MaxStep = 4
SPECIFICATION Spec
INVARIANTS NothingMissing Initialised EveryCurrentOnce FreshGuards TotalsCurrent OutputOfStep MomentsInRange
