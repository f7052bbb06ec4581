CONSTANTS
  Program <- Reconnection
  NumSpecies = 2
  Interval = 2
  SpecialInterval = 3
  MaxStep = 2
SPECIFICATION Spec
INVARIANT InitRunsAll
