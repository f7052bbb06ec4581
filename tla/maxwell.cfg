CONSTANTS
  Dim = 2
  Dims <- Grid2x1
  Periodic <- OpenX
  N = 4
  G = 2
  K = 2
  FilterTimes = 1
  Damping <- LayersX
  PmlLength = 2
  Start <- Column
  Moves <- Steps
  Across = 1
  RhoInterval = 1
  MaxStep = 2
SPECIFICATION Spec
INVARIANTS GaussLaw DivBZero
PROPERTY ImplementsMaxwell
