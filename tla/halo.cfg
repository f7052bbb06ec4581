CONSTANTS
  Dim = 3
  Dims <- Pair
  Periodic <- OpenZ
  N = 1
  G = 1
  MaxStep = 2
  Sites <- Mirrored
SPECIFICATION FairSpec
INVARIANTS TypeOK InteriorComplete HaloAgrees PhasesMatch
PROPERTY EveryRankFinishes
