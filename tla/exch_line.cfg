CONSTANTS
  Ptc = {p1, p2}
  Dim = 1
  Dims <- Line3
  Periodic <- Segment
  N = 2
  G = 1
  Reach <- Step1
  MaxPtc = 1
  SortInterval = 2
  CudaMPI = FALSE
  MaxStep = 2
SPECIFICATION FairSpec
INVARIANTS TypeOK Accounted PhasesMatch Settled Drained Fits
PROPERTIES ImplementsMigration EveryRankFinishes
