CONSTANTS
  Ptc = {p1, p2}
  Dim = 3
  Dims <- Stack1x1x2
  Periodic <- PeriodicX
  N = 1
  G = 1
  Reach <- Forward3
  MaxPtc = 2
  SortInterval = 1
  CudaMPI = FALSE
  MaxStep = 1
SYMMETRY PtcSymmetry
SPECIFICATION Spec
INVARIANT ReachesItsRank
