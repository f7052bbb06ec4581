CONSTANTS
  Ptc = {p1, p2}
  Dim = 3
  Dims <- Pair
  Periodic <- Torus
  N = 1
  G = 1
  Reach <- Diagonal3
  MaxPtc = 2
  SortInterval = 1
  CudaMPI = TRUE
  MaxStep = 2
SYMMETRY PtcSymmetry
SPECIFICATION Spec
INVARIANTS Accounted Settled Lockstep
