CONSTANTS
  Order <- Radiating
  Data = {"ptc", "photon", "rng"}
  OnDevice = FALSE
  max_steps = 6
  FldInterval = 2
  PtcInterval = 3
  SnapInterval = 3
  MaxCrashes = 1
  Update <- Digest
SPECIFICATION Spec
INVARIANT TracksInterval
