CONSTANTS
  Order <- PusherFirst
  Data = {"field", "J", "ptc"}
  OnDevice = FALSE
  max_steps = 6
  FldInterval = 2
  PtcInterval = 3
  SnapInterval = 3
  MaxCrashes = 2
  Update <- Digest
SPECIFICATION Spec
INVARIANTS TypeOK Resumes FieldSeries ParticleSeries
PROPERTIES RewritesAgree JobFinishes
