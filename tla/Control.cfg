SPECIFICATION FairSpec
CONSTANTS
  r1 = r1
  r2 = r2
  Apps <- WeightsApp
  Rnti <- TwoUes
  STALENESS_THRESHOLD = 2
  TtiMod = 64
  TtiOffsets <- SomeOffsets
  ControlConflated = FALSE
  SubHwm = 2
  MaxSlot = 5
  MaxBoot = 2
  MaxChurn = 2
  MaxStops = 1
CHECK_DEADLOCK FALSE
INVARIANTS
  TypeOK
  FreshControl
  OneDecisionPerSlot
PROPERTIES
  ExpiredStaysExpired
  ImplementsContract
  ControlExpires
