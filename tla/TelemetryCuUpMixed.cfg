SPECIFICATION Spec
CONSTANTS
  MaxUe = 2
  NofDuUes = 2
  NofCpUes = 2
  NofUpUes = 2
  MetricsEnabled = TRUE
  MaxAck = 0
CHECK_DEADLOCK FALSE
INVARIANTS
  CuUpAttribution
