SPECIFICATION Spec
CONSTANTS
  MaxUe = 2
  NofDuUes = 2
  NofCpUes = 1
  NofUpUes = 1
  MetricsEnabled = TRUE
  MaxAck = 1
CHECK_DEADLOCK FALSE
INVARIANTS
  RlcAttribution
  OnlyActiveUesStreamed
  AcksExportedOnce
  CorrelationExact
