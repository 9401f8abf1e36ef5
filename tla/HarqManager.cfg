SPECIFICATION Spec
CONSTANTS
  NofHarqs = 2
  Delays <- MCDelays
  MaxRetxs = 1
  AckWait = 2
  ShortWait = 1
  RetxTimeout = 2
  Koffset = 0
  Wheel = 4
  History = 1
  RemDelay = 3
  MaxBits = 2
  MaxAge = 2
  MaxSkips = 1
  Snrs <- MCSnrs
  None = None
INVARIANTS FreeStackExact ReportFindsItsTransmission EarlyOnlyBeyondWheel
PROPERTIES AckedIsNotRetransmitted NoRetxOnceCancelled LeavingUeIsRemoved
