SPECIFICATION FairSpec
CONSTANTS
  Start = 6
  RlcModes = {"am", "um"}
  Timers = {"ms0", "running", "infinity"}
  Mod = 8
  Window = 4
  CountMod = 32
  MaxHard = 24
  BufferSize = 1
  MaxSdus = 4
  MaxKey = 1
  InAir = 1
  InCrypto = 2
CHECK_DEADLOCK FALSE
INVARIANTS
  InOrderOnce
  CountExact
  TimerGuardsGap
PROPERTIES
  NoTaskOutlives
  ProcedureEnds
  GapIsGivenUp
  NothingEvicted
