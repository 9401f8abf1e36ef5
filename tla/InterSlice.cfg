SPECIFICATION Spec
CONSTANTS
  s1 = s1
  s2 = s2
  Slice = {s1, s2}
  Prio <- SamePrio
  Limits <- SomeLimits
  CellRbs = 3
  Period = 3
  DlSlots = {0}
  K2 <- UlHeavy
  RingSize = 3
  Slots = 3
  MaxSkip = 2
INVARIANTS
  CountersExact
  MinimumBeforeShared
  DedicatedHonoured
PROPERTIES
  MaximumKept
