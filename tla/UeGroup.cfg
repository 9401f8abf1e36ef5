SPECIFICATION Spec
CONSTANTS
  MaxUes = 5
  GroupSize = 2
INVARIANTS
  NoUeStarved
