SPECIFICATION Spec
CONSTANTS
  u1 = u1
  u2 = u2
  Ue <- TwoUes
  NofVrbs = 6
  CrbLims = {0, 1, 2, 3, 4, 5}
  Reserved <- Fragmented
  Weights <- SomeWeights
  NoWeight = NoWeight
  Needs = {1, 5}
  Quotas = {3, 6}
  MAX_UE_GRANT_PER_SLOT = 8
  MIN_RB_PER_GRANT = 2
  CandidatesPerGrant = 2
  MaxGrants = 2
  MaxAttempts = 3
  MaxSlices = 2
SYMMETRY Symm
INVARIANTS
  TypeOK
  GrantSizePositive
  OnlyZeroWeightCancelled
  WithinSliceQuota
PROPERTIES
  GrantsTakeFreeVrbs
