SPECIFICATION Spec
CONSTANTS
  u1 = u1
  u2 = u2
  Ue <- TwoUes
  NofVrbs = 6
  CrbLims = {0, 1, 2}
  Reserved <- Free
  Weights <- ExampleWeights
  NoWeight = NoWeight
  Needs = {1, 3}
  Quotas = {3, 6}
  MAX_UE_GRANT_PER_SLOT = 8
  MIN_RB_PER_GRANT = 2
  CandidatesPerGrant = 2
  MaxGrants = 2
  MaxAttempts = 3
  MaxSlices = 1
SYMMETRY Symm
INVARIANTS
  OnlyZeroWeightCancelled
