SPECIFICATION Spec
CONSTANTS
  u1 = u1
  u2 = u2
  Ue <- TwoUes
  NofVrbs = 10
  CrbLims = {0, 1, 2, 3, 4, 5, 6, 7, 8, 9}
  Reserved <- Free
  Weights <- ExampleWeights
  NoWeight = NoWeight
  Needs = {10}
  Quotas = {10}
  MAX_UE_GRANT_PER_SLOT = 8
  MIN_RB_PER_GRANT = 4
  CandidatesPerGrant = 4
  MaxGrants = 2
  MaxAttempts = 4
  MaxSlices = 1
SYMMETRY Symm
INVARIANTS
  ShareHonoured
