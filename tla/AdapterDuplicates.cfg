\* Two wisps with one idempotency key.
SPECIFICATION Spec
CONSTANTS
  WispIds = {w1, w2, w3}
  NoWisp = NoWisp
  Configs <- ManualConfigs
  MaxIterations = 2
  ListsClosed = FALSE
  MaxCrashes = 0
  MaxFailures = 0
  MaxPurges = 0
SYMMETRY WispSymmetry
INVARIANTS
  UniqueIdempotencyKeys
