\* Every kind of loop, with one crash and one failing store call anywhere.
SPECIFICATION Spec
CONSTANTS
  WispIds = {w1, w2, w3, w4}
  NoWisp = NoWisp
  Configs <- AllConfigs
  MaxIterations = 2
  ListsClosed = TRUE
  MaxCrashes = 1
  MaxFailures = 1
  MaxPurges = 0
SYMMETRY WispSymmetry
INVARIANTS
  TypeOK
  GateDecidedOnce
  TerminatedDelivered
  OneOpenWisp
  UniqueIdempotencyKeys
  
PROPERTIES
  TerminationIsFinal
  MarkerMonotone
  RefinesLifecycle
