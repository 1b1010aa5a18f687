\* Every kind of loop and three iterations; nothing fails.
SPECIFICATION Spec
CONSTANTS
  WispIds = {w1, w2, w3, w4}
  NoWisp = NoWisp
  Configs <- AllConfigs
  MaxIterations = 3
  ListsClosed = TRUE
  MaxCrashes = 0
  MaxFailures = 0
  MaxPurges = 0
SYMMETRY WispSymmetry
INVARIANTS
  
  NoSkippedIteration
  IterationBudget
  IterationDelivered
  NoOrphanedWork
