\* A processed wisp without its Iteration event.
SPECIFICATION Spec
CONSTANTS
  WispIds = {w1, w2, w3}
  NoWisp = NoWisp
  Configs <- ConditionConfigs
  MaxIterations = 2
  ListsClosed = TRUE
  MaxCrashes = 1
  MaxFailures = 0
  MaxPurges = 0
SYMMETRY WispSymmetry
INVARIANTS
  IterationDelivered
