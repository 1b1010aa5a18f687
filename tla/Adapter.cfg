\* The adapter that ships, which does not list closed wisps, with one crash.
SPECIFICATION Spec
CONSTANTS
  WispIds = {w1, w2, w3, w4, w5}
  NoWisp = NoWisp
  Configs <- AllConfigs
  MaxIterations = 2
  ListsClosed = FALSE
  MaxCrashes = 1
  MaxFailures = 0
  MaxPurges = 0
SYMMETRY WispSymmetry
INVARIANTS
  GateDecidedOnce
PROPERTIES
  TerminationIsFinal
