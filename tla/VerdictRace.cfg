\* The verdict of a running wisp is erased.
SPECIFICATION Spec
CONSTANTS
  WispIds = {w1, w2, w3}
  NoWisp = NoWisp
  Configs <- ManualConfigs
  MaxIterations = 2
  ListsClosed = TRUE
  MaxCrashes = 0
  MaxFailures = 0
  MaxPurges = 0
SYMMETRY WispSymmetry
PROPERTIES
  VerdictKept
