\* Every kind of loop; the wisp GC deletes a closed wisp.
SPECIFICATION Spec
CONSTANTS
  WispIds = {w1, w2, w3, w4}
  NoWisp = NoWisp
  Configs <- AllConfigs
  MaxIterations = 2
  ListsClosed = TRUE
  MaxCrashes = 0
  MaxFailures = 0
  MaxPurges = 1
SYMMETRY WispSymmetry
INVARIANTS
  
  OneOpenWisp
