\* A closed wisp that is never processed.
SPECIFICATION FairSpec
CONSTANTS
  WispIds = {w1, w2, w3}
  NoWisp = NoWisp
  Configs <- ManualConfigs
  MaxIterations = 2
  ListsClosed = FALSE
  MaxCrashes = 0
  MaxFailures = 0
  MaxPurges = 0
PROPERTIES
  ClosedWispProcessed
