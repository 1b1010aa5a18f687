\* What must happen in the end, with one crash.
SPECIFICATION FairSpec
CONSTANTS
  WispIds = {w1, w2, w3}
  NoWisp = NoWisp
  Configs <- WorkingConfigs
  MaxIterations = 2
  ListsClosed = TRUE
  MaxCrashes = 1
  MaxFailures = 0
  MaxPurges = 0
PROPERTIES
  ClosedWispProcessed
  TerminatedRootCloses
