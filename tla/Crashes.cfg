\* Loops without a trigger, with two crashes anywhere.
SPECIFICATION Spec
CONSTANTS
  WispIds = {w1, w2, w3, w4}
  NoWisp = NoWisp
  Configs <- UntriggeredConfigs
  MaxIterations = 2
  ListsClosed = TRUE
  MaxCrashes = 2
  MaxFailures = 0
  MaxPurges = 0
SYMMETRY WispSymmetry
INVARIANTS
  TerminatedEventsAgree
