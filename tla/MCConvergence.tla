--------------------------- MODULE MCConvergence ---------------------------
(* Instances of Convergence for TLC. *)
EXTENDS Convergence, TLC

Gate(mode, condition, onTimeout, trigger) ==
  [mode |-> mode, condition |-> condition, onTimeout |-> onTimeout, trigger |-> trigger]

\* Loops whose gate decides by itself.
ConditionConfigs ==
  {Gate("condition", TRUE, "iterate", FALSE), Gate("hybrid", TRUE, "terminate", FALSE)}

\* Loops an operator takes part in.
ManualConfigs ==
  {Gate("manual", FALSE, "iterate", FALSE), Gate("hybrid", FALSE, "iterate", FALSE),
   Gate("condition", TRUE, "manual", FALSE)}

TriggerConfigs ==
  {Gate("condition", TRUE, "iterate", TRUE), Gate("manual", FALSE, "iterate", TRUE)}

\* A condition gate without a condition: every HandleWispClosed ends in an error.
BrokenConfigs == {Gate("condition", FALSE, "iterate", FALSE)}

UntriggeredConfigs == ConditionConfigs \cup ManualConfigs
WorkingConfigs == UntriggeredConfigs \cup TriggerConfigs
AllConfigs == WorkingConfigs \cup BrokenConfigs

WispSymmetry == Permutations(WispIds)
=============================================================================
