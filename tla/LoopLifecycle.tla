--------------------------- MODULE LoopLifecycle ---------------------------
(***************************************************************************)
(* What a convergence loop promises whoever watches its root bead: which   *)
(* values convergence.state takes after which, that a terminated loop      *)
(* never runs again, and that a root is closed for good.  Only a loop that *)
(* has a trigger ever waits for one.                                       *)
(***************************************************************************)

VARIABLES
  triggered,  \* does the loop have a trigger?
  state,      \* convergence.state
  root        \* status of the root bead

loopVars == <<triggered, state, root>>

LoopInit == triggered \in BOOLEAN /\ state = "" /\ root = "absent"

Move(from, to) == state \in from /\ state' = to /\ UNCHANGED <<triggered, root>>

Open == root = "absent" /\ root' = "in_progress" /\ UNCHANGED <<triggered, state>>
Create == root = "in_progress" /\ Move({""}, "creating")
Begin == ~triggered /\ Move({"creating"}, "active")
Await == triggered /\ Move({"creating", "active"}, "waiting_trigger")
Fire == triggered /\ Move({"waiting_trigger"}, "active")
\* A stop drains the iteration of a trigger whose write of state=active was lost.
Hold == Move({"active", "waiting_trigger"}, "waiting_manual")
Resume == Move({"waiting_manual"}, "active")
Finish == Move({"", "creating", "active", "waiting_manual", "waiting_trigger"}, "terminated")

\* The rollback of a failed creation closes the root even if its write of
\* state=terminated failed, so Close does not require a terminated state.
Close == root = "in_progress" /\ root' = "closed" /\ UNCHANGED <<triggered, state>>

LoopNext ==
  Open \/ Create \/ Begin \/ Await \/ Fire \/ Hold \/ Resume \/ Finish \/ Close

LoopSpec == LoopInit /\ [][LoopNext]_loopVars

=============================================================================
