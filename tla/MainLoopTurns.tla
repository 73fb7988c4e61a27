---------------------------- MODULE MainLoopTurns ----------------------------
(***************************************************************************)
(* run_loop with a record of when select last returned: how old what it    *)
(* reported is by now.  The record changes nothing of what the loop does.  *)
(***************************************************************************)
EXTENDS MainLoop

VARIABLE selected_at   \* ghost: when select last returned to the loop

turns_vars == <<loop_vars, selected_at>>

TurnsInit == LoopInit /\ selected_at = 0

TurnsNext ==
  /\ LoopNext
  /\ selected_at' = IF loop = "select" /\ loop' = "serve" THEN now ELSE selected_at

TurnsSpec == TurnsInit /\ [][TurnsNext]_turns_vars

\* With the fairness of FairLoopSpec.
FairTurnsSpec == TurnsSpec /\ WF_loop_vars(Turn) /\ WF_loop_vars(Clock)

(***************************************************************************)
(* Output moves to the secondary over the head of a datagram that waits in *)
(* the primary's socket (drain_secondary_on_primary_outage knows only what *)
(* was pushed) in two cases only: the datagram came after this turn's      *)
(* select, or the turn has lasted as long as the outage limit.  What was   *)
(* there at select is heard in time: the loop receives from the primary    *)
(* whenever select reported it, and before it drains.                      *)
(***************************************************************************)
OverlookedIsNew ==
  [][ active = 0 /\ active' = 1 =>
        \/ \A k \in DOMAIN kernel[0] : kernel[0][k].at >= selected_at
        \/ now - selected_at >= PrimaryOutage ]_turns_vars
=============================================================================
