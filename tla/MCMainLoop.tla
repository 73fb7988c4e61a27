----------------------------- MODULE MCMainLoop -----------------------------
(***************************************************************************)
(* Broadcasts and losses for the runs of MainLoop and MainLoopTurns.       *)
(***************************************************************************)
EXTENDS MainLoopTurns, Broadcasts

MCTwoPackets == MCBroadcast(<<"A", "A">>)
MCThreePackets == MCBroadcast(<<"A", "A", "A">>)
MCNoLoss == [s \in Stream |-> 0]
MCLoseOnePrimary == [s \in Stream |-> IF s = 0 THEN 1 ELSE 0]
=============================================================================
