--------------------------- MODULE MCTwoStreamUdp ---------------------------
(***************************************************************************)
(* The broadcast for the run of TwoStreamUdp: packets with a clock         *)
(* reference, one with the discontinuity indicator, and a primary that     *)
(* loses a packet.                                                         *)
(***************************************************************************)
EXTENDS TwoStreamUdp, Broadcasts

MCFeeds(first, second) == [s \in Stream |-> IF s = 0 THEN first ELSE second]

MCOverSource ==
  [MCWithPcr(MCBroadcast(<<"A", "B", "A", "B", "A", "A">>), {3, 5}) EXCEPT ![4].disc = TRUE]

MCOver ==
  {[source |-> MCOverSource, may_lose |-> MCFeeds(DOMAIN MCOverSource, {}),
    may_damage |-> MCFeeds({}, {}), losses |-> MCFeeds(1, 0)]}
=============================================================================
