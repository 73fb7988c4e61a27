---------------------------- MODULE MCTwoStream ----------------------------
(***************************************************************************)
(* Broadcasts, losses and errors for the runs of TwoStream.                *)
(***************************************************************************)
EXTENDS TwoStream, Broadcasts

MCScenario(source, lose, damage, n) ==
  [source |-> source, may_lose |-> lose, may_damage |-> damage, losses |-> n]

\* Something for the primary and something for the secondary.
MCFeeds(first, second) == [s \in Stream |-> IF s = 0 THEN first ELSE second]
MCNone == MCFeeds({}, {})
MCAnyOf(source) == MCFeeds(DOMAIN source, DOMAIN source)

\* dual_loss: either feed loses a packet and the primary may damage two; or the
\* primary is complete, the secondary loses two and damages one, and the content
\* repeats with every turn of the counter.
MCMixedSource == MCBroadcast(<<"A", "B", "A", "N", "A", "A", "B">>)
MCRepeatSource == MCRepeating(<<"A", "N", "A", "A", "A", "N", "A", "A">>)
MCDualLoss ==
  {MCScenario(MCMixedSource, MCAnyOf(MCMixedSource), MCFeeds({3, 6}, {}), MCFeeds(1, 1)),
   MCScenario(MCRepeatSource, MCAnyOf(MCRepeatSource), MCFeeds({}, {4}), MCFeeds(0, 2))}

\* switchover, stale_holdoff: two complete feeds.
MCPlain ==
  {MCScenario(MCBroadcast(<<"A", "A", "A", "A", "A">>), MCNone, MCNone, MCFeeds(0, 0))}

\* The runs that end in a violation lose particular packets.
MCLosing(source, first, second) ==
  {MCScenario(source, MCFeeds(first, second), MCNone, MCFeeds(2, 2))}

MCDiscard == MCLosing(MCBroadcast(<<"A", "B", "A", "A", "B", "A", "B", "A">>), {2}, {5, 6})
MCSkip == MCLosing(MCBroadcast(<<"A", "A", "A", "A", "A", "A">>), {3, 4}, {})
MCWrap == MCLosing(MCBroadcast(<<"A", "A", "N", "A", "A", "A", "A", "A", "A">>), {3, 8}, {8})
=============================================================================
