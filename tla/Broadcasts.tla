----------------------------- MODULE Broadcasts -----------------------------
(***************************************************************************)
(* Broadcasts for the runs: what a multiplexer sends, as packets.          *)
(***************************************************************************)
EXTENDS PacketRecord, FiniteSets

MCPid == {"A", "B", "N"}
MCNull == "N"
MCHash == 0 .. 12

\* The broadcast with these PIDs: counters as a multiplexer sets them, every
\* content packet different, all null packets alike.
MCBroadcast(pids) ==
  [i \in DOMAIN pids |->
     LET before == Cardinality({j \in 1 .. i - 1 : pids[j] = pids[i]})
         null == pids[i] = MCNull
     IN  [pid |-> pids[i], payload |-> TRUE, tei |-> FALSE, disc |-> FALSE,
          pcr |-> NoPcr, pos |-> i,
          hash |-> IF null THEN 0 ELSE i,
          cc |-> IF null THEN 0 ELSE before % CCMod]]

\* The same, with content that repeats whenever the counter comes round.
MCRepeating(pids) ==
  LET b == MCBroadcast(pids)
  IN  [i \in DOMAIN b |-> [b[i] EXCEPT !.hash = IF b[i].pid = MCNull THEN 0 ELSE b[i].cc + 1]]

\* The packets at the positions at carry a program clock reference.
MCWithPcr(b, at) ==
  [i \in DOMAIN b |-> [b[i] EXCEPT !.pcr = IF i \in at THEN i ELSE NoPcr]]
=============================================================================
