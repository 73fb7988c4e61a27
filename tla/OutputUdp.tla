------------------------------ MODULE OutputUdp ------------------------------
(***************************************************************************)
(* output_udp.c behind the packet_sink_t of packet_sink.h, and the         *)
(* counting that output_record of recovery_engine.c does around it, as     *)
(* operators on the state of the output.  Packets are gathered into        *)
(* datagrams of PacketsPerDatagram, which sendto may refuse.               *)
(***************************************************************************)
EXTENDS Integers, Sequences

CONSTANT PacketsPerDatagram \* OUTPUT_TS_PACKETS_PER_DATAGRAM (7)

(***************************************************************************)
(* pending is output->pending, wire (a ghost) the datagrams sendto has     *)
(* taken; packets and datagrams are stats->output_packets and              *)
(* stats->output_datagrams.                                                *)
(***************************************************************************)
OutputState(Payload) ==
  [pending : Seq(Payload), wire : Seq(Seq(Payload)), packets : Nat, datagrams : Nat]

output_udp_open == [pending |-> << >>, wire |-> << >>, packets |-> 0, datagrams |-> 0]

\* Whether the next packet completes a datagram, so that sendto is called.
Completes(u) == Len(u.pending) + 1 = PacketsPerDatagram

\* The buffer after a datagram has left.
Emptied_kept(ps) == ps
Emptied(ps) == << >>

\* output_udp_send_ts_packet and its output_udp_flush, when sendto works.
output_udp_send_ts_packet(u, p) ==
  LET gathered == Append(u.pending, p)
  IN  IF Completes(u)
      THEN [u EXCEPT !.wire = Append(@, gathered), !.pending = Emptied(gathered)]
      ELSE [u EXCEPT !.pending = gathered]

\* The same when it fails: the buffer stays full.
SendtoFails(u, p) == [u EXCEPT !.pending = Append(@, p)]

\* What output_record counts once the sink has taken a packet.
CountedDatagrams_early(n) == IF n % PacketsPerDatagram = 1 THEN 1 ELSE 0
CountedDatagrams(n) == IF n % PacketsPerDatagram = 0 THEN 1 ELSE 0

output_record(u, p) ==
  [output_udp_send_ts_packet(u, p) EXCEPT
     !.packets = @ + 1, !.datagrams = @ + CountedDatagrams(u.packets + 1)]

\* output_record of the packets ps, one after the other.
output_records(u, ps) ==
  LET after[n \in 0 .. Len(ps)] == IF n = 0 THEN u ELSE output_record(after[n - 1], ps[n])
  IN  after[Len(ps)]

\* output_udp_flush of a buffer that holds less than a datagram.
output_udp_flush(u) == [u EXCEPT !.pending = << >>]
=============================================================================
