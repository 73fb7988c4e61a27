---------------------------- MODULE TwoStreamUdp ----------------------------
(***************************************************************************)
(* The engine between its two feeds and the UDP output.  Every packet the  *)
(* engine outputs goes to output_udp_send_ts_packet; the sink refuses one  *)
(* only when sendto fails, which can be in the middle of the packets that  *)
(* one decision inserts.  The program ends with a flush, or with the first *)
(* packet refused.                                                         *)
(***************************************************************************)
EXTENDS TwoStream

CONSTANT PacketsPerDatagram \* OUTPUT_TS_PACKETS_PER_DATAGRAM (7)

Udp == INSTANCE OutputUdp

ASSUME UdpAssumption == PacketsPerDatagram \in Nat /\ PacketsPerDatagram >= 2

VARIABLE udp  \* output_udp_t, and the counts of output_record

udp_vars == <<all_vars, udp>>

UdpInit == NetInit /\ udp = Udp!output_udp_open

Bytes(o) == [k \in DOMAIN o |-> o[k].rec.pkt]

\* The packets that this step gives to the sink, and those it would give it.
Given == Bytes(SubSeq(out', Len(out) + 1, Len(out')))
Attempted ==
  IF pc = "primary"
  THEN LET p == Head(queue[0]) IN [k \in DOMAIN Sent(Decide(View, p), p) |->
                                     Sent(Decide(View, p), p)[k].pkt]
  ELSE <<Head(queue[1]).pkt>>

\* output_record, as often as the step calls it.
Output_taken ==
  /\ pc' \notin {"failed", "stopped"}
  /\ udp' = Udp!output_records(udp, Given)

\* sendto fails for the packet after those given, which is dropped.
Output_refused ==
  LET taken == Udp!output_records(udp, Given)
  IN  /\ pc' = "failed" /\ pc # "failed"
      /\ Udp!Completes(taken)
      /\ udp' = Udp!SendtoFails(taken, Attempted[Len(Given) + 1])

\* recovery_engine_flush has drained, and flushes the sink.
Output_flushed ==
  /\ pc' = "stopped" /\ pc # "stopped"
  /\ udp' = Udp!output_udp_flush(Udp!output_records(udp, Given))

UdpNext ==
  \/ NetNext /\ (Output_taken \/ Output_refused \/ Output_flushed)
  \/ Ended /\ UNCHANGED udp_vars

UdpSpec == UdpInit /\ [][UdpNext]_udp_vars

-----------------------------------------------------------------------------
(***************************************************************************)
(* Nothing but whole datagrams leaves.  What left, followed by what is     *)
(* gathered, is at all times what the engine has output, in order, though  *)
(* a decision that inserts several packets may fill a datagram in its      *)
(* middle; and the check that opens output_udp_send_ts_packet refuses      *)
(* nothing.  In the end, after the flush or a failing sendto, less than a  *)
(* datagram is missing.                                                    *)
(***************************************************************************)
OnWire(k) ==
  udp.wire[((k - 1) \div PacketsPerDatagram) + 1][((k - 1) % PacketsPerDatagram) + 1]
LeftNumber == Len(udp.wire) * PacketsPerDatagram

WireIsAccepted ==
  /\ \A d \in DOMAIN udp.wire : Len(udp.wire[d]) = PacketsPerDatagram
  /\ LeftNumber \in Len(out) - PacketsPerDatagram + 1 .. Len(out)
  /\ \A k \in 1 .. LeftNumber : OnWire(k) = out[k].rec.pkt
  /\ pc \notin {"failed", "stopped"} =>
       udp.pending = Bytes(SubSeq(out, LeftNumber + 1, Len(out)))

(***************************************************************************)
(* output_datagrams, which output_record derives from output_packets       *)
(* without asking the sink, is the number of datagrams sent, at all times  *)
(* and also after a failure or the last flush.                             *)
(***************************************************************************)
DatagramsCounted == udp.datagrams = Len(udp.wire)
=============================================================================
