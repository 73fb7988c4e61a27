---------------------------- MODULE PacketRecord ----------------------------
(***************************************************************************)
(* The packet_record_t of recovery_engine.h and the predicates that        *)
(* recovery_engine.c evaluates on one or two records.                      *)
(*                                                                         *)
(* A packet is what ts_packet_parse reports about 188 bytes.  The 64-bit   *)
(* FNV hash of the bytes is a value of Hash (equal hash = equal bytes);    *)
(* the bytes themselves are not modelled.  A record is a packet together   *)
(* with the input it came from (src), its place in that input (idx, the    *)
(* stream_index) and its arrival time (at).  The field pos is a ghost: the *)
(* place of the packet in the broadcast that both inputs carry.  No        *)
(* definition of the engine reads it.                                      *)
(*                                                                         *)
(* Continuity counters are 4 bits wide in a transport stream; CCMod is 16  *)
(* there, and a parameter here so that a wrap is within reach of TLC.      *)
(***************************************************************************)
EXTENDS Integers, Sequences

CONSTANTS
  Pid,      \* the PIDs of the streams, NullPid among them
  NullPid,  \* 0x1fff
  Hash,     \* packet contents
  CCMod     \* continuity counters are counted modulo CCMod (16)

ASSUME RecordAssumption ==
  /\ NullPid \in Pid
  /\ CCMod \in Nat /\ CCMod >= 2

CC == 0 .. CCMod - 1

\* "valid == false" of an output_pid_state_t / input_pid_state_t, and
\* "has_pcr == false" of a packet.
NoCC == -1
NoPcr == -1

Packet == [pid: Pid, cc: CC, payload: BOOLEAN, tei: BOOLEAN, disc: BOOLEAN,
           pcr: Nat \cup {NoPcr}, hash: Hash, pos: Nat]

Stream == {0, 1}

Record == [pkt: Packet, src: Stream, idx: Nat, at: Nat]

IsNull(r) == r.pkt.pid = NullPid

Damaged(r) == r.pkt.tei \/ r.pkt.disc

record_is_informative(r) == ~IsNull(r) /\ ~Damaged(r)

SameContent(a, b) ==
  /\ a.pkt.hash = b.pkt.hash
  /\ a.pkt.pid = b.pkt.pid
  /\ a.pkt.cc = b.pkt.cc

records_match(a, b) ==
  record_is_informative(a) /\ record_is_informative(b) /\ SameContent(a, b)

records_exact_non_error_match(a, b) ==
  ~Damaged(a) /\ ~Damaged(b) /\ SameContent(a, b)

records_are_non_null_exact_anchor(a, b) ==
  ~IsNull(a) /\ ~IsNull(b) /\ records_exact_non_error_match(a, b)

-----------------------------------------------------------------------------
(***************************************************************************)
(* Continuity counters.  cc is the last counter seen on the record's PID.  *)
(***************************************************************************)
NextCC(cc) == (cc + 1) % CCMod

FitsCC(cc, r) ==
  \/ IsNull(r)
  \/ /\ ~Damaged(r)
     /\ \/ cc = NoCC
        \/ r.pkt.cc = IF r.pkt.payload THEN NextCC(cc) ELSE cc

\* The counter of PID pid once the records rs have been output after cc.
LastCC(cc, rs, pid) ==
  LET seen == {j \in DOMAIN rs : ~IsNull(rs[j]) /\ rs[j].pkt.pid = pid}
  IN  IF seen = {} THEN cc[pid]
      ELSE rs[CHOOSE j \in seen : \A k \in seen : k <= j].pkt.cc

\* record_fits_output_states, after observe_output_states of every record of rs.
FitsAfter(cc, rs, r) == FitsCC(LastCC(cc, rs, r.pkt.pid), r)

record_fits_next_output(cc, r) == FitsCC(cc[r.pkt.pid], r)

\* infer_missing_from_cc: the set that holds the count, empty when the code
\* returns false.
infer_missing_from_cc(prev, r) ==
  {n \in 0 .. CCMod - 2 : /\ r.pkt.payload /\ ~IsNull(r)
                          /\ (prev + n + 1) % CCMod = r.pkt.cc}

\* The counter errors that observe_output_record and observe_input_path_gap
\* tell apart: a repeated counter, and one that is neither repeated nor next.
Repeats(cc, r) == r.pkt.payload /\ r.pkt.cc = cc
Breaks(cc, r)  ==
  r.pkt.cc # cc /\ (r.pkt.payload => r.pkt.cc # NextCC(cc))
=============================================================================
