------------------------------- MODULE Framing -------------------------------
(***************************************************************************)
(* process_datagram of main.c: the walk over one datagram that cuts it     *)
(* into transport packets and finds the packets again behind damage.       *)
(*                                                                         *)
(* A datagram is a function from its offsets to what a packet starting     *)
(* there would be:                                                         *)
(*    none     no sync byte                                                *)
(*    broken   a sync byte, but ts_packet_parse refuses the header: a      *)
(*             reserved adaptation_field_control, or an adaptation field   *)
(*             longer than the packet                                      *)
(*    intact   a packet                                                    *)
(* Offsets are a size_t and wrap.                                          *)
(***************************************************************************)
EXTENDS Integers, Sequences, FiniteSets

CONSTANTS
  PacketSize,  \* TS_PACKET_SIZE (188)
  SyncRun,     \* sync bytes in a row that has_sync_run wants (4)
  SizeMod,     \* size_t counts modulo SizeMod (2^64)
  MaxSize      \* bound: the longest datagram (INPUT_BUFFER_SIZE; recv cuts off the rest)

ASSUME FramingAssumption ==
  /\ PacketSize \in Nat \ {0} /\ SyncRun \in Nat \ {0}
  /\ MaxSize \in Nat \ {0}
  /\ SizeMod \in Nat /\ SizeMod > MaxSize + PacketSize

Kind == {"none", "broken", "intact"}
Datagram == UNION {[0 .. n - 1 -> Kind] : n \in 1 .. MaxSize}

VARIABLES
  datagram,   \* what input_udp_receive put into the buffer, never empty
  offset,     \* offset
  pc,         \* "walk", "done", or "failed" once the engine reports an error
  pushed,     \* ghost: the offsets handed to recovery_engine_push_packet
  counts      \* the counters of report_stats_t that the walk writes

walk_vars == <<datagram, offset, pc, pushed, counts>>

size == Cardinality(DOMAIN datagram)

Counters == {"sync_errors", "malformed_datagrams", "partial_datagrams", "resync_events"}

\* The counters with every one of cs raised.
Raised(cs) == [c \in Counters |-> IF c \in cs THEN counts[c] + 1 ELSE counts[c]]

TypeOK ==
  /\ datagram \in Datagram
  /\ offset \in 0 .. SizeMod - 1
  /\ pc \in {"walk", "done", "failed"}
  /\ pushed \in Seq(Nat)
  /\ counts \in [Counters -> Nat]

\* report_stats_observe_datagram
Init ==
  /\ datagram \in Datagram
  /\ offset = 0
  /\ pc = "walk"
  /\ pushed = << >>
  /\ counts = [c \in Counters |->
                 IF c = "partial_datagrams" /\ size % PacketSize # 0 THEN 1 ELSE 0]

-----------------------------------------------------------------------------
\* size_t arithmetic, of results that are off by less than one turn.
Wrap(n) == IF n < 0 THEN n + SizeMod ELSE IF n >= SizeMod THEN n - SizeMod ELSE n

Minus_saturating(a, b) == IF a < b THEN 0 ELSE a - b
Minus(a, b) == Wrap(a - b)

HasSync(o) == o < size /\ datagram[o] # "none"
ts_packet_parse(o) == datagram[o] = "intact"

has_sync_run(o) == \A i \in 0 .. SyncRun - 1 : HasSync(o + i * PacketSize)

\* Where find_resync_offset looks when the packet at o is refused.
Ahead_here(o) == o .. size - 1
Ahead_next_packet(o) == o + PacketSize .. size - 1
Ahead(o) == o + 1 .. size - 1

\* find_resync_offset: the set that holds the offset, empty when it returns false.
find_resync_offset(o) ==
  LET runs == {r \in Ahead(o) : has_sync_run(r)}
  IN  {r \in runs : \A q \in runs : r <= q}

InReach_start(o) == o < size
InReach(o) == Wrap(o + PacketSize) <= size

\* The loop has ended at o, but not where the datagram ends.
EndsShort_overrun(o) == o > size
EndsShort(o) == o # size

-----------------------------------------------------------------------------
Continue(o) == offset' = Wrap(o + PacketSize)

PushPacket ==
  /\ pc = "walk" /\ InReach(offset)
  /\ ts_packet_parse(offset)
  /\ pushed' = Append(pushed, offset)
  /\ Continue(offset)
  /\ UNCHANGED <<datagram, pc, counts>>

\* recovery_engine_push_packet returns an error: the sink has failed.
PushFails ==
  /\ pc = "walk" /\ InReach(offset)
  /\ ts_packet_parse(offset)
  /\ pushed' = Append(pushed, offset)
  /\ pc' = "failed"
  /\ UNCHANGED <<datagram, offset, counts>>

Resync ==
  /\ pc = "walk" /\ InReach(offset)
  /\ ~ts_packet_parse(offset)
  /\ \E r \in find_resync_offset(offset) : Continue(Minus(r, PacketSize))
  /\ counts' = Raised({"sync_errors", "malformed_datagrams", "resync_events"})
  /\ UNCHANGED <<datagram, pc, pushed>>

Skip ==
  /\ pc = "walk" /\ InReach(offset)
  /\ ~ts_packet_parse(offset)
  /\ find_resync_offset(offset) = {}
  /\ Continue(offset)
  /\ counts' = Raised({"sync_errors", "malformed_datagrams"})
  /\ UNCHANGED <<datagram, pc, pushed>>

Finish ==
  /\ pc = "walk" /\ ~InReach(offset)
  /\ pc' = "done"
  /\ counts' = Raised(IF EndsShort(offset) THEN {"sync_errors", "partial_datagrams"} ELSE {})
  /\ UNCHANGED <<datagram, offset, pushed>>

Walk == PushPacket \/ Resync \/ Skip \/ Finish
Returned == pc # "walk" /\ UNCHANGED walk_vars

Next == Walk \/ PushFails \/ Returned

Spec == Init /\ [][Next]_walk_vars

-----------------------------------------------------------------------------
(***************************************************************************)
(* Properties.                                                             *)
(***************************************************************************)
PushedSet == {pushed[i] : i \in DOMAIN pushed}
Bytes(o) == o .. o + PacketSize - 1

(***************************************************************************)
(* process_datagram hands on whole packets of the datagram, in order, and  *)
(* no byte twice, wherever a resync led the walk and whatever it wrapped.  *)
(***************************************************************************)
PushedAreFramed ==
  /\ \A i \in DOMAIN pushed : pushed[i] + PacketSize <= size
  /\ \A i, j \in DOMAIN pushed : i < j => pushed[i] + PacketSize <= pushed[j]

(***************************************************************************)
(* A byte of the datagram that reaches no packet is not lost silently:     *)
(* while sync_errors has counted nothing, the packets cover the datagram.  *)
(***************************************************************************)
LossIsCounted ==
  pc = "done" /\ counts["sync_errors"] = 0 =>
    UNION {Bytes(o) : o \in PushedSet} = DOMAIN datagram

(***************************************************************************)
(* "valid packets after resync are still processed": when the datagram     *)
(* ends in a row of intact packets, long enough for has_sync_run to see,   *)
(* every one of them is handed on, whatever comes before them and wherever *)
(* the row starts.  No sync byte may stand between the packets: the walk   *)
(* takes the first run it meets, and a false one leads it astray.          *)
(***************************************************************************)
IntactFrom(t) ==
  /\ size - t >= SyncRun * PacketSize /\ (size - t) % PacketSize = 0
  /\ \A o \in t .. size - 1 : (o - t) % PacketSize = 0 => datagram[o] = "intact"
OnlyPhase(t) == \A o \in 0 .. size - 1 : HasSync(o) => (o - t) % PacketSize = 0

ValidPacketsKept ==
  pc = "done" =>
    \A t \in 0 .. size - 1 :
      IntactFrom(t) /\ OnlyPhase(t) =>
        {o \in t .. size - 1 : (o - t) % PacketSize = 0} \subseteq PushedSet

(***************************************************************************)
(* The walk ends: however often it resynchronises, every turn of the loop  *)
(* leads forward, and the offset never passes the end of the datagram.     *)
(***************************************************************************)
WalkAdvances ==
  [][ pc = "walk" /\ pc' = "walk" => offset' > offset /\ offset' <= size ]_walk_vars
=============================================================================
