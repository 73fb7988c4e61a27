----------------------------- MODULE RingBuffers -----------------------------
(***************************************************************************)
(* packet_history_t and primary_delay_queue_t of recovery_engine.c: rings  *)
(* of Capacity records with the place of the oldest one (start) and how    *)
(* many there are (count).  One step is what recovery_engine_push_packet   *)
(* does to the buffers of one input, or one pop of the delay queue.        *)
(***************************************************************************)
EXTENDS Integers, Sequences

CONSTANTS Capacity, Retention, MaxPackets, MaxNow

ASSUME RingAssumption ==
  /\ Capacity \in Nat \ {0} /\ Retention \in Nat
  /\ MaxPackets \in Nat /\ MaxNow \in Nat \ {0}

VARIABLES
  now,   \* report_stats_now_ns
  next,  \* next_stream_index
  hist,  \* the history: [records, start, count]
  dq     \* the delay queue: [records, start, count]

ring_vars == <<now, next, hist, dq>>

Place == 0 .. Capacity - 1

\* A slot as calloc leaves it.
Blank == [idx |-> 0, at |-> 0]
Slot == [idx: Nat, at: Nat]
Ring == [records: [Place -> Slot], start: Place, count: 0 .. Capacity]

Init ==
  /\ now = 1
  /\ next = 0
  /\ hist = [records |-> [i \in Place |-> Blank], start |-> 0, count |-> 0]
  /\ dq = [records |-> [i \in Place |-> Blank], start |-> 0, count |-> 0]

TypeOK == now \in Nat /\ next \in Nat /\ hist \in Ring /\ dq \in Ring

-----------------------------------------------------------------------------
\* The place k slots behind the oldest record.
PlaceOf_unwrapped(ring, k) == IF ring.start + k < Capacity THEN ring.start + k ELSE 0
PlaceOf(ring, k) == (ring.start + k) % Capacity

\* packet_history_push, and the record that recovery_engine_push_packet writes
\* to the slot it returns.
HistoryPush(ring, r) ==
  IF ring.count < Capacity
  THEN [ring EXCEPT !.records[PlaceOf(ring, ring.count)] = r, !.count = @ + 1]
  ELSE [ring EXCEPT !.records[ring.start] = r, !.start = PlaceOf(ring, 1)]

\* The ring without its n oldest records.
Without(ring, n) == [ring EXCEPT !.start = PlaceOf(ring, n), !.count = @ - n]

\* packet_history_prune_older_than: the loop stops at the first record that is
\* new enough, or when none is left.
Prune(ring, cutoff) ==
  Without(ring, CHOOSE n \in 0 .. ring.count :
    /\ \A k \in 0 .. n - 1 : ring.records[PlaceOf(ring, k)].at < cutoff
    /\ n = ring.count \/ ring.records[PlaceOf(ring, n)].at >= cutoff)

\* packet_history_find_index
FindIndex(ring, i) ==
  LET oldest == ring.records[ring.start].idx
      place  == PlaceOf(ring, i - oldest)
  IN  IF \/ ring.count = 0
         \/ i < oldest
         \/ i - oldest >= ring.count
         \/ ring.records[place].idx # i
      THEN {} ELSE {ring.records[place]}

\* delay_queue_push
QueueAdd(ring, r) ==
  [ring EXCEPT !.records[PlaceOf(ring, ring.count)] = r, !.count = @ + 1]

-----------------------------------------------------------------------------
\* The buffers' part of recovery_engine_push_packet.
Push ==
  LET r == [idx |-> next, at |-> now]
      pushed == HistoryPush(hist, r)
  IN  /\ next < MaxPackets
      /\ next' = next + 1
      /\ hist' = IF Retention > 0 /\ now > Retention
                 THEN Prune(pushed, now - Retention) ELSE pushed
      /\ dq' = QueueAdd(IF dq.count < Capacity THEN dq ELSE Without(dq, 1), r)
      /\ UNCHANGED now

\* delay_queue_pop, where the drain calls it.
Pop ==
  /\ dq.count > 0
  /\ dq' = Without(dq, 1)
  /\ UNCHANGED <<now, next, hist>>

Tick ==
  /\ now < MaxNow
  /\ now' = now + 1
  /\ UNCHANGED <<next, hist, dq>>

\* The bounds leave nothing to do.
BoundsReached ==
  next = MaxPackets /\ dq.count = 0 /\ now = MaxNow /\ UNCHANGED ring_vars

Next == Push \/ Pop \/ Tick \/ BoundsReached

Spec == Init /\ [][Next]_ring_vars

-----------------------------------------------------------------------------
\* The records of a ring, oldest first.
Contents(ring) == [k \in 1 .. ring.count |-> ring.records[PlaceOf(ring, k - 1)]]

Abstract == INSTANCE StreamBuffers WITH history <- Contents(hist), queue <- Contents(dq)

(***************************************************************************)
(* The rings implement the sequences that RecoveryEngine.tla works with:   *)
(* whatever the order of pushes, pops, prunes and overflows, wrapping      *)
(* around the end of the array loses, repeats and reorders nothing.        *)
(***************************************************************************)
ImplementsBuffers == Abstract!BuffersSpec

(***************************************************************************)
(* packet_history_find_index computes a place from the index of the oldest *)
(* record; it finds a record exactly if the history holds it, for every    *)
(* index that was ever used and beyond.                                    *)
(***************************************************************************)
FindIndexIsExact ==
  \A i \in 0 .. next + Capacity :
    FindIndex(hist, i) = Abstract!packet_history_find_index(Contents(hist), i)
=============================================================================
