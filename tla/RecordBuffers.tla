---------------------------- MODULE RecordBuffers ----------------------------
(***************************************************************************)
(* What the packet histories and the delay queues of recovery_engine.c     *)
(* hold, as sequences of records, oldest first.  The code keeps them in    *)
(* rings; RingBuffers.tla shows that the rings behave like this.           *)
(***************************************************************************)
EXTENDS Integers, Sequences, FiniteSetsExt

CONSTANTS
  Capacity,  \* history_capacity_from_config
  Retention  \* history_ms, 0 = keep as long as there is room

ASSUME BufferAssumption ==
  Capacity \in Nat \ {0} /\ Retention \in Nat

\* The set that holds the record with stream index i, empty for NULL.
packet_history_find_index(h, i) == {h[k] : k \in {j \in DOMAIN h : h[j].idx = i}}

packet_history_push_over_newest(h, r) ==
  IF Len(h) < Capacity THEN Append(h, r) ELSE Append(SubSeq(h, 1, Len(h) - 1), r)
packet_history_push(h, r) ==
  IF Len(h) < Capacity THEN Append(h, r) ELSE Append(Tail(h), r)

\* q without the records at its front that satisfy P.
DropWhile(q, P(_)) ==
  LET kept == {k \in DOMAIN q : ~P(q[k])}
  IN  IF kept = {} THEN << >> ELSE SubSeq(q, Min(kept), Len(q))

packet_history_prune_older_than(h, cutoff) == DropWhile(h, LAMBDA r : r.at < cutoff)

\* h once recovery_engine_push_packet has put away what is too old at time t.
Retained(h, t) ==
  IF Retention > 0 /\ t > Retention
  THEN packet_history_prune_older_than(h, t - Retention) ELSE h

delay_queue_pop_nothing(q) == q
delay_queue_pop(q) == Tail(q)

\* delay_queue_push; on a full queue the oldest record makes room.
QueuePush_restart(q, r) == IF Len(q) < Capacity THEN Append(q, r) ELSE <<r>>
QueuePush_in_place(q, r) ==
  IF Len(q) < Capacity THEN Append(q, r) ELSE [q EXCEPT ![1] = r]
QueuePush(q, r) == Append(IF Len(q) < Capacity THEN q ELSE delay_queue_pop(q), r)
=============================================================================
