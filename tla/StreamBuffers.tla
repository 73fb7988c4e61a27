---------------------------- MODULE StreamBuffers ----------------------------
(***************************************************************************)
(* What the buffers of one input promise: a history of the newest records, *)
(* and a first-in first-out delay queue that gives up its oldest record    *)
(* when it is full.  This is how RecoveryEngine.tla uses them.             *)
(***************************************************************************)
EXTENDS RecordBuffers

CONSTANTS
  MaxPackets,  \* bound: how many records arrive
  MaxNow       \* bound: the clock stops here

VARIABLES
  now,     \* the clock
  next,    \* next_stream_index
  history, \* the records of the packet_history_t
  queue    \* the records of the primary_delay_queue_t

buffer_vars == <<now, next, history, queue>>

BuffersInit ==
  /\ now = 1
  /\ next = 0
  /\ history = << >>
  /\ queue = << >>

PushRecord ==
  LET r == [idx |-> next, at |-> now]
  IN  /\ next < MaxPackets
      /\ next' = next + 1
      /\ history' = Retained(packet_history_push(history, r), now)
      /\ queue' = QueuePush(queue, r)
      /\ UNCHANGED now

PopRecord ==
  /\ queue # << >>
  /\ queue' = delay_queue_pop(queue)
  /\ UNCHANGED <<now, next, history>>

Advance ==
  /\ now < MaxNow
  /\ now' = now + 1
  /\ UNCHANGED <<next, history, queue>>

BuffersNext == PushRecord \/ PopRecord \/ Advance

BuffersSpec == BuffersInit /\ [][BuffersNext]_buffer_vars
=============================================================================
