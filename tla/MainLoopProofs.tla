--------------------------- MODULE MainLoopProofs ---------------------------
(***************************************************************************)
(* run_loop uses the engine as the specification of the engine allows, so  *)
(* that what is proved of the engine holds in the program, with any        *)
(* arrivals, losses, web clients, signals and errors; and what select has  *)
(* reported of the primary it receives before it judges the primary.       *)
(***************************************************************************)
EXTENDS MainLoopTurns, RecoveryEngineProofs

(***************************************************************************)
(* The part of the type that the mapping needs: what is pushed is a packet *)
(* of one of the two inputs.                                               *)
(***************************************************************************)
Waiting == [pkts : Seq(Packet), at : Nat]

LoopInv ==
  /\ now \in Nat
  /\ loop \in {"head", "select", "serve", "receive", "process", "over", "error"}
  /\ input \in 0 .. 2 /\ (loop = "process" => input \in Stream)
  /\ ready \subseteq {0, 1, WebServer}
  /\ todo \in Seq(Packet)
  /\ should_stop \in BOOLEAN
  /\ kernel \in [Stream -> Seq(Waiting)]
  /\ upto \in [Stream -> 0 .. Len(Source)]
  /\ lost \in [Stream -> Nat]
  /\ connected \in 0 .. MaxClients /\ clients \in 0 .. connected

LEMMA LoopInvInit == LoopInit => LoopInv
<1> SUFFICES ASSUME LoopInit PROVE LoopInv
  OBVIOUS
<1>1. Len(Source) \in Nat
  BY LoopAssumption, LenProperties
<1>2. << >> \in Seq(Packet) /\ << >> \in Seq(Waiting)
  BY EmptySeq
<1>3. kernel \in [Stream -> Seq(Waiting)] /\ todo \in Seq(Packet)
  BY <1>2 DEF LoopInit
<1>4. upto \in [Stream -> 0 .. Len(Source)] /\ lost \in [Stream -> Nat]
  BY <1>1 DEF LoopInit
<1>5. should_stop \in BOOLEAN /\ ready \subseteq {0, 1, WebServer}
  BY DEF LoopInit
<1>6. /\ now \in Nat /\ input \in 0 .. 2 /\ loop = "head"
      /\ connected \in 0 .. MaxClients /\ clients \in 0 .. connected
  BY LoopAssumption DEF LoopInit, Init
<1>7. /\ loop \in {"head", "select", "serve", "receive", "process", "over", "error"}
      /\ loop = "process" => input \in Stream
  BY <1>6
<1> QED
  BY <1>3, <1>4, <1>5, <1>6, <1>7, Zenon DEF LoopInv

\* A datagram that arrives carries packets of the broadcast.
LEMMA ArrivesType ==
  ASSUME LoopInv, NEW s \in Stream, NEW n \in Nat \ {0}, Arrives(s, n)
  PROVE  /\ kernel' \in [Stream -> Seq(Waiting)]
         /\ upto' \in [Stream -> 0 .. Len(Source)]
<1>1. Source \in Seq(Packet) /\ Len(Source) \in Nat /\ DOMAIN Source = 1 .. Len(Source)
  BY LoopAssumption, LenProperties
<1>2. upto[s] \in Nat /\ upto[s] + n <= Len(Source)
  BY <1>1 DEF LoopInv, Arrives
<1>3. upto[s] + 1 \in DOMAIN Source /\ upto[s] + n \in DOMAIN Source
  BY <1>1, <1>2
<1> DEFINE pkts == SubSeq(Source, upto[s] + 1, upto[s] + n)
<1>4. pkts \in Seq(Packet)
  BY <1>1, <1>3, StretchType
<1> DEFINE d == [pkts |-> pkts, at |-> now]
<1>5. kernel' = [kernel EXCEPT ![s] = Append(kernel[s], d)]
  BY DEF Arrives
<1> HIDE DEF pkts
<1>6. d \in Waiting
  BY <1>4 DEF LoopInv, Waiting
<1> HIDE DEF d
<1>7. kernel' \in [Stream -> Seq(Waiting)]
  BY <1>5, <1>6 DEF LoopInv
<1>8. upto' \in [Stream -> 0 .. Len(Source)]
  BY <1>1, <1>2 DEF LoopInv, Arrives
<1> QED  BY <1>7, <1>8

\* What recv returns is a datagram that has arrived.
LEMMA ReceiveType ==
  ASSUME LoopInv, Receive
  PROVE  todo' \in Seq(Packet) /\ kernel' \in [Stream -> Seq(Waiting)]
<1>1. input \in Stream /\ kernel[input] \in Seq(Waiting) /\ kernel[input] # << >>
  BY DEF LoopInv, Receive
<1>2. Head(kernel[input]) \in Waiting /\ Tail(kernel[input]) \in Seq(Waiting)
  BY <1>1, HeadTailProperties
<1>3. todo' = Head(kernel[input]).pkts /\ kernel' = [kernel EXCEPT ![input] = Tail(kernel[input])]
  BY DEF Receive
<1> QED  BY <1>1, <1>2, <1>3 DEF LoopInv, Waiting

\* A step of run_loop is a step of the engine's specification, or leaves the
\* engine alone.
LEMMA LoopStepMaps ==
  ASSUME LoopInv, [LoopNext]_loop_vars
  PROVE  [Next]_vars
<1>1. CASE Process
  <2>1. input \in Stream /\ Head(todo) \in Packet
    BY <1>1, HeadTailProperties DEF Process, LoopInv
  <2> QED  BY <1>1, <2>1 DEF Process, Next
<1>2. CASE Leave \/ EndOfTurn \/ Engine \/ SinkError
  BY <1>2 DEF Leave, EndOfTurn, Engine, SinkError, Next
<1>3. CASE ServeClient \/ Clock
  BY <1>3 DEF ServeClient, Clock, Advance, Next
<1>4. CASE \/ Again \/ Select \/ Interrupted \/ Served
           \/ Receive \/ ReceiveNothing \/ Processed
           \/ Connects \/ Signal \/ SocketError
           \/ \E s \in Stream, n \in 1 .. DatagramRoom : Arrives(s, n) \/ IsLost(s, n)
           \/ UNCHANGED loop_vars
  <2>1. UNCHANGED vars
    BY <1>4 DEF Again, Select, Interrupted, Served, Receive, ReceiveNothing, Processed,
                Connects, Signal, SocketError, Arrives, IsLost, loop_vars
  <2> QED  BY <2>1
<1> QED  BY <1>1, <1>2, <1>3, <1>4 DEF LoopNext, Turn, World

LEMMA LoopInvStep ==
  ASSUME LoopInv, [LoopNext]_loop_vars
  PROVE  LoopInv'
<1>1. now' \in Nat
  <2>1. now' = now \/ now' = now + 1
    <3>1. Next \/ UNCHANGED vars
      BY LoopStepMaps
    <3>2. CASE Next
      BY <3>2 DEF Next, PushPacket, MainLoopDrain, Flush, SinkFails, Tick, EngineStep,
                  DrainNotReady, DrainNothing, DrainPrimary, PrimaryStep, PrimaryNotDue,
                  PrimaryEmpty, SecondaryStep, SecondaryDone
    <3> QED  BY <3>1, <3>2 DEF vars
  <2> QED  BY <2>1 DEF LoopInv
<1>2. CASE Again \/ Leave \/ Select \/ Interrupted \/ Served \/ EndOfTurn \/ Engine
           \/ SinkError \/ SocketError \/ Clock \/ UNCHANGED loop_vars
  <2>1. Readable \subseteq {0, 1, WebServer}
    BY DEF Readable, Stream, WebServer
  <2>2. /\ loop' \in {"head", "select", "serve", "receive", "over", "error", loop}
        /\ input' \in {0, input} /\ (loop' = loop => input' = input)
        /\ ready' \in {Readable, {}, ready}
        /\ UNCHANGED <<todo, should_stop, world_vars>>
    BY <1>2 DEF Again, Leave, Select, Interrupted, Served, EndOfTurn, Engine, SinkError,
                SocketError, Clock, loop_vars, turn_vars, At
  <2> QED  BY <1>1, <2>1, <2>2 DEF LoopInv, world_vars
<1>3. CASE ServeClient
  BY <1>1, <1>3, LoopAssumption DEF ServeClient, LoopInv, turn_vars
<1>4. CASE Receive
  <2>1. /\ loop' = "process" /\ input \in Stream
        /\ UNCHANGED <<input, ready, should_stop, upto, lost, clients, connected>>
    BY <1>4 DEF Receive
  <2> QED  BY <1>1, <1>4, <2>1, ReceiveType DEF LoopInv
<1>5. CASE ReceiveNothing \/ Processed
  <2>1. /\ loop' = "receive" /\ input \in Stream /\ input' = input + 1
        /\ UNCHANGED <<ready, todo, should_stop, world_vars>>
    BY <1>5 DEF ReceiveNothing, Processed, LoopInv, At
  <2> QED  BY <1>1, <2>1 DEF LoopInv, world_vars, Stream
<1>6. CASE Process
  <2>1. todo' \in Seq(Packet) /\ UNCHANGED <<loop, input, ready, should_stop, world_vars>>
    BY <1>6, HeadTailProperties DEF Process, LoopInv
  <2> QED  BY <1>1, <2>1 DEF LoopInv, world_vars
<1>7. ASSUME NEW s \in Stream, NEW n \in 1 .. DatagramRoom, Arrives(s, n)
      PROVE  LoopInv'
  <2>1. n \in Nat \ {0}
    BY LoopAssumption
  <2>2. /\ kernel' \in [Stream -> Seq(Waiting)] /\ upto' \in [Stream -> 0 .. Len(Source)]
        /\ UNCHANGED <<turn_vars, should_stop, lost, clients, connected>>
    BY <1>7, <2>1, ArrivesType DEF Arrives
  <2> QED  BY <1>1, <2>2 DEF LoopInv, turn_vars
<1>8. ASSUME NEW s \in Stream, NEW n \in 1 .. DatagramRoom, IsLost(s, n)
      PROVE  LoopInv'
  <2>1. n \in Nat /\ Len(Source) \in Nat
    BY LoopAssumption, LenProperties
  <2>2. /\ upto' \in [Stream -> 0 .. Len(Source)] /\ lost' \in [Stream -> Nat]
        /\ UNCHANGED <<turn_vars, should_stop, kernel, clients, connected>>
    BY <1>8, <2>1 DEF IsLost, LoopInv
  <2> QED  BY <1>1, <2>2 DEF LoopInv, turn_vars
<1>9. CASE Connects
  BY <1>1, <1>9, LoopAssumption DEF Connects, LoopInv, turn_vars
<1>10. CASE Signal
  BY <1>1, <1>10 DEF Signal, LoopInv, turn_vars, world_vars
<1> QED
  BY <1>2, <1>3, <1>4, <1>5, <1>6, <1>7, <1>8, <1>9, <1>10 DEF LoopNext, Turn, World

LEMMA LoopInvariant == LoopSpec => []LoopInv
BY LoopInvInit, LoopInvStep, PTL DEF LoopSpec

(***************************************************************************)
(* run_loop, with web clients, signals, failing sockets and datagrams that *)
(* come at any time, uses the engine as its specification says: every call *)
(* it makes is one that Spec of RecoveryEngine allows.                     *)
(***************************************************************************)
THEOREM LoopImplementsEngine == LoopSpec => Spec
<1>1. LoopInit => Init
  BY DEF LoopInit
<1>2. LoopInv /\ [LoopNext]_loop_vars => [Next]_vars
  BY LoopStepMaps
<1> QED  BY <1>1, <1>2, LoopInvariant, PTL DEF LoopSpec, Spec

(***************************************************************************)
(* So each stream leaves once and in order in the whole program too.       *)
(***************************************************************************)
THEOREM LoopOutputInOrder == LoopSpec => []OutputInOrder
BY LoopImplementsEngine, EngineOutputInOrder, PTL

(***************************************************************************)
(* And the flush at the end of run_loop leaves nothing queued of the       *)
(* stream that output is on, with the one exception of FlushSendsQueue.    *)
(***************************************************************************)
THEOREM LoopFlushSendsQueue == LoopSpec => []FlushSendsQueue
BY LoopImplementsEngine, EngineFlushSendsQueue, PTL

(***************************************************************************)
(* The state of run_loop is well typed: process_datagram is entered with   *)
(* one of the two inputs, and never with more than was received.           *)
(***************************************************************************)
THEOREM LoopIsTyped == LoopSpec => []LoopTypeOK
<1>1. LoopInv /\ TypeOK => LoopTypeOK
  BY DEF LoopInv, LoopTypeOK, Waiting
<1> QED  BY <1>1, LoopInvariant, LoopImplementsEngine, EngineTypeOK, PTL

-----------------------------------------------------------------------------
(***************************************************************************)
(* Silence.  A loop over the secondary that output has not moved to yet    *)
(* was entered for a silence, which lasts as long as nothing is pushed.    *)
(***************************************************************************)
SilenceInv == pc = "secondary" /\ active = 0 => now - last_arrival[0] >= PrimaryOutage

LEMMA SilenceStep ==
  ASSUME TypeOK, SilenceInv, [Next]_vars
  PROVE  SilenceInv'
<1> SUFFICES ASSUME pc' = "secondary", active' = 0
             PROVE  now' - last_arrival'[0] >= PrimaryOutage
  BY DEF SilenceInv
<1>1. now \in Nat /\ last_arrival[0] \in Nat /\ PrimaryOutage \in Nat
  BY EngineAssumption DEF TypeOK, Stream
<1>2. CASE DrainNotReady \/ DrainNothing \/ PrimaryEmpty
  <2>1. UNCHANGED <<now, last_arrival, active>>
    BY <1>2 DEF DrainNotReady, DrainNothing, PrimaryEmpty
  <2>2. Returned # "secondary"
    BY DEF Returned
  <2>3. primary_is_silent_beyond_outage
    BY <1>2, <2>1, <2>2 DEF DrainNotReady, DrainNothing, PrimaryEmpty, EnterOutage
  <2> QED  BY <2>1, <2>3 DEF primary_is_silent_beyond_outage
<1>3. CASE Tick
  <2>1. now' = now + 1 /\ UNCHANGED <<last_arrival, active, pc>>
    BY <1>3 DEF Tick, engine_vars
  <2> QED  BY <1>1, <2>1 DEF SilenceInv
<1>4. CASE UNCHANGED vars
  BY <1>4 DEF SilenceInv, vars, engine_vars
<1>5. CASE \/ \E s \in Stream, pkt \in Packet : PushPacket(s, pkt)
           \/ MainLoopDrain \/ Flush \/ SinkFails
           \/ DrainPrimary \/ PrimaryStep \/ PrimaryNotDue \/ SecondaryStep \/ SecondaryDone
  <2>1. ~(pc' = "secondary" /\ active' = 0)
    BY <1>5 DEF PushPacket, MainLoopDrain, Flush, SinkFails, DrainPrimary, PrimaryStep,
                PrimaryNotDue, SecondaryStep, SecondaryDone, Returned
  <2> QED  BY <2>1
<1> QED  BY <1>2, <1>3, <1>4, <1>5 DEF Next, EngineStep

LEMMA SilenceInvariant == LoopSpec => []SilenceInv
<1>1. Init => SilenceInv
  BY DEF Init, SilenceInv
<1>2. TypeOK /\ SilenceInv /\ [Next]_vars => SilenceInv'
  BY SilenceStep
<1>3. Spec => []SilenceInv
  BY <1>1, <1>2, EngineTypeOK, PTL DEF Spec
<1> QED  BY <1>3, LoopImplementsEngine, PTL

-----------------------------------------------------------------------------
(***************************************************************************)
(* What select has reported of the primary is received in the same turn.   *)
(***************************************************************************)
\* The primary's turn is still to come in the loop over the inputs.
YetToReceive ==
  /\ pc = "idle"
  /\ \/ loop = "serve" /\ 0 \in ready
     \/ loop = "receive" /\ input = 0 /\ 0 \in ready
     \/ loop = "process" /\ input = 0 /\ todo # << >>
     \/ loop = "error"

\* A datagram of the primary that was there at select waits in the socket.
OldWaits == \E k \in DOMAIN kernel[0] : kernel[0][k].at < selected_at

HeardInv ==
  /\ selected_at \in Nat /\ selected_at <= now
  /\ \A k \in DOMAIN kernel[0] : kernel[0][k].pkts # << >>
  /\ OldWaits => YetToReceive \/ last_arrival[0] >= selected_at

LEMMA KernelType ==
  ASSUME LoopInv
  PROVE  \A s \in Stream : /\ kernel[s] \in Seq(Waiting) /\ Len(kernel[s]) \in Nat
                           /\ DOMAIN kernel[s] = 1 .. Len(kernel[s])
<1> TAKE s \in Stream
<1>1. kernel[s] \in Seq(Waiting)
  BY DEF LoopInv
<1> QED  BY <1>1, LenProperties


LEMMA HeardArrives ==
  ASSUME LoopInv, HeardInv, NEW s \in Stream, NEW n \in Nat \ {0}, Arrives(s, n),
         selected_at' = selected_at
  PROVE  HeardInv'
<1>1. /\ UNCHANGED <<now, last_arrival, pc, loop, input, ready, todo>>
      /\ selected_at \in Nat /\ now \in Nat /\ selected_at <= now
  BY DEF Arrives, vars, engine_vars, turn_vars, HeardInv, LoopInv
<1> DEFINE pkts == SubSeq(Source, upto[s] + 1, upto[s] + n)
           d == [pkts |-> pkts, at |-> now]
           q == kernel[s]
<1>2. kernel' = [kernel EXCEPT ![s] = Append(q, d)]
  BY DEF Arrives
<1>3. pkts # << >>
  <2>1. Source \in Seq(Packet) /\ Len(Source) \in Nat
    BY LoopAssumption, LenProperties
  <2>2. upto[s] \in Nat /\ upto[s] + n <= Len(Source)
    BY <2>1 DEF LoopInv, Arrives
  <2>3. Len(pkts) = n
    <3>1. upto[s] + 1 \in 1 .. Len(Source) + 1 /\ upto[s] + n \in Nat
      BY <2>1, <2>2
    <3> QED  BY <2>1, <2>2, <3>1, SubSeqProperties
  <2> HIDE DEF pkts
  <2> QED  BY <2>3
<1>4. d.at = now /\ d.pkts # << >>
  BY <1>3
<1>5. q \in Seq(Waiting) /\ Len(q) \in Nat /\ DOMAIN q = 1 .. Len(q)
  BY KernelType
<1>6. CASE s = 0
  <2>1. /\ DOMAIN Append(q, d) = 1 .. Len(q) + 1
        /\ \A k \in 1 .. Len(q) + 1 : Append(q, d)[k] = IF k <= Len(q) THEN q[k] ELSE d
    <3> HIDE DEF q, d
    <3> QED  BY <1>5, AppendProperties
  <2>2. kernel'[0] = Append(q, d) /\ q = kernel[0]
    BY <1>2, <1>6 DEF LoopInv
  <2> HIDE DEF q, d
  <2>3. ASSUME NEW k \in DOMAIN kernel'[0]
        PROVE  \/ k \in DOMAIN kernel[0] /\ kernel'[0][k] = kernel[0][k]
               \/ kernel'[0][k] = d
    BY <1>5, <2>1, <2>2
  <2>4. OldWaits' => OldWaits
    <3> SUFFICES ASSUME NEW k \in DOMAIN kernel'[0], kernel'[0][k].at < selected_at
                 PROVE  OldWaits
      BY DEF OldWaits
    <3>1. ~(now < selected_at)
      BY <1>1
    <3>2. k \in DOMAIN kernel[0] /\ kernel'[0][k] = kernel[0][k]
      BY <1>4, <2>3, <3>1
    <3> QED  BY <3>2 DEF OldWaits
  <2>5. \A k \in DOMAIN kernel'[0] : kernel'[0][k].pkts # << >>
    BY <1>4, <2>3 DEF HeardInv
  <2> QED  BY <1>1, <2>4, <2>5 DEF HeardInv, YetToReceive
<1>7. CASE s # 0
  <2>1. kernel'[0] = kernel[0]
    BY <1>2, <1>7 DEF LoopInv, Stream
  <2> QED  BY <1>1, <2>1 DEF HeardInv, YetToReceive, OldWaits
<1> QED  BY <1>6, <1>7

LEMMA HeardReceive ==
  ASSUME LoopInv, HeardInv, Receive, selected_at' = selected_at
  PROVE  HeardInv'
<1> DEFINE q == kernel[input]
<1>1. /\ kernel' = [kernel EXCEPT ![input] = Tail(q)] /\ input \in Stream /\ q # << >>
      /\ todo' = Head(q).pkts /\ pc = "idle" /\ loop = "receive" /\ loop' = "process"
      /\ UNCHANGED <<now, last_arrival, pc, input, ready>>
  BY DEF Receive, At, vars, engine_vars
<1>2. q \in Seq(Waiting) /\ Len(q) \in Nat /\ DOMAIN q = 1 .. Len(q)
  BY <1>1, KernelType
<1>3. CASE input = 0
  <2>1. kernel'[0] = Tail(q) /\ kernel[0] = q
    BY <1>1, <1>3 DEF LoopInv
  <2> HIDE DEF q
  <2>2. /\ Tail(q) \in Seq(Waiting) /\ Len(Tail(q)) = Len(q) - 1 /\ Len(q) >= 1
        /\ \A k \in 1 .. Len(Tail(q)) : Tail(q)[k] = q[k + 1]
        /\ Head(q) = q[1]
    BY <1>1, <1>2, HeadTailProperties
  <2>3. DOMAIN Tail(q) = 1 .. Len(q) - 1
    BY <2>2, LenProperties
  <2>4. \A k \in DOMAIN kernel'[0] : k + 1 \in DOMAIN kernel[0] /\ kernel'[0][k] = kernel[0][k + 1]
    BY <1>2, <2>1, <2>2, <2>3
  <2>5. todo' # << >>
    <3>1. 1 \in DOMAIN kernel[0] /\ Head(q) = kernel[0][1]
      BY <1>2, <2>1, <2>2
    <3> QED  BY <1>1, <3>1 DEF HeardInv, q
  <2>6. YetToReceive'
    BY <1>1, <1>3, <2>5 DEF YetToReceive
  <2> QED  BY <1>1, <2>4, <2>6 DEF HeardInv
<1>4. CASE input # 0
  <2>1. kernel'[0] = kernel[0] /\ ~YetToReceive
    BY <1>1, <1>4 DEF LoopInv, Stream, YetToReceive
  <2> QED  BY <1>1, <2>1 DEF HeardInv, OldWaits
<1> QED  BY <1>3, <1>4

\* A step that takes nothing from the sockets, and puts off no reception.
LEMMA HeardOfRest ==
  ASSUME LoopInv, TypeOK, HeardInv, kernel' = kernel, selected_at' = selected_at,
         now' = now \/ now' = now + 1,
         last_arrival'[0] = last_arrival[0] \/ last_arrival'[0] = now,
         YetToReceive => YetToReceive' \/ last_arrival'[0] = now
  PROVE  HeardInv'
<1>1. /\ now \in Nat /\ last_arrival[0] \in Nat /\ selected_at \in Nat /\ selected_at <= now
      /\ OldWaits' = OldWaits
  BY DEF TypeOK, Stream, HeardInv, OldWaits
<1>2. selected_at <= now'
  BY <1>1
<1>3. last_arrival[0] >= selected_at => last_arrival'[0] >= selected_at
  BY <1>1
<1>4. last_arrival'[0] = now => last_arrival'[0] >= selected_at
  BY <1>1
<1> QED  BY <1>1, <1>2, <1>3, <1>4 DEF HeardInv

LEMMA HeardStep ==
  ASSUME LoopInv, TypeOK, HeardInv, [TurnsNext]_turns_vars
  PROVE  HeardInv'
<1> DEFINE Kept == selected_at' = selected_at
<1>1. CASE Select
  <2>1. /\ loop = "select" /\ loop' = "serve" /\ pc = "idle" /\ ready' = Readable
        /\ kernel' = kernel /\ UNCHANGED <<now, pc, last_arrival>>
    BY <1>1 DEF Select, At, vars, engine_vars, world_vars
  <2>2. loop_vars' # loop_vars
    BY <2>1 DEF loop_vars, turn_vars
  <2>3. selected_at' = now
    BY <2>1, <2>2 DEF TurnsNext, turns_vars
  <2>4. OldWaits' => 0 \in ready'
    <3>1. OldWaits' => kernel[0] # << >>
      BY <2>1 DEF OldWaits
    <3> QED  BY <2>1, <3>1 DEF Readable, Stream
  <2>5. now \in Nat /\ now <= now
    BY DEF LoopInv
  <2> QED  BY <2>1, <2>3, <2>4, <2>5 DEF HeardInv, YetToReceive
<1>2. CASE ~Select /\ [LoopNext]_loop_vars
  <2>1. Kept
    <3>1. ~(loop = "select" /\ loop' = "serve")
      BY <1>2 DEF LoopNext, Turn, World, Again, Leave, Interrupted, ServeClient, Served, Receive,
                  ReceiveNothing, Process, Processed, EndOfTurn, Engine, SinkError, SocketError,
                  Signal, Arrives, IsLost, Connects, Clock, At, turn_vars, loop_vars
    <3> QED  BY <3>1 DEF TurnsNext, turns_vars
  <2>2. ASSUME NEW s \in Stream, NEW n \in 1 .. DatagramRoom, Arrives(s, n)
        PROVE  HeardInv'
    <3>1. n \in Nat \ {0}
      BY LoopAssumption
    <3> QED  BY <2>1, <2>2, <3>1, HeardArrives
  <2>3. CASE Receive
    BY <2>1, <2>3, HeardReceive
  <2>4. CASE Process
    <3>1. /\ kernel' = kernel /\ now' = now /\ input \in Stream /\ loop = "process"
          /\ last_arrival' = [last_arrival EXCEPT ![input] = now]
      BY <2>4 DEF Process, PushPacket, world_vars, LoopInv
    <3>2. last_arrival'[0] = IF input = 0 THEN now ELSE last_arrival[0]
      BY <3>1 DEF TypeOK, Stream
    <3>3. YetToReceive => input = 0
      BY <3>1 DEF YetToReceive
    <3> QED  BY <2>1, <3>1, <3>2, <3>3, HeardOfRest
  <2>5. CASE \/ Again \/ Leave \/ Interrupted \/ ServeClient \/ Served \/ ReceiveNothing
             \/ Processed \/ EndOfTurn \/ Engine \/ SinkError \/ SocketError \/ Connects \/ Signal
             \/ Clock \/ UNCHANGED loop_vars
             \/ \E s \in Stream, n \in 1 .. DatagramRoom : IsLost(s, n)
    <3>1. kernel' = kernel /\ last_arrival' = last_arrival
      <4>1. CASE Engine
        BY <4>1 DEF Engine, world_vars, EngineStep, DrainNotReady, DrainNothing, DrainPrimary,
                    PrimaryStep, PrimaryNotDue, PrimaryEmpty, SecondaryStep, SecondaryDone
      <4>2. CASE Leave \/ EndOfTurn \/ SinkError \/ ServeClient \/ Clock
        BY <4>2 DEF Leave, EndOfTurn, SinkError, ServeClient, Clock, Advance, Tick, Flush,
                    MainLoopDrain, SinkFails, world_vars, engine_vars, vars
      <4>3. CASE ~(Engine \/ Leave \/ EndOfTurn \/ SinkError \/ ServeClient \/ Clock)
        BY <2>5, <4>3 DEF Again, Interrupted, Served, ReceiveNothing, Processed, SocketError,
                          Connects, Signal, IsLost, loop_vars, world_vars, vars, engine_vars
      <4> QED  BY <4>1, <4>2, <4>3
    <3>2. now' = now \/ now' = now + 1
      <4>1. [Next]_vars
        BY <1>2, LoopStepMaps
      <4> QED  BY <4>1 DEF Next, PushPacket, MainLoopDrain, Flush, SinkFails, Tick, EngineStep,
                  DrainNotReady, DrainNothing, DrainPrimary, PrimaryStep, PrimaryNotDue,
                  PrimaryEmpty, SecondaryStep, SecondaryDone, vars
    <3>3. OldWaits => (YetToReceive => YetToReceive')
      <4> SUFFICES ASSUME OldWaits, YetToReceive PROVE YetToReceive'
        OBVIOUS
      <4>0. pc = "idle" /\ kernel[0] # << >>
        BY DEF OldWaits, YetToReceive
      <4>1. CASE Again \/ Leave \/ Interrupted \/ Processed \/ EndOfTurn \/ Engine \/ SinkError
        BY <4>0, <4>1 DEF YetToReceive, Again, Leave, Interrupted, Processed, EndOfTurn, Engine,
                     SinkError, SinkFails, At, EngineStep, DrainNotReady, DrainNothing,
                     DrainPrimary, PrimaryStep, PrimaryNotDue, PrimaryEmpty, SecondaryStep,
                     SecondaryDone
      <4>2. CASE Served \/ SocketError
        BY <4>2 DEF YetToReceive, Served, SocketError, At, vars, engine_vars
      <4>3. CASE ReceiveNothing
        BY <4>0, <4>3 DEF YetToReceive, ReceiveNothing, At, vars
      <4>4. CASE ServeClient \/ Clock
        BY <4>4 DEF YetToReceive, ServeClient, Clock, Advance, Tick, engine_vars, turn_vars, vars
      <4>5. CASE \/ Connects \/ Signal \/ UNCHANGED loop_vars
                 \/ \E s \in Stream, n \in 1 .. DatagramRoom : IsLost(s, n)
        BY <4>5 DEF YetToReceive, Connects, Signal, IsLost, loop_vars, turn_vars, vars, engine_vars
      <4> QED  BY <2>5, <4>1, <4>2, <4>3, <4>4, <4>5
    <3>4. CASE OldWaits
      BY <2>1, <3>1, <3>2, <3>3, <3>4, HeardOfRest
    <3>5. CASE ~OldWaits
      <4>1. ~OldWaits' /\ selected_at <= now'
        BY <2>1, <3>1, <3>2, <3>5 DEF OldWaits, HeardInv, LoopInv
      <4> QED  BY <2>1, <3>1, <4>1 DEF HeardInv
    <3> QED  BY <3>4, <3>5
  <2> QED  BY <1>2, <2>2, <2>3, <2>4, <2>5 DEF LoopNext, Turn, World
<1>3. [LoopNext]_loop_vars
  BY DEF TurnsNext, turns_vars
<1> QED  BY <1>1, <1>2, <1>3

(***************************************************************************)
(* Whatever clients, signals, losses, full sockets and errors do, and      *)
(* however long anything in a turn takes: output moves to the secondary    *)
(* while a datagram of the primary waits in its socket only if that came   *)
(* after select last returned, or at least primary_outage_ns have passed   *)
(* since.  So a silence that is not real is no longer than one turn; the   *)
(* run slow_client shows one.                                              *)
(***************************************************************************)
THEOREM SilenceIsOneTurn == TurnsSpec => OverlookedIsNew
<1>1. TurnsInit => HeardInv
  <2> SUFFICES ASSUME TurnsInit PROVE HeardInv
    OBVIOUS
  <2>1. kernel[0] = << >> /\ selected_at = 0 /\ now = 1
    BY DEF TurnsInit, LoopInit, Init, Stream
  <2> QED  BY <2>1 DEF HeardInv, OldWaits
<1>2. TurnsSpec => LoopSpec
  <2>1. TurnsInit => LoopInit
    BY DEF TurnsInit
  <2>2. [TurnsNext]_turns_vars => [LoopNext]_loop_vars
    BY DEF TurnsNext, turns_vars
  <2> QED  BY <2>1, <2>2, PTL DEF TurnsSpec, LoopSpec
<1>3. LoopInv /\ TypeOK /\ HeardInv /\ [TurnsNext]_turns_vars => HeardInv'
  BY HeardStep
<1>4. ASSUME LoopInv, TypeOK, SilenceInv, HeardInv, [TurnsNext]_turns_vars,
             active = 0, active' = 1
      PROVE  \/ \A k \in DOMAIN kernel[0] : kernel[0][k].at >= selected_at
             \/ now - selected_at >= PrimaryOutage
  <2>1. [Next]_vars
    <3>1. [LoopNext]_loop_vars
      BY <1>4 DEF TurnsNext, turns_vars
    <3> QED  BY <1>4, <3>1, LoopStepMaps
  <2>2. pc = "secondary"
    BY <1>4, <2>1 DEF Next, vars, engine_vars, PushPacket, MainLoopDrain, Flush, EngineStep,
            SinkFails, Tick, DrainNotReady, DrainNothing, DrainPrimary, PrimaryStep,
            PrimaryNotDue, PrimaryEmpty, SecondaryStep, SecondaryDone
  <2>3. now - last_arrival[0] >= PrimaryOutage
    BY <1>4, <2>2 DEF SilenceInv
  <2>4. /\ now \in Nat /\ last_arrival[0] \in Nat /\ selected_at \in Nat
        /\ PrimaryOutage \in Nat
    BY <1>4, EngineAssumption DEF TypeOK, HeardInv, Stream
  <2>5. CASE OldWaits
    <3>1. last_arrival[0] >= selected_at
      BY <1>4, <2>2, <2>5 DEF HeardInv, YetToReceive
    <3> QED  BY <2>3, <2>4, <3>1
  <2>6. CASE ~OldWaits
    <3> SUFFICES ASSUME NEW k \in DOMAIN kernel[0] PROVE kernel[0][k].at >= selected_at
      OBVIOUS
    <3>1. kernel[0][k].at \in Nat
      <4>1. kernel[0][k] \in Waiting
        BY <1>4, KernelType, ElementOfSeq DEF Stream
      <4> QED  BY <4>1 DEF Waiting
    <3>2. ~(kernel[0][k].at < selected_at)
      BY <2>6 DEF OldWaits
    <3> QED  BY <2>4, <3>1, <3>2
  <2> QED  BY <2>5, <2>6
<1>5. LoopInv /\ TypeOK /\ SilenceInv /\ HeardInv /\ [TurnsNext]_turns_vars
        => [ active = 0 /\ active' = 1 =>
               \/ \A k \in DOMAIN kernel[0] : kernel[0][k].at >= selected_at
               \/ now - selected_at >= PrimaryOutage ]_turns_vars
  BY <1>4
<1>6. LoopSpec => []TypeOK
  BY LoopImplementsEngine, EngineTypeOK, PTL
<1> QED  BY <1>1, <1>2, <1>3, <1>5, <1>6, LoopInvariant, SilenceInvariant, PTL
         DEF TurnsSpec, OverlookedIsNew
=============================================================================
