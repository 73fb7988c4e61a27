------------------------------ MODULE MainLoop ------------------------------
(***************************************************************************)
(* run_loop of main.c around the engine, with what it waits for: the two   *)
(* input sockets, the web server and the signals that end the program.     *)
(* Datagrams wait in the kernel until the loop receives them; select       *)
(* reports what is ready at one moment, web clients are served next, and   *)
(* only the inputs that were ready before are received in this turn.       *)
(*                                                                         *)
(* loop says where run_loop is:                                            *)
(*    head      at its while (!should_stop)                                *)
(*    select    waiting in select                                          *)
(*    serve     in web_server_handle_ready                                 *)
(*    receive   in the loop over the inputs, at input                      *)
(*    process   in process_datagram, with todo still to be pushed          *)
(*    over      it has left the loop and flushes the engine                *)
(*    error     select or recv has failed, and the engine is freed         *)
(* While the engine drains (pc # "idle") the loop stands still.            *)
(***************************************************************************)
EXTENDS RecoveryEngine

CONSTANTS
  Source,       \* the broadcast, a sequence of packets
  DatagramRoom, \* bound: packets in a datagram
  KernelRoom,   \* datagrams a socket can hold; more are dropped
  LossBudget,   \* bound: how many datagrams feed s may lose on its way
  MaxClients,   \* bound: how many web clients come
  ServeWait,    \* whether a client may be waited for, for one unit of the clock
  ArrivalEnd,   \* bound: nothing arrives after this time
  MayFail,      \* whether the sink or a socket may fail
  MayStop,      \* whether the program may be told to stop
  SlowTurn      \* whether the clock may move at any time, or only while the loop waits

ASSUME LoopAssumption ==
  /\ Source \in Seq(Packet)
  /\ DatagramRoom \in Nat \ {0} /\ KernelRoom \in Nat \ {0}
  /\ LossBudget \in [Stream -> Nat]
  /\ MaxClients \in Nat /\ ServeWait \in BOOLEAN /\ ArrivalEnd \in Nat
  /\ MayFail \in BOOLEAN /\ MayStop \in BOOLEAN /\ SlowTurn \in BOOLEAN

VARIABLES
  loop, input, ready, todo,
  should_stop,
  kernel,    \* kernel[s] = the datagrams waiting in socket s, with their times
  upto,      \* upto[s] = how much of Source feed s has sent
  lost,      \* lost[s] = how many datagrams of feed s never came
  clients,   \* web clients waiting to be accepted
  connected  \* web clients that have come so far

turn_vars == <<loop, input, ready, todo>>
world_vars == <<kernel, upto, lost, clients, connected>>
loop_vars == <<vars, turn_vars, should_stop, world_vars>>

WebServer == 2   \* its place among the descriptors of read_fds

LoopTypeOK ==
  /\ TypeOK
  /\ loop \in {"head", "select", "serve", "receive", "process", "over", "error"}
  /\ input \in 0 .. 2
  /\ ready \subseteq {0, 1, WebServer}
  /\ todo \in Seq(Packet)
  /\ should_stop \in BOOLEAN
  /\ kernel \in [Stream -> Seq([pkts : Seq(Packet), at : Nat])]
  /\ upto \in [Stream -> 0 .. Len(Source)]
  /\ lost \in [Stream -> Nat]
  /\ connected \in 0 .. MaxClients /\ clients \in 0 .. connected

LoopInit ==
  /\ Init
  /\ loop = "head" /\ input = 0 /\ ready = {} /\ todo = << >>
  /\ should_stop = FALSE
  /\ kernel = [s \in Stream |-> << >>]
  /\ upto = [s \in Stream |-> 0] /\ lost = [s \in Stream |-> 0]
  /\ clients = 0 /\ connected = 0

-----------------------------------------------------------------------------
(***************************************************************************)
(* A turn of run_loop.                                                     *)
(***************************************************************************)
At(place) == pc = "idle" /\ loop = place

\* The descriptors that select would report; _first as if max_fd were that of the
\* first input.
Readable_first == {s \in {0} : kernel[s] # << >>}
Readable == {s \in Stream : kernel[s] # << >>} \cup (IF clients > 0 THEN {WebServer} ELSE {})

\* The clock is held at ArrivalEnd until all that came has been pushed, so that the
\* bound MaxNow leaves room for what is done about it later.
Advance ==
  /\ now >= ArrivalEnd => todo = << >> /\ \A s \in Stream : kernel[s] = << >>
  /\ Tick

StopSeen_when_drained == should_stop /\ \A s \in Stream : queue[s] = << >>
StopSeen == should_stop

\* The head of the loop: another turn, or the flush.
Again ==
  /\ At("head") /\ ~StopSeen
  /\ loop' = "select"
  /\ UNCHANGED <<vars, input, ready, todo, should_stop, world_vars>>

Leave ==
  /\ At("head") /\ StopSeen
  /\ Flush
  /\ loop' = "over"
  /\ UNCHANGED <<input, ready, todo, should_stop, world_vars>>

\* select returns: something is ready, or its 100 ms have passed.
Select ==
  /\ At("select")
  /\ ready' = Readable
  /\ loop' = "serve"
  /\ UNCHANGED <<vars, input, todo, should_stop, world_vars>>

\* A signal interrupts select.  One that comes just before select does not.
Interrupted ==
  /\ At("select") /\ should_stop
  /\ loop' = "head"
  /\ UNCHANGED <<vars, input, ready, todo, should_stop, world_vars>>

\* One client of web_server_handle_ready, which accepts until none is left and
\* waits for the request of each.
ServeClient ==
  /\ At("serve") /\ WebServer \in ready /\ clients > 0
  /\ clients' = clients - 1
  /\ (ServeWait /\ Advance) \/ UNCHANGED vars
  /\ UNCHANGED <<turn_vars, should_stop, kernel, upto, lost, connected>>

\* As if a turn that serves clients left the inputs for the next one.
Served_alone ==
  /\ At("serve") /\ (WebServer \notin ready \/ clients = 0)
  /\ loop' = "receive" /\ input' = (IF WebServer \in ready THEN 2 ELSE 0)
  /\ UNCHANGED <<vars, ready, todo, should_stop, world_vars>>

Served ==
  /\ At("serve") /\ (WebServer \notin ready \/ clients = 0)
  /\ loop' = "receive" /\ input' = 0
  /\ UNCHANGED <<vars, ready, todo, should_stop, world_vars>>

\* input_udp_receive: one datagram of an input that was ready.
Receive ==
  /\ At("receive") /\ input \in Stream /\ input \in ready
  /\ kernel[input] # << >>
  /\ todo' = Head(kernel[input]).pkts
  /\ kernel' = [kernel EXCEPT ![input] = Tail(@)]
  /\ loop' = "process"
  /\ UNCHANGED <<vars, input, ready, should_stop, upto, lost, clients, connected>>

\* One that was not, or whose socket has nothing (recv does not block).
ReceiveNothing ==
  /\ At("receive") /\ input \in Stream
  /\ input \notin ready \/ kernel[input] = << >>
  /\ input' = input + 1
  /\ UNCHANGED <<vars, loop, ready, todo, should_stop, world_vars>>

\* process_datagram: each packet is pushed, and the engine drains after each.
Process ==
  /\ loop = "process" /\ todo # << >>
  /\ PushPacket(input, Head(todo))
  /\ todo' = Tail(todo)
  /\ UNCHANGED <<loop, input, ready, should_stop, world_vars>>

Processed ==
  /\ At("process") /\ todo = << >>
  /\ loop' = "receive" /\ input' = input + 1
  /\ UNCHANGED <<vars, ready, todo, should_stop, world_vars>>

\* recovery_engine_drain at the end of the turn.
EndOfTurn ==
  /\ loop = "receive" /\ input = 2
  /\ MainLoopDrain
  /\ loop' = "head" /\ input' = 0 /\ ready' = {}
  /\ UNCHANGED <<todo, should_stop, world_vars>>

Engine == EngineStep /\ UNCHANGED <<turn_vars, should_stop, world_vars>>

Turn ==
  \/ Again \/ Leave \/ Select \/ Interrupted \/ ServeClient \/ Served
  \/ Receive \/ ReceiveNothing \/ Process \/ Processed \/ EndOfTurn \/ Engine

-----------------------------------------------------------------------------
(***************************************************************************)
(* What may end the loop otherwise: the sink refuses a packet, or select   *)
(* or recv returns an error.  Nothing is flushed then.                     *)
(***************************************************************************)
SinkError == MayFail /\ SinkFails /\ UNCHANGED <<turn_vars, should_stop, world_vars>>

SocketError ==
  /\ MayFail
  /\ At("select") \/ (At("receive") /\ input \in ready)
  /\ loop' = "error"
  /\ UNCHANGED <<vars, input, ready, todo, should_stop, world_vars>>

Ended == pc \in {"stopped", "failed"} \/ loop = "error"

\* handle_signal, at any moment.
Signal ==
  /\ MayStop /\ ~should_stop /\ ~Ended
  /\ should_stop' = TRUE
  /\ UNCHANGED <<vars, turn_vars, world_vars>>

-----------------------------------------------------------------------------
(***************************************************************************)
(* The world outside.                                                      *)
(***************************************************************************)
\* The next n packets of feed s reach the host in a datagram.
Arrives(s, n) ==
  /\ ~Ended /\ now <= ArrivalEnd
  /\ upto[s] + n <= Len(Source) /\ Len(kernel[s]) < KernelRoom
  /\ kernel' = [kernel EXCEPT ![s] =
                  Append(@, [pkts |-> SubSeq(Source, upto[s] + 1, upto[s] + n), at |-> now])]
  /\ upto' = [upto EXCEPT ![s] = @ + n]
  /\ UNCHANGED <<vars, turn_vars, should_stop, lost, clients, connected>>

\* They do not, or the socket is full.
IsLost(s, n) ==
  /\ ~Ended
  /\ upto[s] + n <= Len(Source)
  /\ lost[s] < LossBudget[s] \/ Len(kernel[s]) = KernelRoom
  /\ upto' = [upto EXCEPT ![s] = @ + n]
  /\ lost' = [lost EXCEPT ![s] = @ + 1]
  /\ UNCHANGED <<vars, turn_vars, should_stop, kernel, clients, connected>>

Connects ==
  /\ ~Ended /\ connected < MaxClients
  /\ clients' = clients + 1 /\ connected' = connected + 1
  /\ UNCHANGED <<vars, turn_vars, should_stop, kernel, upto, lost>>

\* The clock.  Unless SlowTurn, it moves only while select has nothing to return.
Clock ==
  /\ ~Ended
  /\ SlowTurn \/ (At("select") /\ Readable = {})
  /\ Advance
  /\ UNCHANGED <<turn_vars, should_stop, world_vars>>

World ==
  \/ \E s \in Stream, n \in 1 .. DatagramRoom : Arrives(s, n) \/ IsLost(s, n)
  \/ Connects \/ Signal \/ SinkError \/ SocketError

LoopNext == Turn \/ World \/ Clock \/ (Ended /\ UNCHANGED loop_vars)

LoopSpec == LoopInit /\ [][LoopNext]_loop_vars

(***************************************************************************)
(* select returns after 100 ms at the latest, a client is waited for no    *)
(* longer than 50 ms, nothing else in a turn waits (the sockets do not     *)
(* block), and time passes.                                                *)
(* Nothing is assumed of the feeds, the clients, the sink and the signal.  *)
(***************************************************************************)
FairLoopSpec == LoopSpec /\ WF_loop_vars(Turn) /\ WF_loop_vars(Clock)

-----------------------------------------------------------------------------
(***************************************************************************)
(* Properties.                                                             *)
(***************************************************************************)
FeedsEnded == \A s \in Stream : upto[s] = Len(Source)

(***************************************************************************)
(* No datagram waits in a socket for ever: neither the other input, nor    *)
(* web clients, nor the drains of the engine keep run_loop from receiving  *)
(* it, though it is received only if select saw it before the clients were *)
(* served.                                                                 *)
(***************************************************************************)
AllReceived == \A s \in Stream : kernel[s] # << >> ~> kernel[s] = << >> \/ Ended

(***************************************************************************)
(* When the feeds have ended and the primary had delivered something,      *)
(* everything queued is in the end output or known to be output: the       *)
(* primary's queue runs empty, or output moves to the secondary and that   *)
(* queue runs empty.  No packet waits for ever, although                   *)
(* drain_secondary_on_primary_outage sends one packet per call.            *)
(***************************************************************************)
OutageIsCovered ==
  FeedsEnded /\ last_arrival[0] # 0 ~>
    \/ Ended
    \/ /\ queue[0] = << >> \/ active = 1
       /\ last_arrival[1] # 0 => queue[1] = << >>

(***************************************************************************)
(* A signal ends the program: should_stop is looked at after every turn,   *)
(* no turn lasts for ever, and the flush comes to its end.                 *)
(***************************************************************************)
StopIsObeyed == should_stop ~> Ended

(***************************************************************************)
(* "Silence on stream #1 before output fails over": when output moves to   *)
(* the secondary, no datagram of the primary that came earlier is waiting  *)
(* in its socket.                                                          *)
(***************************************************************************)
SilenceIsReal ==
  [][ active = 0 /\ active' = 1 =>
        \A k \in DOMAIN kernel[0] : kernel[0][k].at >= now ]_loop_vars
=============================================================================
