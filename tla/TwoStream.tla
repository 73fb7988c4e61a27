------------------------------ MODULE TwoStream ------------------------------
(***************************************************************************)
(* The engine between two lossy feeds of one broadcast.  Each feed carries *)
(* the packets of Source in order; it may lose a packet or set its         *)
(* transport error, within a budget.  The feeds are independent: one may   *)
(* run ahead of the other by any amount.                                   *)
(***************************************************************************)
EXTENDS RecoveryEngine

CONSTANTS
  Scenarios,   \* the broadcasts, and what may become of each
  ArrivalEnd,  \* bound: nothing arrives after this time
  MayFail,     \* whether the sink may refuse a packet
  MayStop,     \* whether the program may be told to stop
  SlowDrain    \* whether the clock may move while the engine drains

(***************************************************************************)
(* A broadcast; the positions of it that feed s may lose, and those it may *)
(* deliver with the transport error set; and how many it may lose.         *)
(***************************************************************************)
Scenario == [source : Seq(Packet), may_lose : [Stream -> SUBSET Nat],
             may_damage : [Stream -> SUBSET Nat], losses : [Stream -> Nat]]

ASSUME SourceAssumption ==
  /\ Scenarios \subseteq Scenario
  /\ \A sc \in Scenarios : \A i \in DOMAIN sc.source : sc.source[i].pos = i
  /\ ArrivalEnd \in Nat
  /\ MayFail \in BOOLEAN /\ MayStop \in BOOLEAN /\ SlowDrain \in BOOLEAN

VARIABLES
  scenario,    \* the one that takes place
  carried,     \* carried[s][i] = the packet that arrived as stream index i-1 of s
  upto,        \* upto[s] = how much of the broadcast feed s has delivered or lost
  unfit_at     \* ghost: when the primary was last given up or found silent

net_vars == <<scenario, carried, upto>>
all_vars == <<vars, net_vars, unfit_at>>

Source == scenario.source

NetTypeOK ==
  /\ TypeOK
  /\ scenario \in Scenarios
  /\ carried \in [Stream -> Seq(Packet)]
  /\ upto \in [Stream -> 0 .. Len(Source)]
  /\ unfit_at \in Nat

NetInit ==
  /\ Init
  /\ scenario \in Scenarios
  /\ carried = [s \in Stream |-> << >>]
  /\ upto = [s \in Stream |-> 0]
  /\ unfit_at = 0

-----------------------------------------------------------------------------
Arrive(s, pkt) ==
  /\ now <= ArrivalEnd
  /\ PushPacket(s, pkt)
  /\ carried' = [carried EXCEPT ![s] = Append(@, pkt)]
  /\ upto' = [upto EXCEPT ![s] = @ + 1]
  /\ UNCHANGED scenario

Deliver(s) ==
  /\ upto[s] < Len(Source)
  /\ Arrive(s, Source[upto[s] + 1])

Damage(s) ==
  /\ upto[s] < Len(Source) /\ upto[s] + 1 \in scenario.may_damage[s]
  /\ Arrive(s, [Source[upto[s] + 1] EXCEPT !.tei = TRUE])

Lose(s) ==
  /\ pc = "idle"
  /\ upto[s] < Len(Source) /\ upto[s] + 1 \in scenario.may_lose[s]
  /\ upto[s] - Len(carried[s]) < scenario.losses[s]
  /\ upto' = [upto EXCEPT ![s] = @ + 1]
  /\ UNCHANGED <<vars, scenario, carried>>

\* The primary is given up by a failover; a drain may find it silent.
Judge ==
  unfit_at' = IF \/ active = 0 /\ active' = 1
                 \/ pc = "drain" /\ pc' # "drain" /\ primary_is_silent_beyond_outage
              THEN now ELSE unfit_at

\* The steps of the program and of its clock.
Drain == MainLoopDrain /\ UNCHANGED net_vars
Step == EngineStep /\ UNCHANGED net_vars
Clock == (SlowDrain \/ pc = "idle") /\ Tick /\ UNCHANGED net_vars
Stop == MayStop /\ Flush /\ UNCHANGED net_vars
Failure == MayFail /\ SinkFails /\ UNCHANGED net_vars
Ended == pc \in {"stopped", "failed"} /\ UNCHANGED <<vars, net_vars>>

NetNext ==
  /\ \/ \E s \in Stream : Deliver(s) \/ Damage(s) \/ Lose(s)
     \/ Drain \/ Step \/ Clock \/ Stop \/ Failure \/ Ended
  /\ Judge

NetSpec == NetInit /\ [][NetNext]_all_vars

-----------------------------------------------------------------------------
(***************************************************************************)
(* Properties.                                                             *)
(***************************************************************************)
NeverFailedOver == stats["source_switches_1"] = 0
Content(e) == ~IsNull(e.rec)
PosOf(e) == e.rec.pkt.pos

(***************************************************************************)
(* The offset that update_alignment_from_match stores is, at all times,    *)
(* that of a packet which both feeds did carry.                            *)
(***************************************************************************)
AlignmentIsReal ==
  align.has =>
    \E i \in DOMAIN carried[0] :
      /\ i + align.offset \in DOMAIN carried[1]
      /\ carried[0][i].pos = carried[1][i + align.offset].pos

(***************************************************************************)
(* As long as output never left the primary, the packets of one PID leave  *)
(* in the order of the broadcast, each at most once: an inserted packet    *)
(* (try_recover_...) is never one that was already output, and is put      *)
(* where it belongs.                                                       *)
(***************************************************************************)
PidOrder ==
  NeverFailedOver =>
    \A i, j \in DOMAIN out :
      /\ i < j /\ Content(out[i]) /\ Content(out[j])
      /\ out[i].rec.pkt.pid = out[j].rec.pkt.pid
      => PosOf(out[i]) < PosOf(out[j])

(***************************************************************************)
(* As long as output never left the primary, a packet the primary          *)
(* delivered is in its queue, or was output (itself or the copy that       *)
(* replaced it), or was pushed out of a full queue and counted in          *)
(* primary_delay_overflows.  recovery_engine_drain loses none silently.    *)
(***************************************************************************)
PrimaryUnaccounted ==
  {i \in 0 .. next_index[0] - 1 :
     /\ \A k \in DOMAIN queue[0] : queue[0][k].idx # i
     /\ \A k \in DOMAIN out : ~(out[k].via \in {"primary", "tei"} /\ out[k].slot = i)}
PrimaryAccounted ==
  NeverFailedOver /\ pc # "failed" =>
    Cardinality(PrimaryUnaccounted) = stats["primary_delay_overflows"]

(***************************************************************************)
(* A content packet that recovery inserts is one the primary did not       *)
(* deliver: neither before the gap, nor later, out of order with it.       *)
(***************************************************************************)
RecoveryFillsGaps ==
  NeverFailedOver =>
    \A k \in DOMAIN out :
      out[k].via = "recovery" /\ Content(out[k]) =>
        \A i \in DOMAIN carried[0] : carried[0][i].pos # PosOf(out[k])

(***************************************************************************)
(* The packet that try_recover_primary_tei_packet sends in place of a      *)
(* damaged one is the same packet of the broadcast, though the damaged     *)
(* bytes cannot be compared with it and the offset may be out of date.     *)
(***************************************************************************)
TeiReplacementIsSamePacket ==
  \A k \in DOMAIN out :
    out[k].via = "tei" => PosOf(out[k]) = carried[0][out[k].slot + 1].pos

(***************************************************************************)
(* While the primary loses nothing and is never silent too long, the       *)
(* output is the primary: whatever the secondary loses or damages makes    *)
(* recovery_engine_drain insert nothing and discard nothing.  (Once a      *)
(* damaged packet was replaced, it may discard, as in discarded_primary.)  *)
(***************************************************************************)
HealthyPrimaryPassesThrough ==
  NeverFailedOver /\ upto[0] = Len(carried[0]) =>
    \A k \in DOMAIN out : out[k].via \in {"primary", "tei"} /\ PosOf(out[k]) = k

(***************************************************************************)
(* A turn of the loop of recovery_engine_drain that adds a continuity      *)
(* error to the output also reports a reject, unless it inserted nulls.    *)
(***************************************************************************)
BreakIsReported ==
  [][ /\ pc = "primary"
      /\ stats'["output_continuity_errors"] > stats["output_continuity_errors"]
      /\ stats'["recovered_null"] = stats["recovered_null"]
      => stats'["rejects"] > stats["rejects"] ]_all_vars

(***************************************************************************)
(* The output is the broadcast from its first packet on, none missing,     *)
(* none twice.                                                             *)
(***************************************************************************)
Exact(o) == \A k \in DOMAIN o : PosOf(o[k]) = k

(***************************************************************************)
(* Once the feeds are aligned, no step spoils an exact output: a failover  *)
(* starts behind the last packet the primary gave                          *)
(* (discard_secondary_records_already_output_by_primary) and a return      *)
(* behind the last one the secondary gave                                  *)
(* (discard_primary_records_already_output_by_secondary).                  *)
(***************************************************************************)
SwitchesAreSeamless ==
  [][ Exact(out) /\ align.has => Exact(out') ]_all_vars

(***************************************************************************)
(* The half of it that must hold even when the primary loses packets, as   *)
(* long as the secondary does not: what is output during an outage         *)
(* (drain_secondary_on_primary_outage) goes on where output stood.         *)
(***************************************************************************)
FailoverContinuesOutput ==
  [][ pc = "secondary" /\ Exact(out) /\ align.has => Exact(out') ]_all_vars

(***************************************************************************)
(* Output returns to the primary no sooner than primary_return_ns after it *)
(* left it, and after a drain last found the primary silent                *)
(* (primary_return_holdoff_elapsed), however the primary comes and goes.   *)
(***************************************************************************)
HoldoffRespected ==
  [][ active = 1 /\ active' = 0 => now - unfit_at >= PrimaryReturn ]_all_vars
=============================================================================
