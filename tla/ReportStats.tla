----------------------------- MODULE ReportStats -----------------------------
(***************************************************************************)
(* report_stats.c for one input: the continuity check of every packet, the *)
(* ring of samples of the last minute, and the health that is read off     *)
(* them.  The two inputs and the output are treated alike and share no     *)
(* counter that matters here.                                              *)
(*                                                                         *)
(* The unit of time is the second in which report_stats_tick takes a       *)
(* sample.  The feed numbers the packets of each PID; it may lose, damage  *)
(* or renumber them, and may be silent for any time.                       *)
(***************************************************************************)
EXTENDS Integers, Sequences, FiniteSets

CONSTANTS
  Pid,             \* the PIDs of the input
  CCMod,           \* continuity counters are counted modulo CCMod (16)
  RollingSeconds,  \* REPORT_STATS_ROLLING_SECONDS (60)
  QuietSeconds,    \* REPORT_STATS_QUIET_SECONDS (30)
  HealthInterval,  \* REPORT_STATS_HEALTH_INTERVAL_NS (5 s)
  Offline,         \* REPORT_STATS_OFFLINE_NS (5 s)
  UntrustedShare,  \* problems per thousand packets that make a stream untrusted (50)
  LossyShare,      \* and lossy (10)
  MaxPackets,      \* bound: packets the feed sends
  MaxTrouble,      \* bound: how often the feed goes wrong
  MaxNow           \* bound: the clock stops here

ASSUME StatsAssumption ==
  /\ CCMod \in Nat /\ CCMod >= 2
  /\ RollingSeconds \in Nat /\ RollingSeconds >= 2
  /\ QuietSeconds \in Nat /\ HealthInterval \in Nat /\ Offline \in Nat \ {0}
  /\ UntrustedShare \in Nat /\ LossyShare \in Nat
  /\ MaxPackets \in Nat /\ MaxTrouble \in Nat /\ MaxNow \in Nat

VARIABLES
  now,              \* report_stats_now_ns, in seconds
  packets_received, \* the counter
  cc_errors,        \* continuity_errors + duplicate_counters
  problems,         \* all that stream_problem_delta adds up, cc_errors included
  last_packet,      \* last_packet_ns
  last_cc,          \* last_continuity_counter[pid], NoCC = has_continuity_counter false
  ring,             \* rolling_samples
  rolling_index, rolling_count,
  last_sample,      \* last_sample_ns
  last_health,      \* last_health_update_ns, 0 = never
  health,           \* stream_health
  feed              \* the feed, see below

stats_vars == <<packets_received, cc_errors, problems, last_packet, last_cc,
                ring, rolling_index, rolling_count, last_sample, last_health, health>>
all_vars == <<now, stats_vars, feed>>

CC == 0 .. CCMod - 1
NoCC == -1
Health == {"healthy", "degraded", "lossy", "untrusted", "offline"}
Sample == [packets : Nat, problems : Nat]
Blank == [packets |-> 0, problems |-> 0]

(***************************************************************************)
(* The feed, a ghost but for cc:                                           *)
(*    cc[pid]       the counter of the next packet of pid                  *)
(*    fresh         the PIDs without a packet since the last silence       *)
(*    gaps          losses noticed by a stream that was there              *)
(*    damaged       packets that arrived with the transport error set      *)
(*    malformed     datagrams in which process_datagram found no packet    *)
(*    trouble       when problems last rose, 0 = never                     *)
(*    captures      every sample ever taken, oldest first                  *)
(*    first         when the first of them was taken                       *)
(***************************************************************************)
Init ==
  /\ now = 1
  /\ packets_received = 0 /\ cc_errors = 0 /\ problems = 0
  /\ last_packet = now
  /\ last_cc = [pid \in Pid |-> NoCC]
  /\ ring = [i \in 0 .. RollingSeconds - 1 |-> Blank]
  /\ rolling_index = 0 /\ rolling_count = 0
  /\ last_sample = now
  /\ last_health = 0 /\ health = "healthy"
  /\ feed = [cc |-> [pid \in Pid |-> 0], fresh |-> Pid,
             gaps |-> 0, damaged |-> 0, malformed |-> 0, trouble |-> 0,
             captures |-> << >>, first |-> 0]

-----------------------------------------------------------------------------
(***************************************************************************)
(* report_stats_observe_packet.                                            *)
(***************************************************************************)
NextCC(cc) == (cc + 1) % CCMod
IsSilent == now - last_packet >= Offline

\* The counters known when the packet is looked at: after a silence, none.
Known_but_this(pid) ==
  IF IsSilent THEN [last_cc EXCEPT ![pid] = NoCC] ELSE last_cc
Known(pid) == IF IsSilent THEN [p \in Pid |-> NoCC] ELSE last_cc

\* Whether the counter cc of an undamaged packet is counted as an error or as a
\* duplicate behind the counter prev.
Unexpected(prev, cc, payload) ==
  prev # NoCC /\ cc # IF payload THEN NextCC(prev) ELSE prev

\* flagged: transport_error or discontinuity_indicator is set.
ObservePacket(pid, cc, payload, tei, flagged) ==
  LET known == Known(pid)
      bad == ~flagged /\ Unexpected(known[pid], cc, payload)
      new == (IF bad THEN 1 ELSE 0) + (IF tei THEN 1 ELSE 0)
  IN  /\ packets_received' = packets_received + 1
      /\ last_packet' = now
      /\ last_cc' = [known EXCEPT ![pid] = cc]
      /\ cc_errors' = cc_errors + (IF bad THEN 1 ELSE 0)
      /\ problems' = problems + new
      /\ UNCHANGED <<now, ring, rolling_index, rolling_count, last_sample,
                     last_health, health>>

-----------------------------------------------------------------------------
(***************************************************************************)
(* The ring of samples.                                                    *)
(***************************************************************************)
oldest_rolling_sample_first(rg, index, count) == rg[0]
oldest_rolling_sample_newest(rg, index, count) ==
  IF count < RollingSeconds THEN rg[0] ELSE rg[(index + RollingSeconds - 1) % RollingSeconds]
oldest_rolling_sample(rg, index, count) ==
  IF count < RollingSeconds THEN rg[0] ELSE rg[index]

NewestIndex_below(index) == IF index = 0 THEN 0 ELSE index - 1
NewestIndex(index) == IF index = 0 THEN RollingSeconds - 1 ELSE index - 1

rolling_sample_ago(rg, index, count, seconds) ==
  IF seconds >= count THEN oldest_rolling_sample(rg, index, count)
  ELSE rg[(NewestIndex(index) + RollingSeconds - seconds) % RollingSeconds]

\* report_stats_tick: take a sample when a second has passed since the last one.
TickDue == now - last_sample >= 1
Captured == [ring EXCEPT ![rolling_index] =
               [packets |-> packets_received, problems |-> problems]]

Tick ==
  IF TickDue
  THEN /\ ring' = Captured
       /\ rolling_index' = (rolling_index + 1) % RollingSeconds
       /\ rolling_count' = IF rolling_count < RollingSeconds THEN rolling_count + 1
                           ELSE rolling_count
       /\ last_sample' = now
       /\ feed' = [feed EXCEPT !.captures = Append(@, Captured[rolling_index]),
                               !.first = IF rolling_count = 0 THEN now ELSE @]
  ELSE UNCHANGED <<ring, rolling_index, rolling_count, last_sample, feed>>

-----------------------------------------------------------------------------
(***************************************************************************)
(* update_stream_health.  Without a sample, the counters themselves count. *)
(***************************************************************************)
Since(sample) == [packets |-> packets_received - sample.packets,
                  problems |-> problems - sample.problems]

health_from_recent(packets, trouble, quiet_trouble) ==
  IF packets = 0 THEN "degraded"
  ELSE IF trouble = 0 /\ quiet_trouble = 0 THEN "healthy"
  ELSE IF trouble * 1000 >= packets * UntrustedShare THEN "untrusted"
  ELSE IF trouble * 1000 >= packets * LossyShare THEN "lossy"
  ELSE "degraded"

HealthDue == last_health = 0 \/ now - last_health >= HealthInterval

\* The health read off a ring that has just been brought up to date.
HealthFrom(rg, index, count) ==
  LET window == IF count = 0 THEN Blank ELSE oldest_rolling_sample(rg, index, count)
      quiet == IF count = 0 THEN Blank ELSE rolling_sample_ago(rg, index, count, QuietSeconds)
  IN  IF IsSilent THEN "offline"
      ELSE health_from_recent(Since(window).packets, Since(window).problems,
                              Since(quiet).problems)

update_stream_health ==
  IF HealthDue
  THEN /\ last_health' = now
       /\ health' = HealthFrom(ring', rolling_index', rolling_count')
  ELSE UNCHANGED <<last_health, health>>

-----------------------------------------------------------------------------
(***************************************************************************)
(* A turn of run_loop calls report_stats_tick; a web client that asks for  *)
(* the statistics, or the console, also has the health brought up to date. *)
(***************************************************************************)
Turn ==
  /\ TickDue
  /\ Tick
  /\ UNCHANGED <<now, packets_received, cc_errors, problems, last_packet, last_cc,
                 last_health, health>>

Poll ==
  /\ HealthDue
  /\ Tick
  /\ update_stream_health
  /\ UNCHANGED <<now, packets_received, cc_errors, problems, last_packet, last_cc>>

\* The loop turns at least ten times a second.
Clock ==
  /\ now < MaxNow /\ ~TickDue
  /\ now' = now + 1
  /\ UNCHANGED <<stats_vars, feed>>

-----------------------------------------------------------------------------
(***************************************************************************)
(* The feed.  What it sends while it is silent for long is not missed: the *)
(* next packet of each PID may carry any counter.                          *)
(***************************************************************************)
MayGoWrong == feed.damaged + feed.malformed + feed.gaps < MaxTrouble
Fresh == IF IsSilent THEN Pid ELSE feed.fresh

\* A packet of pid with the counter cc has arrived; gaps and damaged go up by
\* missed and hurt.
Sends(pid, cc, missed, hurt) ==
  /\ packets_received < MaxPackets
  /\ feed' = [feed EXCEPT !.cc[pid] = NextCC(cc), !.fresh = Fresh \ {pid},
                          !.gaps = @ + missed, !.damaged = @ + hurt,
                          !.trouble = IF problems' > problems THEN now ELSE @]

\* A packet with or without payload, behind the last one of its PID or behind a
\* loss of less than a whole turn of the counter.
Packet(pid, payload) ==
  LET next == IF payload THEN feed.cc[pid] ELSE (feed.cc[pid] + CCMod - 1) % CCMod
  IN  \E cc \in CC :
        LET missed == cc # next /\ pid \notin Fresh
        IN  /\ missed => MayGoWrong
            /\ ObservePacket(pid, cc, payload, FALSE, FALSE)
            /\ Sends(pid, cc, IF missed THEN 1 ELSE 0, 0)

\* A packet behind which the feed counts on from another counter, and says so.
Renumbered(pid) ==
  \E cc \in CC : ObservePacket(pid, cc, TRUE, FALSE, TRUE) /\ Sends(pid, cc, 0, 0)

\* A packet with the transport error set: its counter may be damaged too.
Damaged(pid) ==
  /\ MayGoWrong
  /\ \E cc \in CC : ObservePacket(pid, cc, TRUE, TRUE, TRUE)
  /\ Sends(pid, feed.cc[pid], 0, 1)

\* Bytes that are no packets: a sync error, without a packet observed.
Malformed ==
  /\ MayGoWrong
  /\ problems' = problems + 1
  /\ feed' = [feed EXCEPT !.malformed = @ + 1, !.trouble = now]
  /\ UNCHANGED <<now, packets_received, cc_errors, last_packet, last_cc, ring,
                 rolling_index, rolling_count, last_sample, last_health, health>>

Ended == now = MaxNow /\ ~TickDue /\ UNCHANGED all_vars

Next ==
  \/ \E pid \in Pid : Renumbered(pid) \/ Damaged(pid) \/ \E payload \in BOOLEAN : Packet(pid, payload)
  \/ Malformed \/ Turn \/ Poll \/ Clock \/ Ended

Spec == Init /\ [][Next]_all_vars

-----------------------------------------------------------------------------
(***************************************************************************)
(* Properties.                                                             *)
(***************************************************************************)
(***************************************************************************)
(* What report_stats_observe_packet counts as a continuity error or a      *)
(* duplicate stands for packets lost while the stream was there, or for a  *)
(* damaged packet whose counter cannot be trusted.  A stream that comes    *)
(* back from a silence is not charged with what it did not send, on any of *)
(* its PIDs.                                                               *)
(***************************************************************************)
ErrorsAreLosses == cc_errors <= feed.gaps + feed.damaged

(***************************************************************************)
(* rolling_sample_ago(n) is the sample taken n samples before the newest,  *)
(* or the oldest that is kept, through every wrap of the ring.             *)
(***************************************************************************)
SampleAgo(n) ==
  LET newest == Len(feed.captures)
      kept == IF newest < RollingSeconds THEN newest ELSE RollingSeconds
  IN  feed.captures[newest - (IF n < kept THEN n ELSE kept - 1)]

SampleIsTheOneAsked ==
  feed.captures # << >> =>
    \A n \in 0 .. RollingSeconds + 1 :
      rolling_sample_ago(ring, rolling_index, rolling_count, n) = SampleAgo(n)

Judged == last_health' # last_health

\* The window of a judgement begins a minute ago, or with the first sample.
WindowStart == IF feed'.first > now - (RollingSeconds - 1) THEN feed'.first
               ELSE now - (RollingSeconds - 1)

(***************************************************************************)
(* update_stream_health calls no stream healthy that had a problem within  *)
(* the window.                                                             *)
(***************************************************************************)
TroubleIsSeen ==
  [][ Judged /\ health' = "healthy" => feed.trouble <= WindowStart ]_all_vars

(***************************************************************************)
(* And it calls every stream healthy that delivers packets and had no      *)
(* problem within the window: trouble is forgotten when the window has     *)
(* passed, however the ring wrapped in the meantime.                       *)
(***************************************************************************)
HealthReturns ==
  [][ /\ Judged /\ ~IsSilent
      /\ last_packet > WindowStart
      /\ feed.trouble < WindowStart
      => health' = "healthy" ]_all_vars
=============================================================================
