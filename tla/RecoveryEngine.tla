--------------------------- MODULE RecoveryEngine ---------------------------
(***************************************************************************)
(* recovery_engine.c: two inputs of the same broadcast, #1 (stream 0, the  *)
(* primary) delayed and passed on, #2 (stream 1, the secondary) used to    *)
(* fill the gaps of #1 and to take over when #1 falls silent.              *)
(*                                                                         *)
(* The engine runs in the thread of the main loop.  pc says where it is:   *)
(*    idle       between two calls                                         *)
(*    drain      recovery_engine_drain has been called                     *)
(*    primary    in its loop over the primary queue                        *)
(*    secondary  in the loop of drain_secondary_on_primary_outage          *)
(*    stopped    recovery_engine_flush has returned                        *)
(*    failed     the sink refused a packet; run_loop frees the engine      *)
(* Every turn of a loop is a step, because the code reads the clock anew   *)
(* in each; the clock may move between any two steps.                      *)
(***************************************************************************)
EXTENDS GapRecovery

CONSTANTS
  MatchThreshold,  \* RECOVERY_ENGINE_ALIGNMENT_MATCH_THRESHOLD (8)
  ProbeInterval,   \* WIDE_ALIGNMENT_PROBE_INTERVAL (512)
  SearchRadius,    \* alignment_search_radius_packets
  MissLimit,       \* consecutive misses before confidence is lowered (64)
  PrimaryDelay,    \* config.primary_delay_ns
  PrimaryOutage,   \* config.primary_outage_ns
  PrimaryReturn,   \* config.primary_return_ns
  MaxNow           \* bound: the clock stops here

ASSUME EngineAssumption ==
  /\ MatchThreshold \in Nat \ {0} /\ ProbeInterval \in Nat \ {0}
  /\ SearchRadius \in Nat /\ MissLimit \in Nat
  /\ PrimaryDelay \in Nat
  /\ PrimaryOutage \in Nat /\ PrimaryReturn \in Nat
  /\ MaxNow \in Nat \ {0}

VARIABLES
  now,          \* report_stats_now_ns
  history,      \* history[s]
  queue,        \* queue[0] = primary_queue, queue[1] = secondary_queue
  next_index,   \* next_stream_index[s]
  last_arrival, \* last_input_arrival_ns[s], 0 = nothing has arrived
  last_output,  \* last_output_stream_index[s], -1 = has_output_stream_index false
  active,       \* active_output_stream_id
  return_start, \* primary_return_start_ns, 0 = not running
  align,        \* alignment
  anchor,       \* last_primary_anchor
  in_cc,        \* input_pid_state[s][pid]
  out_cc,       \* output_pid_state[pid]
  stats,        \* the counters of report_stats_t that the engine writes
  pc, force,    \* where the engine is; the argument of recovery_engine_drain
  out           \* ghost: every packet the sink accepted, and why it was sent

engine_vars == <<history, queue, next_index, last_arrival, last_output, active,
                 return_start, align, anchor, in_cc, out_cc, stats, pc, force, out>>
vars == <<now, engine_vars>>

(***************************************************************************)
(* An entry of out: the record, how it came to be sent and, for slot, the  *)
(* primary packet it stands for (primary, tei) or precedes (recovery); for *)
(* a packet sent during an outage (outage), its own index.                 *)
(***************************************************************************)
Via == {"primary", "tei", "recovery", "outage"}
Output == [rec: Record, via: Via, slot: Nat]

Counter == {"rejects", "unrecoverable_loss", "recovered", "recovered_null",
            "output_continuity_errors", "output_duplicate_counters",
            "primary_delay_overflows", "secondary_missing",
            "source_switches_0", "source_switches_1"}
Stats == [Counter -> Nat]

Count(st, c, n) == [st EXCEPT ![c] = @ + n]

NoOutput == -1

TypeOK ==
  /\ now \in Nat \ {0}
  /\ history \in [Stream -> Seq(Record)]
  /\ queue \in [Stream -> Seq(Record)]
  /\ next_index \in [Stream -> Nat]
  /\ last_arrival \in [Stream -> Nat]
  /\ last_output \in [Stream -> Nat \cup {NoOutput}]
  /\ active \in Stream
  /\ return_start \in Nat
  /\ align \in Alignment
  /\ anchor \in Anchor
  /\ in_cc \in [Stream -> [Pid -> CC \cup {NoCC}]]
  /\ out_cc \in [Pid -> CC \cup {NoCC}]
  /\ stats \in Stats
  /\ pc \in {"idle", "drain", "primary", "secondary", "stopped", "failed"}
  /\ force \in BOOLEAN
  /\ out \in Seq(Output)

\* recovery_engine_init_with_config
Init ==
  /\ now = 1
  /\ history = [s \in Stream |-> << >>]
  /\ queue = [s \in Stream |-> << >>]
  /\ next_index = [s \in Stream |-> 0]
  /\ last_arrival = [s \in Stream |-> 0]
  /\ last_output = [s \in Stream |-> NoOutput]
  /\ active = 0
  /\ return_start = 0
  /\ align = [has |-> FALSE, offset |-> 0, confidence |-> 0, misses |-> 0]
  /\ anchor = [valid |-> FALSE, p |-> 0, s |-> 0]
  /\ in_cc = [s \in Stream |-> [pid \in Pid |-> NoCC]]
  /\ out_cc = [pid \in Pid |-> NoCC]
  /\ stats = [c \in Counter |-> 0]
  /\ pc = "idle" /\ force = FALSE
  /\ out = << >>

-----------------------------------------------------------------------------
(***************************************************************************)
(* Alignment.                                                              *)
(***************************************************************************)
has_confirmed_backward_run(self, other, r, m) ==
  \A n \in 1 .. MatchThreshold - 1 :
    \E a \in packet_history_find_index(self, r.idx - n),
       b \in packet_history_find_index(other, m.idx - n) : records_match(a, b)

\* find_confirmed_matching_record_near, as the set of all that it would accept.
ConfirmedNear(self, other, r, expected, radius) ==
  {m \in {other[k] : k \in DOMAIN other} :
     /\ m.idx \in expected - radius .. expected + radius
     /\ records_match(r, m)
     /\ has_confirmed_backward_run(self, other, r, m)}

Oldest(ms) == CHOOSE m \in ms : \A o \in ms : m.idx <= o.idx

\* The alignment once r of stream s has been found to be m of the other one.
update_alignment_from_match_one_way(s, r, m) ==
  [has |-> TRUE, confidence |-> 100, misses |-> 0, offset |-> m.idx - r.idx]
update_alignment_from_match(s, r, m) ==
  [has |-> TRUE, confidence |-> 100, misses |-> 0,
   offset |-> IF s = 0 THEN m.idx - r.idx ELSE r.idx - m.idx]

\* Another packet without a match; a probe that misses once too often costs
\* confidence.
Missed_unguarded(al, probe) ==
  IF probe /\ al.misses + 1 >= MissLimit
  THEN [al EXCEPT !.confidence = @ - 1, !.misses = 0]
  ELSE [al EXCEPT !.misses = @ + 1]
Missed(al, probe) ==
  IF probe /\ al.misses + 1 >= MissLimit /\ al.confidence > 0
  THEN [al EXCEPT !.confidence = @ - 1, !.misses = 0]
  ELSE [al EXCEPT !.misses = @ + 1]

update_alignment(al, self, other, s, r) ==
  LET expected == IF s = 0 THEN r.idx + al.offset ELSE r.idx - al.offset
      aligned  == IF al.has THEN ConfirmedNear(self, other, r, expected, BoundaryExtra)
                  ELSE {}
      same     == ConfirmedNear(self, other, r, r.idx, BoundaryExtra)
      probe    == r.idx % ProbeInterval = 0
      wide     == IF probe THEN ConfirmedNear(self, other, r, r.idx, SearchRadius) ELSE {}
      found    == IF aligned # {} THEN aligned ELSE IF same # {} THEN same ELSE wide
  IN  IF ~record_is_informative(r) THEN al
      ELSE IF found # {} THEN update_alignment_from_match(s, r, Oldest(found))
      ELSE Missed(al, probe)

\* Of the records with the same PCR, the first of the latest arrivals.
find_matching_pcr_record(other, r) ==
  LET same == {k \in DOMAIN other :
                 /\ other[k].pkt.pcr = r.pkt.pcr
                 /\ other[k].pkt.pid = r.pkt.pid
                 /\ ~Damaged(other[k])}
  IN  {other[k] : k \in {j \in same : \A i \in same :
                           \/ other[j].at > other[i].at
                           \/ other[j].at = other[i].at /\ j <= i}}

update_pcr_timing(al, other, s, r) ==
  LET match == find_matching_pcr_record(other, r)
      m     == CHOOSE x \in match : TRUE
  IN  IF /\ r.pkt.pcr # NoPcr /\ ~Damaged(r)
         /\ match # {} /\ records_exact_non_error_match(r, m)
      THEN update_alignment_from_match(s, r, m)
      ELSE al

-----------------------------------------------------------------------------
(***************************************************************************)
(* recovery_engine_push_packet.                                            *)
(***************************************************************************)
\* What observe_input_path_gap adds to secondary_missing_packets.
SecondaryGap(s, r) ==
  LET cc == in_cc[s][r.pkt.pid]
      byCounter == infer_missing_from_cc(cc, r)
  IN  IF s = 0 \/ ~record_is_informative(r) \/ cc = NoCC THEN 0
      ELSE IF ~Breaks(cc, r) THEN 0
      ELSE IF byCounter = {} THEN 1 ELSE CHOOSE n \in byCounter : TRUE

PushPacket(s, pkt) ==
  LET r     == [pkt |-> pkt, src |-> s, idx |-> next_index[s], at |-> now]
      self  == Retained(packet_history_push(history[s], r), now)
      other == history[1 - s]
  IN  /\ pc = "idle"
      /\ history' = [history EXCEPT ![s] = self]
      /\ next_index' = [next_index EXCEPT ![s] = @ + 1]
      /\ last_arrival' = [last_arrival EXCEPT ![s] = now]
      /\ align' = update_alignment(update_pcr_timing(align, other, s, r), self, other, s, r)
      /\ in_cc' = IF record_is_informative(r)
                  THEN [in_cc EXCEPT ![s][pkt.pid] = pkt.cc] ELSE in_cc
      /\ queue' = [queue EXCEPT ![s] = QueuePush(@, r)]
      /\ stats' = Count(Count(stats, "secondary_missing", SecondaryGap(s, r)),
                        "primary_delay_overflows",
                        IF s = 0 /\ Len(queue[0]) >= Capacity THEN 1 ELSE 0)
      /\ pc' = "drain" /\ force' = FALSE
      /\ UNCHANGED <<now, last_output, active, return_start, anchor, out_cc, out>>

\* The main loop drains after every select(), and flushes when it ends.
MainLoopDrain ==
  /\ pc = "idle"
  /\ pc' = "drain" /\ force' = FALSE
  /\ UNCHANGED <<now, history, queue, next_index, last_arrival, last_output, active,
                 return_start, align, anchor, in_cc, out_cc, stats, out>>

Flush ==
  /\ pc = "idle"
  /\ pc' = "drain" /\ force' = TRUE
  /\ UNCHANGED <<now, history, queue, next_index, last_arrival, last_output, active,
                 return_start, align, anchor, in_cc, out_cc, stats, out>>

-----------------------------------------------------------------------------
(***************************************************************************)
(* recovery_engine_drain, up to its loop.                                  *)
(***************************************************************************)
primary_is_silent_against_secondary ==
  /\ PrimaryOutage # 0
  /\ last_arrival[1] # 0
  /\ last_arrival[0] # 0
  /\ last_arrival[1] - last_arrival[0] >= PrimaryOutage
primary_is_silent_beyond_outage ==
  /\ PrimaryOutage # 0
  /\ last_arrival[1] # 0
  /\ last_arrival[0] # 0
  /\ now - last_arrival[0] >= PrimaryOutage

HoldoffStart_runs_on ==
  IF active # 1 \/ last_arrival[0] = 0 THEN 0
  ELSE IF return_start = 0 THEN now ELSE return_start
HoldoffStart ==
  IF active # 1 \/ primary_is_silent_beyond_outage \/ last_arrival[0] = 0 THEN 0
  ELSE IF return_start = 0 THEN now ELSE return_start

primary_return_holdoff_elapsed ==
  \/ active # 1
  \/ /\ ~primary_is_silent_beyond_outage
     /\ last_arrival[0] # 0
     /\ now - HoldoffStart >= PrimaryReturn

primary_record_next_after_secondary(r) ==
  /\ align.has
  /\ r.idx + align.offset \in 0 .. last_output[1] + 1
primary_record_already_output_by_secondary(r) ==
  /\ align.has /\ last_output[1] # NoOutput
  /\ r.idx + align.offset \in 0 .. last_output[1]

\* discard_primary_records_already_output_by_secondary
KeptPrimary == DropWhile(queue[0], primary_record_already_output_by_secondary)

\* The secondary index up to which primary has output the broadcast, -1 if unknown.
SecondaryCutoff ==
  LET byAnchor == IF anchor.valid THEN anchor.s ELSE -1
      byOffset == IF align.has /\ last_output[0] # NoOutput
                  THEN last_output[0] + align.offset ELSE -1
  IN  IF byOffset > byAnchor THEN byOffset ELSE byAnchor

\* discard_secondary_records_already_output_by_primary
KeptSecondary_with_last == DropWhile(queue[1], LAMBDA r : r.idx < SecondaryCutoff)
KeptSecondary == DropWhile(queue[1], LAMBDA r : r.idx <= SecondaryCutoff)

\* set_active_output_stream(s), as what becomes of the counters.
Switched(st, s) ==
  Count(st, IF s = 0 THEN "source_switches_0" ELSE "source_switches_1",
        IF active = s THEN 0 ELSE 1)

Returned == IF force THEN "stopped" ELSE "idle"

\* The entry of drain_secondary_on_primary_outage, with primary's queue pq.
EnterOutage(pq) ==
  IF active = 1 \/ primary_is_silent_beyond_outage
  THEN queue' = [queue EXCEPT ![0] = pq, ![1] = KeptSecondary] /\ pc' = "secondary"
  ELSE queue' = [queue EXCEPT ![0] = pq] /\ pc' = Returned

\* Primary is not due to return: keep to the secondary, if it is an outage.
DrainNotReady ==
  /\ pc = "drain"
  /\ ~primary_return_holdoff_elapsed
  /\ return_start' = HoldoffStart
  /\ EnterOutage(queue[0])
  /\ UNCHANGED <<now, history, next_index, last_arrival, last_output, active,
                 align, anchor, in_cc, out_cc, stats, force, out>>

\* Primary may be used, but everything it has queued was output already.
DrainNothing ==
  /\ pc = "drain"
  /\ primary_return_holdoff_elapsed
  /\ KeptPrimary = << >>
  /\ return_start' = HoldoffStart
  /\ IF active = 1 THEN queue' = [queue EXCEPT ![0] = << >>] /\ pc' = Returned
                   ELSE EnterOutage(<< >>)
  /\ UNCHANGED <<now, history, next_index, last_arrival, last_output, active,
                 align, anchor, in_cc, out_cc, stats, force, out>>

DrainPrimary ==
  /\ pc = "drain"
  /\ primary_return_holdoff_elapsed
  /\ KeptPrimary # << >>
  /\ return_start' = HoldoffStart
  /\ queue' = [queue EXCEPT ![0] = KeptPrimary]
  /\ active' = 0
  /\ stats' = Switched(stats, 0)
  /\ pc' = "primary"
  /\ UNCHANGED <<now, history, next_index, last_arrival, last_output,
                 align, anchor, in_cc, out_cc, force, out>>

-----------------------------------------------------------------------------
(***************************************************************************)
(* The loop over the primary queue.                                        *)
(***************************************************************************)
View == [h |-> history, cc |-> out_cc, anchor |-> anchor, align |-> align]

Due_unforced(r) == now - r.at >= PrimaryDelay
Due(r) == force \/ now - r.at >= PrimaryDelay

\* output_record of the records rs, in this order.
last_output_after(rs) ==
  [s \in Stream |->
     LET mine == {j \in DOMAIN rs : rs[j].src = s}
     IN  IF mine = {} THEN last_output[s] ELSE rs[Max(mine)].idx]

\* Their counters, compared with the one output before on the same PID.
CCBefore(rs, j) == LastCC(out_cc, SubSeq(rs, 1, j - 1), rs[j].pkt.pid)
Checked(rs) == {j \in DOMAIN rs : record_is_informative(rs[j]) /\ CCBefore(rs, j) # NoCC}
CountBreaks(rs)  == Cardinality({j \in Checked(rs) : Breaks(CCBefore(rs, j), rs[j])})
CountRepeats(rs) == Cardinality({j \in Checked(rs) : Repeats(CCBefore(rs, j), rs[j])})

\* Send the records rs; via and slot say why.
OutputRecords(rs, via, slot) ==
  /\ out' = out \o [j \in DOMAIN rs |-> [rec |-> rs[j], via |-> via[j], slot |-> slot]]
  /\ out_cc' = [pid \in Pid |-> LastCC(out_cc, rs, pid)]
  /\ last_output' = last_output_after(rs)

OutputStats(st, rs) ==
  Count(Count(st, "output_continuity_errors", CountBreaks(rs)),
        "output_duplicate_counters", CountRepeats(rs))

\* The counters of recovery and of rejected recovery.
DecisionStats(st, d) ==
  LET nulls == Cardinality({j \in DOMAIN d.rs : IsNull(d.rs[j])})
      failed == Count(Count(st, "rejects", IF d.kind = "reject" THEN 1 ELSE 0),
                      "unrecoverable_loss", d.loss)
  IN  Count(Count(failed, "recovered", Len(d.rs) - nulls), "recovered_null", nulls)

\* The records one turn of the loop sends for p: the recovered ones and then p,
\* or the copy that replaces p.
Replaced_never(d, p) == FALSE
Replaced(d, p) == p.pkt.tei /\ d.kind = "insert"
Sent_behind(d, p) == IF Replaced(d, p) THEN d.rs ELSE <<p>> \o d.rs
Sent(d, p) == IF Replaced(d, p) THEN d.rs ELSE Append(d.rs, p)
SentVia(d, p) ==
  [j \in 1 .. Len(Sent(d, p)) |->
     IF Replaced(d, p) THEN "tei" ELSE IF j <= Len(d.rs) THEN "recovery" ELSE "primary"]

PrimaryStep ==
  LET p == Head(queue[0])
      d == Decide(View, p)
  IN  /\ pc = "primary"
      /\ queue[0] # << >> /\ Due(p)
      /\ OutputRecords(Sent(d, p), SentVia(d, p), p.idx)
      /\ stats' = OutputStats(DecisionStats(stats, d), Sent(d, p))
      /\ anchor' = IF Replaced(d, p) THEN anchor ELSE update_primary_anchor(View, p)
      /\ queue' = [queue EXCEPT ![0] = delay_queue_pop(@)]
      /\ UNCHANGED <<now, history, next_index, last_arrival, active, return_start,
                     align, in_cc, pc, force>>

PrimaryNotDue ==
  /\ pc = "primary"
  /\ queue[0] # << >> /\ ~Due(Head(queue[0]))
  /\ pc' = Returned
  /\ UNCHANGED <<now, history, queue, next_index, last_arrival, last_output, active,
                 return_start, align, anchor, in_cc, out_cc, stats, force, out>>

PrimaryEmpty ==
  /\ pc = "primary"
  /\ queue[0] = << >>
  /\ EnterOutage(<< >>)
  /\ UNCHANGED <<now, history, next_index, last_arrival, last_output, active,
                 return_start, align, anchor, in_cc, out_cc, stats, force, out>>

-----------------------------------------------------------------------------
(***************************************************************************)
(* The loop of drain_secondary_on_primary_outage: one packet per call,     *)
(* unless forced.                                                          *)
(***************************************************************************)
SecondaryStep ==
  LET r == Head(queue[1])
  IN  /\ pc = "secondary"
      /\ queue[1] # << >> /\ Due(r)
      /\ active' = 1
      /\ OutputRecords(<<r>>, <<"outage">>, r.idx)
      /\ stats' = OutputStats(Switched(stats, 1), <<r>>)
      /\ queue' = [queue EXCEPT ![1] = delay_queue_pop(@)]
      /\ pc' = IF force THEN "secondary" ELSE "idle"
      /\ UNCHANGED <<now, history, next_index, last_arrival, return_start,
                     align, anchor, in_cc, force>>

SecondaryDone ==
  /\ pc = "secondary"
  /\ queue[1] # << >> => ~Due(Head(queue[1]))
  /\ pc' = Returned
  /\ UNCHANGED <<now, history, queue, next_index, last_arrival, last_output, active,
                 return_start, align, anchor, in_cc, out_cc, stats, force, out>>

-----------------------------------------------------------------------------
\* The sink refuses a packet: what was sent before it stays sent, the error is
\* handed up to run_loop, which frees the engine; nothing reads its state again.
SinkFails ==
  LET d  == Decide(View, Head(queue[0]))
      rs == IF pc = "primary" THEN Sent(d, Head(queue[0])) ELSE <<Head(queue[1])>>
      via == IF pc = "primary" THEN SentVia(d, Head(queue[0])) ELSE <<"outage">>
      slot == IF pc = "primary" THEN Head(queue[0]).idx ELSE Head(queue[1]).idx
  IN  /\ \/ pc = "primary" /\ queue[0] # << >> /\ Due(Head(queue[0]))
         \/ pc = "secondary" /\ queue[1] # << >> /\ Due(Head(queue[1]))
      /\ \E n \in 0 .. Len(rs) - 1 :
           out' = out \o [j \in 1 .. n |-> [rec |-> rs[j], via |-> via[j], slot |-> slot]]
      /\ pc' = "failed"
      /\ UNCHANGED <<now, history, queue, next_index, last_arrival, last_output, active,
                     return_start, align, anchor, in_cc, out_cc, stats, force>>

Tick ==
  /\ now < MaxNow
  /\ now' = now + 1
  /\ UNCHANGED engine_vars

EngineStep ==
  \/ DrainNotReady \/ DrainNothing \/ DrainPrimary
  \/ PrimaryStep \/ PrimaryNotDue \/ PrimaryEmpty
  \/ SecondaryStep \/ SecondaryDone

Next ==
  \/ \E s \in Stream, pkt \in Packet : PushPacket(s, pkt)
  \/ MainLoopDrain \/ Flush
  \/ EngineStep
  \/ SinkFails
  \/ Tick

Spec == Init /\ [][Next]_vars

-----------------------------------------------------------------------------
(***************************************************************************)
(* Properties.                                                             *)
(***************************************************************************)
\* The entries of out that pass on stream s: what stands for a packet of the
\* primary, and what was sent from the secondary during an outage.
PassedOn(s) == IF s = 0 THEN {"primary", "tei"} ELSE {"outage"}

(***************************************************************************)
(* Each stream passes the delay queue at most once and in order: of two    *)
(* packets of one stream that recovery_engine_drain sent on, the one sent  *)
(* first arrived first; what is still queued arrived after both.  Queue    *)
(* overflows, discards, failovers, returns and a failing sink do not       *)
(* disturb it.                                                             *)
(***************************************************************************)
OutputInOrder ==
  \A s \in Stream :
    /\ \A i, j \in DOMAIN out :
         i < j /\ out[i].via \in PassedOn(s) /\ out[j].via \in PassedOn(s)
           => out[i].slot < out[j].slot
    /\ \A i \in DOMAIN out, k \in DOMAIN queue[s] :
         out[i].via \in PassedOn(s) => out[i].slot < queue[s][k].idx

(***************************************************************************)
(* A history holds the newest packets of its stream without a gap, so that *)
(* packet_history_find_index finds a packet exactly as long as neither     *)
(* capacity nor retention has pushed it out; and whatever waits in a delay *)
(* queue arrived in a row up to the newest.                                *)
(***************************************************************************)
NewestOf(q, s) == \A k \in DOMAIN q : q[k].idx = next_index[s] - Len(q) + k - 1

HistoryIsRecent ==
  \A s \in Stream :
    /\ NewestOf(history[s], s) /\ NewestOf(queue[s], s)
    /\ Len(history[s]) <= Capacity /\ Len(queue[s]) <= Capacity

(***************************************************************************)
(* recovery_engine_flush leaves nothing queued of the stream that output   *)
(* is on, due or not, in one case excepted: recovery_engine_drain returns  *)
(* early when output is about to go back to a primary that has nothing new *)
(* to give, and what the secondary has queued is then dropped.             *)
(***************************************************************************)
WaitsForPrimary ==
  /\ active = 1 /\ queue[0] = << >>
  /\ return_start # 0 /\ now - return_start >= PrimaryReturn

FlushSendsQueue == pc = "stopped" => queue[active] = << >> \/ WaitsForPrimary
=============================================================================
