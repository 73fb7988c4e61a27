# A formal model of two_stream_recovery

`two_stream_recovery` receives two copies of one MPEG transport stream. It
delays the first (stream 0, "the primary") and passes it on, fills its gaps with
packets of the second (stream 1, "the secondary"), and moves over to the
secondary while the primary is silent. This directory holds TLA+ modules that
are translated from the C code, configurations that check them with TLC, and
proofs that TLAPS checks. Paths below are relative to the repository.

## 1. The system

| Component | State | Operations | Modelled by |
|---|---|---|---|
| recovery engine, `src/recovery_engine.c` | two packet histories, two delay queues, alignment (offset, confidence, misses), last anchor, last counter per PID (input, output), active output stream, arrival and hold-off times | `init`, `push_packet`, `drain`, `flush` | `RecoveryEngine`, `TwoStream` |
| gap recovery, same file 261-364, 689-727, 910-2111 | none of its own: it decides from the state above | candidate search, three validators and three recover functions, transport-error replacement, anchor update | `GapRecovery`, `PacketRecord` |
| packet history and delay queue, same file 139-259 | ring of records, `start`, `count` | push, prune, find by index, front, pop | `RecordBuffers`, `RingBuffers`, `StreamBuffers` |
| UDP output, `src/output_udp.c`, `src/packet_sink.h` | pending datagram | send a packet, flush | `OutputUdp`, `TwoStreamUdp` |
| main loop, `src/main.c` 95-201 | the stop flag, what `select` reported, the datagram in hand | a turn: `select`, web clients, the inputs, the drain; the flush at the end | `MainLoop` |
| framing, `src/main.c` 28-93 | the offset of the walk, error counters | `process_datagram`, `find_resync_offset` | `Framing` |
| packet parser, `src/ts_packet.c` | none | `ts_packet_parse` | its verdict in `Framing`, its fields in `PacketRecord` |
| statistics, `src/report_stats.c` | counters, last counter per PID, ring of 60 samples, health | observe a packet, tick, judge the health | `ReportStats`; the engine's counters in `RecoveryEngine` |
| web server, `src/web_server.c` | its socket | accept and answer all waiting clients | its effect on the loop in `MainLoop`, its request for the statistics in `ReportStats` |
| UDP input, `src/input_udp.c` | a socket | one `recv` that does not block | `MainLoop` |
| command line, `webroot/` | options; none | parse; display | not modelled |

**How they interact.** There is one thread. `run_loop` waits in `select`, serves
the web clients, receives at most one datagram per input that `select` reported,
and then drains. Each packet of a datagram is counted by
`report_stats_observe_packet` and goes through `recovery_engine_push_packet`,
which stores it in a history and a delay queue, updates the alignment and drains.
A drain sends packets through the `packet_sink_t` callbacks, which `output_udp.c`
implements. The engine and the sink share no state; `output_record` counts
datagrams on its own, from the number of packets. Statistics are written by the
framing, the engine and the loop and read by the web server.

**What is hard.** No two threads meet, but two feeds do. They stand at different
places of the broadcast, either may lose or damage packets, fall silent and
return, and every queued packet is judged with knowledge (offset, anchor, last
counter) gained at another time. The clock is read again at several points of
one call, so a packet or an outage can become due in the middle of a drain. The
loop acts on what `select` saw before it served the web clients. The list of
hazards is in `PROJECT.json`, each at its line with the properties that watch it.

**What makes each component correct.**

- Engine: nothing of the primary is lost silently; each stream leaves once and in
  order; a switch between the streams neither repeats nor skips a packet; output
  returns only after the hold-off; nothing waits for ever; a flush leaves nothing.
- Gap recovery: an inserted packet is one the primary does not deliver, stands in
  its place, and was not output before; a broken counter is reported.
- Buffers: eviction, wrap and prune lose nothing but the oldest packets, and a
  search by index finds exactly what is stored.
- UDP output: whole datagrams, in order, correctly counted, whatever fails.
- Main loop: every datagram is received, a stop is obeyed, and a failover answers
  a silence that was one.
- Framing: whole packets in order, no byte twice; what is lost is counted; the
  walk over a datagram ends.
- Statistics: an error stands for a loss; the health is that of the last minute.

## 2. The modules

- `PacketRecord`: a packet as the parser reports it, a record as the engine stores
  it, and the predicates on records (`records_match`, `record_fits_next_output`,
  `infer_missing_from_cc`). The bytes are their hash. `pos`, the place of a packet
  in the broadcast, is a ghost: the properties read it and the engine never does.
- `RecordBuffers`: histories and queues as sequences, oldest first.
- `GapRecovery`: the decision for one primary packet as operators on a *view* of
  the engine. Each `validate_...` and `try_...` operator is the C function of its
  name. A validator yields a verdict (accept, or a reason with the number of
  missing packets); `try_unique_candidate_recovery` judges all candidates;
  `Decide` is the middle of the loop in `recovery_engine_drain` (2280-2380). The
  recover functions repeat the validator's checks in the code; as they run only on
  a pair the validator accepted, with the same state, their checks are not
  repeated in the model.
- `RecoveryEngine`: the state of `recovery_engine_t` and one action per piece of
  code between two readings of the clock. `PushPacket` is all of
  `recovery_engine_push_packet` up to its drain. A drain then runs as steps:
  `DrainNotReady`, `DrainNothing` or `DrainPrimary` (the entry, 2234-2255),
  `PrimaryStep`, `PrimaryNotDue`, `PrimaryEmpty` (the loop), `SecondaryStep`,
  `SecondaryDone` (`drain_secondary_on_primary_outage`), `SinkFails`. `pc` says
  where the call is, so that `Tick` can fall between two of them. The ghost `out`
  keeps every packet the sink took and why it was sent. Its `Spec` lets any packet
  arrive at any time.
- `TwoStream`: the engine between two feeds of one broadcast. A *scenario* says
  what the broadcast is and what each feed may lose or damage; a run may hold
  several. `Stop` and `Failure` end the program.
- `OutputUdp`: the state of the output as a record, and datagram assembly, a
  failing `sendto`, the flush and the counting of `output_record` as operators on
  it. `TwoStreamUdp` puts it behind the engine of `TwoStream`: each step that gives
  packets to the sink applies `output_records`, and the sink refuses a packet
  exactly where `sendto` is called, which can be in the middle of the packets that
  one decision inserts. What has left (`wire`) is a ghost.
- `MainLoop`: `run_loop` around the engine. `loop` says where in a turn it is, and
  each system call is an action: `Select` (what is ready is kept in `ready`),
  `ServeClient` (which may take a unit of time), `Receive` and `ReceiveNothing` for
  the inputs in turn, `Process` for each packet of the datagram, `EndOfTurn` (the
  drain), `Leave` (the flush). `Signal` may come at any point, `SinkError` and
  `SocketError` end the loop without a flush. Datagrams wait in sockets of bounded
  room. This module EXTENDS `RecoveryEngine`; the feeds of `TwoStream` deliver
  packets one by one, these deliver datagrams.
  `MainLoopTurns` records in a ghost when `select` last returned; the runs use it.
- `Framing`: `process_datagram` over one datagram, which is a function from offsets
  to what a packet starting there would be: no sync byte, a header that
  `ts_packet_parse` refuses, or a packet. Offsets wrap as a `size_t` does.
- `ReportStats`: one input of `report_stats.c`. A feed with two PIDs loses, damages
  and renumbers packets and falls silent; `Turn` is the `report_stats_tick` of the
  loop, `Poll` what a web request or the console does. The ghost `feed` knows what
  really happened.
- `StreamBuffers`: what the buffers of one input promise, in terms of
  `RecordBuffers`. `RingBuffers`: the rings of the C code, which implement it under
  the mapping `history <- Contents(hist)`, `queue <- Contents(dq)`.
- `Broadcasts`, `MCTwoStream`, `MCTwoStreamUdp`, `MCMainLoop`: the broadcasts and
  losses of the runs.
- `GapRecoveryProofs`, `RecoveryEngineProofs`, `TwoStreamProofs`,
  `TwoStreamUdpProofs`, `MainLoopProofs`, `FramingProofs`, `RingBuffersProofs`,
  `ReportStatsProofs`: section 5.

Abstractions that a reader should know of. Time is a small counter that starts at
1. Continuity counters run modulo `CCMod` (16 in the code), and the limits on
searches and bursts are constants, scaled down together. All reject reasons the
code branches on are kept; their wording and logging are not. Allocation failure
in `init` is left out. The 64-bit hash is taken to be injective. Stream indices
and times do not overflow: they are 64 bits wide and advance by one per packet or
nanosecond. The PCR estimates of bitrate and delay are not kept, since no decision
reads them; that a matching PCR sets the alignment is (`update_pcr_timing`).
In `MainLoop` a datagram is its packets; what damage does to one is `Framing`. In
`ReportStats` the many counters that `stream_problem_delta` adds are one, since they
are captured and subtracted alike.
Definitions whose names end in a qualifier, such as `Sent_behind` beside `Sent`,
are faulty variants that show the properties to be sensitive; no module uses them.

## 3. The runs

All runs of `MCTwoStream` and `MCTwoStreamUdp` explore every relative delay of the
two feeds and every choice of the losses that the scenario allows. Unless noted
otherwise the clock moves only between two calls (`SlowDrain = FALSE`).

| Run | Checks | Question and bounds |
|---|---|---|
| `dual_loss` | `NetTypeOK`, `PidOrder`, `PrimaryAccounted`, `RecoveryFillsGaps`, `HealthyPrimaryPassesThrough`, `TeiReplacementIsSamePacket`, `BreakIsReported` | Two scenarios. Seven packets of two PIDs and a null, of which each feed may lose any one and the primary may damage two: gaps of content, of nulls and the replacement of a damaged packet all occur, as do gaps where the secondary lacks the packet too. And eight packets whose content repeats with each turn of the counter (`CCMod = 4`), where the primary is complete and the secondary loses up to two and damages one, which is the case where a wrong block would fit. |
| `switchover` | `OutputInOrder`, `FlushSendsQueue`, `SwitchesAreSeamless`, `HoldoffRespected` | Two complete feeds of five packets, outage limit 1, hold-off 2, five ticks: failover, return and a second failover fit. The sink may fail and the program may be stopped anywhere. |
| `overflow` | `OutputInOrder`, `PrimaryAccounted`, `HistoryIsRecent`, `AlignmentIsReal`, `WireIsAccepted`, `DatagramsCounted` | Room for three packets, retention of one tick, six packets, of which the primary may lose any one so that the offset moves: the delay queue overflows, histories evict by room and by age, and two packets carry a PCR. Behind it the UDP output with three packets to a datagram, a `sendto` that may fail at each, and a stop at any time. |
| `ring_buffers` | `ImplementsBuffers`, `FindIndexIsExact` | Rings of three slots and eight packets: more than two wraps, with prunes and pops anywhere. |
| `framing` | `PushedAreFramed`, `LossIsCounted`, `ValidPacketsKept`, `WalkAdvances` | Every datagram of up to ten bytes, each byte no sync, a broken header or a packet; packets of three bytes, a run of two sync bytes: three packets and a rest, and a resync that wraps below zero (at offsets 1 and 2). |
| `health` | `ErrorsAreLosses`, `SampleIsTheOneAsked`, `TroubleIsSeen`, `HealthReturns` | Two PIDs, three packets, one trouble of any kind, a ring of three samples and six seconds: the ring wraps, a silence of two seconds resets the counters, and polls come at any second. |
| `main_loop` | `OverlookedIsNew`, `AllReceived`, `OutageIsCovered`, `StopIsObeyed` | Safety of a turn that takes time anywhere (`ServeWait`, `SlowTurn`), and liveness under the fairness of section 4. Two packets on each feed, in datagrams of one or both; the primary may lose one, sockets hold two datagrams; a web client comes at any time and is waited for; a signal at any time; the sink, `select` and `recv` may fail. Output leaves the primary over a datagram that came during the turn; over one that was there at `select` it would only in a turn longer than these ticks allow, which `SilenceIsOneTurn` covers. |

What these runs do not reach: in `switchover` the feeds are complete, so the offset is
0 throughout; what a changed offset does to a switch is `outage_skips` and
`discarded_primary`. A clock that moves inside a drain is in `stale_holdoff` only; that
switches are seamless there too is proved (`SwitchesLoseNothing`).

Bounds: the packets of a broadcast are few, but every mechanism of the engine
takes a bounded number of them: two to confirm an alignment (`MatchThreshold`), an
anchor before and after a gap, and a gap of at most `MaxBurst`. `PidOrder`,
`RecoveryFillsGaps` and `HealthyPrimaryPassesThrough` depend on bursts shorter
than a turn of the counter (`MaxBurst < CCMod`, in the code 15 and 16) and, in the
first scenario of `dual_loss`, on content that does not repeat; `stale_anchor` shows
that `PidOrder` fails when the counter comes round between two anchors. In
`main_loop` the clock waits at `ArrivalEnd` until what came is processed, so that
two ticks remain for the outage; without that the bound on the clock, not the code,
would decide.

### Where the code and its documents disagree

Five runs end in a violation. Each shows a behaviour of the code that the
repository's own documents or tests rule out.

| Run | Property | What happens |
|---|---|---|
| `discarded_primary` | `PrimaryAccounted` | Recovery inserts secondary packets, which moves `last_output_stream_index[1]`. Later the offset drops, since the secondary lost packets too. A primary packet still in its delay then seems to be output already, and the next drain discards it (831-855). `LossesAreCounted` proves that this discard is the only way. |
| `outage_skips` | `FailoverContinuesOutput` | The primary loses a burst and falls silent with an empty queue, so output moves to the secondary (2392). Then the primary comes back. Its packets from behind the burst raise the offset (from 0 to 2) while they wait for the hold-off, and the outage drain goes on meanwhile (2245-2246): its cutoff, the old last primary index plus the new offset, lies behind packets of the secondary that were never output, and they are skipped (806-829). A failover from stream 0 over a queue that is not due does not start (2392), so it is the return that strikes. |
| `stale_anchor` | `PidOrder` | No anchor has been set for a turn of the counter. The search for the missing packet finds one with the same counter that was output long ago (1069). |
| `stale_holdoff` | `HoldoffRespected` | As `switchover`, with a clock that moves during a drain. A call returns to the primary and, as the outage limit passes before it ends, fails over again. The hold-off start it began with is still set, and the next primary packet ends the new outage at once. `HoldoffIsKept` proves that this is the only way. |
| `slow_client` | `SilenceIsReal` | `select` reports a web client. While the loop waits for its request (up to 50 ms, `web_server.c:107-120`, as long as the default outage limit) a datagram of the primary arrives. It is not in the set that `select` reported, so the turn ends without receiving it, and the drain takes the primary for silent and fails over. It needs an empty primary queue (2392): in the run the delay is no longer than the wait; with the default delay of 2500 ms a single wait of 50 ms does not suffice, the waits of a turn have to outlast the delay too. `SilenceIsOneTurn` proves how far it goes: what waited at `select` is never overlooked in a turn shorter than the outage limit. |

What else a reader of the code should know, seen while modelling but not kept as
runs:

- When both feeds lose content of a gap in which the secondary still has a null
  packet, inserting the null counts as the decision (2314), and the break that
  remains in the counter is not reported (2352), against `TEST_PLAN.md:260` ("loss
  is reported as unrecoverable or ambiguous") and `README.md:28`.
  `BreakIsReported` without its condition on `recovered_null` is violated by the
  broadcast A B A A N A B A when the primary loses the fourth and fifth packet and
  the secondary the fourth, with the constants of `discarded_primary` but
  `BoundaryExtra = 3` and `MaxBurst = 3`. The property exempts exactly these turns,
  and `BreaksAreReported` proves that a break goes unreported in no others.
- `unrecoverable_loss` can rise although the primary lost nothing: it counts what a
  rejected candidate would have had missing, and a secondary with losses of its own
  offers such candidates. `TEST_PLAN.md:154` expects `unrecoverable=0` of a healthy
  primary.
- The discard of `discarded_primary` also strikes a primary that lost nothing, once one
  of its packets came damaged and was replaced: the copy moves
  `last_output_stream_index[1]`, and when the secondary then loses a packet the offset
  drops and a queued primary packet seems to be output already.
  `HealthyPrimaryPassesThrough` is violated by the broadcast A B A A B A B A B when the
  primary damages the fourth packet and the secondary loses the sixth, with the
  constants of `discarded_primary` and three ticks. A primary without damage is safe
  (`UndamagedPrimaryIsPassedOn`).
- A sync byte inside damaged payload can start a false run of four, and
  `find_resync_offset` takes the first run it meets; packets behind it are then cut
  at the wrong places. `ValidPacketsKept` excludes such bytes.
- A flush that comes when output is on the secondary, the hold-off has passed and
  the primary has nothing new returns at 2241 and drops what the secondary has
  queued (`WaitsForPrimary`).
- `README.md` gives the default outage limit as 500 ms where
  `RECOVERY_ENGINE_DEFAULT_PRIMARY_OUTAGE_NS` is 50 ms. `select` waits up to 100 ms.
- A primary that has never delivered a packet is never silent (785-787).
- `output_udp_flush` drops a datagram that is not full (94-97), though
  `TEST_PLAN.md` speaks of a short one.
- `report_stats_observe_datagram` and the end of `process_datagram` both count a
  partial datagram, so that one counts twice.
- `recovery_exact_cc_gap`, `primary_delay_insufficient`, `stream_disagreements`,
  `secondary_missing_anchors` and `output_short_flushes` are read but never raised.
- The first poll of the statistics takes a sample just before it judges, so that
  no packet lies behind it and a stream that works is called degraded; troubles
  before the first sample are never seen.

## 4. Fairness

`FairLoopSpec`, and `FairTurnsSpec` with the ghost of `MainLoopTurns`, assume weak
fairness of two actions and of nothing else:

- `Turn`: the steps of `run_loop` and of the engine. `select` returns after at most
  100 ms, a web client is waited for 50 ms at most, the sockets do not block, and
  the loops of the engine do not wait.
- `Clock`: time passes.

Fairness of `Turn` as a whole says that the program goes on, not which of its steps
it takes; `Turn` is deterministic up to `Interrupted` and the time a client takes.
Feeds may stop at any time, the sink or a socket may fail, clients need not come
and neither need a signal. `AllReceived` and `StopIsObeyed` assume nothing else.
`OutageIsCovered` starts from feeds that have ended, which is a state and not a
fairness assumption; it needs `last_arrival[0] # 0`, because of 785-787. Clients are
bounded (`MaxClients`): `web_server_handle_ready` accepts until none is left, and
clients that never stop coming would keep the loop from its inputs.

## 5. What is proved

TLAPS proves the theorems below for every value of the constants that meets the
named assumptions of the modules (`RecordAssumption`, `BufferAssumption`,
`RecoveryAssumption`, `EngineAssumption`, `SourceAssumption`, `LoopAssumption`,
`FramingAssumption`, `RingAssumption`, `StatsAssumption`, `UdpAssumption`: limits are
naturals, capacities, thresholds and packet sizes positive, the counter modulus at
least 2, the null PID is a PID, a broadcast is a sequence of packets, a `size_t` has
room for a datagram and one packet more, a datagram of the output has room for two
packets or more). A hypothesis beyond these is part of the theorem and named here.

| Module | Theorems | What they say |
|---|---|---|
| `GapRecoveryProofs` | `DecideType` | `Decide` is total: it does nothing, rejects with a natural number of lost packets, or inserts records; a damaged packet is replaced by exactly one. |
| | `InsertsFit` | What is inserted before an undamaged packet is nulls only, or carries the counter of every PID on from the output to that packet; a replacement fits the output; a packet passed on without a reject has the next counter. |
| | `InsertsAreEnclosed` | What is inserted lies in the secondary between two pairs of equal packets, the last anchor and the packet that is due, and is inserted because the secondary has more packets there than the primary, or because the counter does not fit and these have the counters that are missing. |
| `RecoveryEngineProofs` | `EngineTypeOK`, `EngineHistoryIsRecent`, `EngineOutputInOrder`, `EngineFlushSendsQueue` | `TypeOK` and the invariants of these names, of `Spec`. |
| `TwoStreamProofs` | `FeedsImplementEngine`, `FeedsAreTyped` | `NetSpec => Spec`: all of the above holds between two feeds; the types of the feeds. |
| | `HoldoffIsKept` | `HoldoffRespected`, if the clock does not move inside a call (`~SlowDrain`). |
| | `AlignmentIsUnambiguous`, `AlignmentOfDistinctContent` | `AlignmentIsReal`, as long as the feeds are not ambiguous (`Unmistakable`), and for every broadcast whose content packets differ (`DistinctContent`). |
| | `BreaksAreReported` | `BreakIsReported`, for every broadcast, loss and alignment. |
| | `LossesAreCounted` | `PrimaryAccounted`, as long as no drain discards a queued primary packet while output has not left the primary (`NoneDiscarded`). |
| | `ReplacementIsSamePacket` | `TeiReplacementIsSamePacket`, for every broadcast with `DistinctContent` and `CountersRunOn`, if no feed lost a whole turn of the counter next to a damaged packet (`ShortBursts`). |
| | `OutputKeepsOrder` | `PidOrder`, for the same broadcasts and `ShortBursts`, if less than a turn of the counter lies between the last anchor and the packet that is due (`FreshAnchor`). |
| | `InsertedIsMissing` | `RecoveryFillsGaps`, under the same conditions, `NoneDiscarded`, and no overflow of the primary queue (`NoOverflow`). |
| | `HealthyPrimaryIsPassedOn` | `HealthyPrimaryPassesThrough`, for the same broadcasts, with `ShortBursts`, `NoneDiscarded` and `NoOverflow`. |
| | `UndamagedPrimaryIsPassedOn` | `HealthyPrimaryPassesThrough` for the same broadcasts, whatever the secondary does, as long as no packet of the primary came damaged (`Undamaged`) and `NoOverflow`. |
| | `SwitchesLoseNothing` | `SwitchesAreSeamless`, for the same broadcasts, two feeds that lose nothing (`Complete`), a primary without damage (`Undamaged`), and as long as a full delay queue pushes out only what was output, be it from the other feed (`PushedOutIsOutput`). |
| `TwoStreamUdpProofs` | `OutputImplementsFeeds` | `UdpSpec => NetSpec`: all of the above holds with the UDP output as the sink. |
| | `WireFollowsOutput`, `OutputCountsDatagrams` | `WireIsAccepted` and `DatagramsCounted`, for datagrams of any size. |
| `MainLoopProofs` | `LoopImplementsEngine`, `LoopIsTyped`, `LoopOutputInOrder`, `LoopFlushSendsQueue` | `LoopSpec => Spec`: what is proved of the engine holds in `run_loop`, with its datagrams, clients, signals and errors; the types. |
| | `SilenceIsOneTurn` | `OverlookedIsNew`, for any feeds, clients, errors, delay and outage limit, however long the turns are. |
| `FramingProofs` | `FramingTypeOK`, `FramingPushed`, `FramingAdvances`, `FramingCountsLosses`, `FramingKeepsPackets` | The type, `PushedAreFramed`, `WalkAdvances`, `LossIsCounted` and `ValidPacketsKept`, for every datagram, packet size and width of `size_t`. |
| `RingBuffersProofs` | `RingsImplementBuffers`, `LookupIsExact`, `RingsAreTyped` | The rings implement `StreamBuffers` (`ImplementsBuffers`); `FindIndexIsExact`; no index leaves the array. |
| `ReportStatsProofs` | `ErrorsStandForLosses`, `SamplesAreRight`, `NoTroubleOverlooked`, `TroubleIsForgotten` | `ErrorsAreLosses`, `SampleIsTheOneAsked`, `TroubleIsSeen`, `HealthReturns`, for any PIDs and any length of the ring. |

`Spec` of `RecoveryEngine` is the engine with any packet arriving at any time, a
clock that may move between any two steps, a sink that may fail and a flush at
any time.

**Gap recovery.** The lemmas under `DecideType` say where the records come from:
blocks of the secondary history (`BlockType`), the match that a verdict belongs to
(`MatchIsMember`, `UniqueType`), and counts that are naturals because a validator has
compared them with 0 first (`VerdictCount`). `InsertsFit` follows the three ways to
insert (`UniqueInserts`, `NullInserts`, `MixedInserts`, and `ExactInserts` for a
damaged packet) down to the check on the counters that each makes last.

**The engine.** `OutputInOrder` is not inductive. It relates what was sent to the
packets that are queued, and an empty queue says nothing about the packet that
arrives next. The invariant `EngineInv` is

    TypeOK /\ Rows /\ SentInOrder

where `Rows` says that each history and queue holds consecutive indices that end
at `next_index - 1`, no more than `Capacity` of them, and `SentInOrder` that what
was sent of a stream is increasing and lies below `Front(s) = next_index[s] -
Len(queue[s])`, the index at the front of the queue, or of the next arrival when
it is empty. Given `Rows`, popping a queue raises `Front` by one, and an overflow or a
discard only raises it. So each step either leaves `Front` alone and sends nothing
that passes on the stream, or sends the front record and moves `Front` past it
(`Sending`). `SinkFails` sends only what stands in front of the packet it stops at
(`SinkFailsInv`). `EngineInvStep` puts the actions together, `EngineInvariant`
concludes, and `EngineInvImplies` gives the two properties. In `EngineTypeOK` the parts
that could fail are the confidence, which is decremented and stays in 0..100 only by
its guard, and the counters of the output, which come from what `Decide` inserts.

`FlushSendsQueue` needs to know how a forced drain came to where it ends:
`FlushInv` adds that the primary loop runs only while output is on the primary, and
that the outage loop is entered from there only with an empty primary queue.

**The hold-off.** `HoldoffInv` says that while output is on the secondary a running
hold-off began no sooner than the primary was last found unfit; and, as a start may
survive a return (`DrainPrimary` keeps it), that in the loop over the primary queue
such a start means that the primary is not silent, so that the outage loop is
entered from there only with no start at all. The second half is what a clock that
moves inside the call breaks, and `stale_holdoff` is the behaviour that results.

**The alignment.** `AlignInv` says that every record of a history is a packet its feed
carried, at the place its index names, and that the stored offset has evidence: a pair
of carried packets at that distance which either ends a run of `MatchThreshold`
matching packets or carries a PCR and matches. Evidence does not go away, although the
histories it was found in do. `AlignmentIsReal` follows wherever evidence is always of
the same packet, which is `Unmistakable`. For a broadcast with `DistinctContent` that
is so at all times: what a feed carries is a packet of the broadcast, damaged or not
(`FromSource`), and a damaged packet matches nothing.

**Reports.** A turn of the loop that rejects nothing and inserts no null sends records
that carry the counters on (`InsertsFit`), and such records break none of them
(`CarriedOnNoBreaks`, `QuietTurn`). So a break means a reject or a null.

**Nothing is lost silently.** By `Rows`, the packets of the primary that are neither
queued nor output are the indices below `Front(0)` that no entry of the output stands
for (`FrontType`). `AccountInv` says that they are as many as
`primary_delay_overflows`: a push into a full queue adds one to both, a turn of the loop
moves `Front(0)` past one index and sends an entry for it, and nothing else moves
`Front(0)`, unless a drain discards from the primary queue. That this can happen before
the output ever left the primary is what `discarded_primary` shows; `NoneDiscarded`
excludes it and nothing else.

**What is inserted, and where it stands.** The four properties of `dual_loss` compare
places in the broadcast with the decisions of an engine that does not know them. The
argument has five parts.

1. *The feeds.* `Placed`: the packets of a feed stand in the broadcast at increasing
   places, each no earlier than its index. `QueueArrived`: a queue holds what its feed
   delivered. With `AlignInv`, which says the same of the histories, a question about
   records is one about places.
2. *The entries of the output.* `EntriesKnown`: each was the primary packet it stands
   for, or a packet of the secondary that the decision chose: a copy in front of a pair
   of equal packets (`CopyOf`), or an insertion below such a pair. `OutputIsPast` and
   `CounterIsLast`: as long as output never left the primary, all entries stand for
   packets that have left the queue, and `last_output_cc` is the counter of the last
   entry of its PID.
3. *What the loop inserts* (`InsertsAreEnclosed`). With `DistinctContent` the two pairs
   of equal packets are two places of the broadcast, the anchor's and that of the packet
   that is due, and what is inserted lies between the two. That it is behind all of its
   PID that was sent has one of two reasons, as the decision has. Either the secondary
   has more packets in between than the primary: these are the ones that stand behind
   the packets they share. Or the counters of the inserted packets go on from the
   output; counters name places up to whole turns (`CountersRunOn`, `SameOrRound`), and
   `FreshAnchor` leaves no room for a turn.
4. *Order and gaps.* `PidOrder` follows with the packet that is due standing behind all
   that was sent. `RecoveryFillsGaps` follows where all that the primary delivered was
   sent: then a packet inserted at a place the primary did deliver would be there
   twice, against `PidOrder`. By `AccountInv` only an overflow or a discard takes a
   packet away unsent, and a packet so lost does count as missing for the engine.
5. *A healthy primary.* `HealthyInv`: its n-th packet is the n-th of the broadcast, and
   the n-th entry of the output stands for it. An insertion would need a place between
   two neighbours. `SoundInv` adds, for a primary without damage, that nothing of the
   secondary was sent, so that `last_output_stream_index[1]` is unset and
   `discard_primary_records_already_output_by_secondary` finds nothing to discard: here
   `NoneDiscarded` and `ShortBursts` are consequences.

Why the hypotheses are there. Content that repeats can be mistaken for other content,
and a counter that jumps by itself looks like a loss: `DistinctContent` and
`CountersRunOn` say that the broadcast is one. `ShortBursts` speaks only of packets in
front of which something is damaged, and of a loss of `CCMod` packets of one PID (16)
where recovery accepts `MaxBurst` (15) at most. `FreshAnchor` is what `stale_anchor`
lacks and `NoneDiscarded` what `discarded_primary` lacks. TLC confirms that each
hypothesis is met along behaviours in which recovery inserts and copies, and that the
theorems are false without `FreshAnchor` and without `NoneDiscarded`. The first
scenario of `dual_loss` meets both conditions on the broadcast; the content of the
second repeats, so that what holds there rests on TLC.

**Switches.** With two complete feeds the index of a packet is its place
(`IndexIsPlace`), so that an alignment that is real has the offset 0 (`NoOffset`), and
the discards of both drains compare like with like. `SeamInv` says where an exact output
stands: no queue has given up a packet that was not output (`AllBehind`), the last
packet output of one of the feeds is the last of all (`LastIsKnown`), the anchor is
behind it (`AnchorIsBehind`), and a loop that drains an aligned feed finds nothing in its
queue that the other feed gave (`LoopIsAhead`). `SwitchesAreSeamless` alone is not
inductive: it does not say what a queue has given up, nor what was output before the
feeds were aligned. From `SeamInv` the packet that is due
is the next of the broadcast (`NextIsDue`); nothing is inserted in front of it
(`ExactNoGap`) and nothing replaces it. `SeamStep` goes through every action: an arrival
moves the front of a queue only where it overflows, which is what `PushedOutIsOutput` is
about; `SeamOfReturn` and `SeamOfFailover` are the two discards; `SeamOfTurn` and
`SeamOfSecondary` the two outputs. `PushedOutIsOutput` is needed: in `switchover` with
room for three packets, and a secondary that may damage one, TLC finds a feed that runs so far
ahead of the output that a packet is pushed out of its queue unsent, and the output goes
on behind it. With the hypothesis as an action constraint the property holds there,
along behaviours in which queues overflow and output returns to the primary.

**The UDP output.** `UdpInv` says that the packets on the wire are a prefix of the
output cut into whole datagrams (`Left`, which still holds after a failure), and that
until the program ends the pending packets are the rest and the count of datagrams is
right (`Gathered`). `output_records` is a recursive function of the number of packets,
and the proof goes along it packet by packet; where `sendto` fails, less than one
datagram is missing.

**The main loop.** A failover looks at `last_arrival[0]` and not at the socket, so the
proof has to tie the two together. `HeardInv` says of a datagram that waits in the
primary's socket since before `select` that this turn will still receive from the
primary (`YetToReceive`: it is in the set that `select` reported and its turn has not
passed), or has received from it, so that `last_arrival[0]` is not older than `select`.
A loop that stops on an error stays in the first case and drains no more.
`SilenceInv` says that an outage loop that has not yet moved the output found the
primary silent for the outage limit. Together: over an old datagram the silence began
no earlier than `select`, so the turn has lasted as long as the limit. `HeardInv` is
where the order of the turn enters: it fails if the inputs are passed over once a
client was served, which is the mutant of `OverlookedIsNew`.

**The framing.** `PushedAreFramed` is inductive once the end of the last packet is
known to lie at or before the offset; `WalkAdvances` needs that `Minus` and the
`Wrap` of `Continue` cancel, which is where the room of a `size_t` is used. For
`LossIsCounted`, `CoverInv` says that without a sync error every byte before the offset
is in a packet. For `ValidPacketsKept`, `KeepInv` says of each row of intact packets
that the walk has not passed its start, or stands in phase with it and has handed on
all of it that lies before the offset.

**The rings.** The arithmetic of `start`, `count` and `%` is done once, in lemmas that
say what `Contents` becomes; each action is then one of `StreamBuffers` or a stutter.
For `FindIndexIsExact`, `RingInv` adds that the indices of the history are consecutive
and end before `next`.

**The statistics.** `StatsInv` ties the ring to the samples taken (`Sampled`) and their
times to the clock (`Timed`), says that a sample counts every trouble before it
(`Telling`), and bounds the continuity errors together with the PIDs whose next packet
may be misjudged by what the feed did (`Accounted`): the error is charged only when the
packet comes, so the property alone is not inductive.

**Only model-checked.**

- `SwitchesAreSeamless` without `Complete` is violated (`outage_skips`).
- `PidOrder`, `RecoveryFillsGaps`, `HealthyPrimaryPassesThrough` and
  `TeiReplacementIsSamePacket` for broadcasts whose content repeats (the second scenario
  of `dual_loss`).
- `PrimaryAccounted` and `HoldoffRespected` without their hypotheses are violated.
- `AllReceived`, `OutageIsCovered` and `StopIsObeyed`: liveness and `ENABLED` are out of
  the prover's reach.

## 6. What is not modelled

- The bits of `ts_packet_parse`: which mask gives which field. Its verdict is.
- The latency and bitrate estimates of `report_stats.c`, `stream_problem_delta` sum
  by sum, and the formatting for console, JSON and log.
- Requests and files of `web_server.c`, and an `accept` error that closes it; the
  parsing and opening of sockets in `input_udp.c` and `output_udp.c`; `command_line.c`;
  `webroot/`. They hold no state that the engine depends on.
- A datagram of more than 64 packets, which `recv` cuts off.
- More than `MAX_SECONDARY_AFTER_ANCHOR_CANDIDATES` candidates: the reject is
  modelled; the short broadcasts of the runs hardly reach it.
- Crash and restart: the program keeps nothing on disk.

## 7. Plan

1. Done: records and buffers, gap recovery, the engine, its composition with two
   feeds, rings; framing, statistics, the main loop, the engine in front of the UDP
   output; the proofs of section 5.
2. Open: a condition on the feeds alone that gives `NoneDiscarded` when a damaged packet
   was replaced; the same for `PushedOutIsOutput`; `SwitchesAreSeamless` for complete feeds
   whose primary is damaged; the stamps of `report_stats.c` sum by sum.
