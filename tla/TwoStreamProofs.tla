--------------------------- MODULE TwoStreamProofs ---------------------------
(***************************************************************************)
(* The engine between its two feeds keeps what was proved of the engine    *)
(* alone, and returns to the primary only after the hold-off.  In this     *)
(* order:                                                                  *)
(*    the mapping to the engine, the hold-off, the types                   *)
(*    the alignment                                                        *)
(*    reports of breaks                                                    *)
(*    what becomes of the primary's packets                                *)
(*    counters; where the feeds' packets stand in the broadcast; the steps *)
(*    what the loop inserts, and what each entry of the output is          *)
(*    copies of damaged packets                                            *)
(*    the order of the output                                              *)
(*    what is inserted was missing                                         *)
(*    a feed that has lost nothing; a healthy primary                      *)
(*    switches between two complete feeds                                  *)
(***************************************************************************)
EXTENDS TwoStream, RecoveryEngineProofs

\* The packets of a scenario, as far as they are needed here.
FeedInv ==
  /\ scenario \in Scenarios
  /\ carried \in [Stream -> Seq(Packet)]
  /\ upto \in [Stream -> 0 .. Len(Source)]

LEMMA SourceType ==
  ASSUME FeedInv
  PROVE  /\ Source \in Seq(Packet) /\ Len(Source) \in Nat
         /\ \A s \in Stream : upto[s] < Len(Source) => Source[upto[s] + 1] \in Packet
<1>1. Source \in Seq(Packet)
  BY SourceAssumption DEF FeedInv, Scenario, Source
<1>2. Len(Source) \in Nat /\ DOMAIN Source = 1 .. Len(Source)
  BY <1>1, LenProperties
<1>3. ASSUME NEW s \in Stream, upto[s] < Len(Source)
      PROVE  Source[upto[s] + 1] \in Packet
  <2>1. upto[s] \in Nat /\ upto[s] + 1 \in 1 .. Len(Source)
    BY <1>2, <1>3 DEF FeedInv
  <2> QED  BY <1>1, <1>2, <2>1, ElementOfSeq
<1> QED  BY <1>1, <1>2, <1>3

LEMMA FeedInvInit == NetInit => FeedInv
<1> SUFFICES ASSUME NetInit PROVE FeedInv
  OBVIOUS
<1>1. scenario \in Scenarios
  BY DEF NetInit
<1>2. Source \in Seq(Packet)
  BY <1>1, SourceAssumption DEF Scenario, Source
<1>3. Len(Source) \in Nat
  BY <1>2, LenProperties
<1>4. << >> \in Seq(Packet)
  BY EmptySeq
<1> QED  BY <1>1, <1>3, <1>4 DEF NetInit, FeedInv

\* What arrives is a packet, and is carried from then on.
LEMMA ArriveStep ==
  ASSUME FeedInv, NEW s \in Stream, NEW pkt \in Packet,
         upto[s] < Len(Source), Arrive(s, pkt)
  PROVE  Next /\ FeedInv'
<1>1. Next
  BY DEF Arrive, Next
<1>2. Source' = Source /\ scenario' = scenario
  BY DEF Arrive, Source
<1>3. upto' \in [Stream -> 0 .. Len(Source)]
  BY SourceType DEF FeedInv, Arrive
<1>4. Append(carried[s], pkt) \in Seq(Packet)
  BY AppendProperties DEF FeedInv
<1>5. carried' \in [Stream -> Seq(Packet)]
  BY <1>4 DEF FeedInv, Arrive
<1> QED  BY <1>1, <1>2, <1>3, <1>5 DEF FeedInv

\* A step of feeds, program or clock is one of the engine's specification, or
\* leaves the engine alone.
LEMMA NetStepMaps ==
  ASSUME FeedInv, [NetNext]_all_vars
  PROVE  [Next]_vars /\ FeedInv'
<1>1. ASSUME NEW s \in Stream, Deliver(s) \/ Damage(s)
      PROVE  Next /\ FeedInv'
  <2>1. upto[s] < Len(Source) /\ Source[upto[s] + 1] \in Packet
    BY <1>1, SourceType DEF Deliver, Damage
  <2>2. [Source[upto[s] + 1] EXCEPT !.tei = TRUE] \in Packet
    BY <2>1 DEF Packet
  <2>3. \E pkt \in Packet : Arrive(s, pkt)
    BY <1>1, <2>1, <2>2 DEF Deliver, Damage
  <2> QED  BY <2>1, <2>3, ArriveStep
<1>2. ASSUME NEW s \in Stream, Lose(s)
      PROVE  UNCHANGED vars /\ FeedInv'
  <2>1. UNCHANGED vars /\ scenario' = scenario /\ carried' = carried /\ Source' = Source
    BY <1>2 DEF Lose, Source
  <2>2. upto' \in [Stream -> 0 .. Len(Source)]
    BY <1>2, SourceType DEF Lose, FeedInv
  <2> QED  BY <2>1, <2>2 DEF FeedInv
<1>3. CASE Drain \/ Step \/ Clock \/ Stop \/ Failure
  <2>1. Next
    BY <1>3 DEF Drain, Step, Clock, Stop, Failure, Next
  <2>2. UNCHANGED net_vars
    BY <1>3 DEF Drain, Step, Clock, Stop, Failure
  <2> QED  BY <2>1, <2>2 DEF FeedInv, net_vars, Source
<1>4. CASE Ended \/ UNCHANGED all_vars
  BY <1>4 DEF Ended, all_vars, FeedInv, net_vars, Source
<1> QED  BY <1>1, <1>2, <1>3, <1>4 DEF NetNext

(***************************************************************************)
(* The feeds, the main loop and the clock of TwoStream do to the engine    *)
(* only what its specification allows: NetSpec implements Spec, so that    *)
(* every theorem about recovery_engine.c holds between two feeds.          *)
(***************************************************************************)
THEOREM FeedsImplementEngine == NetSpec => Spec
<1>1. NetInit => FeedInv /\ Init
  BY FeedInvInit DEF NetInit
<1>2. FeedInv /\ [NetNext]_all_vars => [Next]_vars /\ FeedInv'
  BY NetStepMaps
<1> QED  BY <1>1, <1>2, PTL DEF NetSpec, Spec

LEMMA FeedInvariant == NetSpec => []FeedInv
<1>1. NetInit => FeedInv
  BY FeedInvInit
<1>2. FeedInv /\ [NetNext]_all_vars => FeedInv'
  BY NetStepMaps
<1> QED  BY <1>1, <1>2, PTL DEF NetSpec

-----------------------------------------------------------------------------
(***************************************************************************)
(* The hold-off.  While output is on the secondary, a running hold-off     *)
(* began no sooner than the primary was last given up or found silent.  A  *)
(* start that DrainPrimary leaves behind does no harm as long as the call  *)
(* that returned does not fail over again: the primary was not silent when *)
(* it began, and neither the clock nor the arrivals move before it ends.   *)
(***************************************************************************)
HoldoffInv ==
  /\ unfit_at \in Nat /\ unfit_at <= now
  /\ active = 1 /\ return_start # 0 => unfit_at <= return_start
  /\ pc = "primary" => active = 0
  /\ pc = "primary" /\ return_start # 0 => ~primary_is_silent_beyond_outage
  /\ pc = "secondary" /\ active = 0 => return_start = 0

\* The start that a drain finds or sets while output is on the secondary.
LEMMA HoldoffStartHolds ==
  ASSUME EngineInv, HoldoffInv, active = 1
  PROVE  /\ HoldoffStart # 0 => ~primary_is_silent_beyond_outage
         /\ HoldoffStart # 0 => unfit_at <= HoldoffStart
         /\ primary_return_holdoff_elapsed => HoldoffStart # 0
BY DEF HoldoffStart, primary_return_holdoff_elapsed, HoldoffInv, EngineInv, TypeOK

\* The steps of a drain.
LEMMA HoldoffDrains ==
  ASSUME EngineInv, HoldoffInv, Judge, EngineStep
  PROVE  HoldoffInv'
<1>0. /\ now \in Nat \ {0} /\ unfit_at \in Nat /\ unfit_at <= now /\ return_start \in Nat
      /\ active \in {0, 1} /\ now' = now /\ last_arrival' = last_arrival
  BY DEF EngineInv, TypeOK, HoldoffInv, Stream, EngineStep, DrainNotReady, DrainNothing,
         DrainPrimary, PrimaryStep, PrimaryNotDue, PrimaryEmpty, SecondaryStep, SecondaryDone
<1>1. unfit_at' \in Nat /\ unfit_at' <= now'
  BY <1>0 DEF Judge
<1>2. primary_is_silent_beyond_outage' <=> primary_is_silent_beyond_outage
  BY <1>0 DEF primary_is_silent_beyond_outage
<1>3. CASE \/ DrainNotReady \/ DrainNothing
  <2>1. /\ pc = "drain" /\ return_start' = HoldoffStart /\ active' = active
        /\ pc' \in {"secondary", "idle", "stopped"}
        /\ primary_is_silent_beyond_outage => unfit_at' = now
        /\ ~primary_is_silent_beyond_outage => unfit_at' = unfit_at
    BY <1>0, <1>3 DEF DrainNotReady, DrainNothing, EnterOutage, Returned, Judge
  <2>2. active = 0 => return_start' = 0
    BY <2>1 DEF HoldoffStart
  <2>3. active = 1 /\ return_start' # 0 => unfit_at' <= return_start'
    BY <2>1, HoldoffStartHolds
  <2> QED  BY <1>1, <2>1, <2>2, <2>3 DEF HoldoffInv
<1>4. CASE DrainPrimary
  <2>1. /\ active' = 0 /\ pc' = "primary" /\ return_start' = HoldoffStart
    BY <1>4 DEF DrainPrimary
  <2>2. HoldoffStart # 0 => ~primary_is_silent_beyond_outage
    BY DEF HoldoffStart
  <2> QED  BY <1>1, <1>2, <2>1, <2>2 DEF HoldoffInv
<1>5. CASE PrimaryStep \/ PrimaryNotDue
  <2>1. /\ active = 0 /\ active' = 0 /\ return_start' = return_start /\ pc = "primary"
        /\ pc' \in {"primary", "idle", "stopped"}
    BY <1>5 DEF PrimaryStep, PrimaryNotDue, Returned, HoldoffInv
  <2> QED  BY <1>1, <1>2, <2>1 DEF HoldoffInv
<1>6. CASE PrimaryEmpty
  <2>1. /\ active = 0 /\ active' = 0 /\ return_start' = return_start /\ pc = "primary"
        /\ pc' \in {"secondary", "idle", "stopped"}
        /\ pc' = "secondary" => primary_is_silent_beyond_outage
    BY <1>6 DEF PrimaryEmpty, EnterOutage, Returned, HoldoffInv
  <2> QED  BY <1>1, <2>1 DEF HoldoffInv
<1>7. CASE SecondaryStep
  <2>1. /\ pc = "secondary" /\ active' = 1 /\ return_start' = return_start
        /\ pc' \in {"secondary", "idle"}
    BY <1>7 DEF SecondaryStep
  <2>2. CASE active = 0
    <3>1. return_start' = 0
      BY <2>1, <2>2 DEF HoldoffInv
    <3> QED  BY <1>1, <2>1, <3>1 DEF HoldoffInv
  <2>3. CASE active = 1
    <3>1. unfit_at' = unfit_at
      BY <2>1, <2>3 DEF Judge
    <3> QED  BY <1>1, <2>1, <2>3, <3>1 DEF HoldoffInv
  <2> QED  BY <1>0, <2>2, <2>3
<1>8. CASE SecondaryDone
  <2>1. /\ active' = active /\ return_start' = return_start /\ pc = "secondary"
        /\ pc' \in {"idle", "stopped"} /\ unfit_at' = unfit_at
    BY <1>8 DEF SecondaryDone, Returned, Judge
  <2> QED  BY <1>1, <2>1 DEF HoldoffInv
<1> QED  BY <1>3, <1>4, <1>5, <1>6, <1>7, <1>8 DEF EngineStep

LEMMA HoldoffInvStep ==
  ASSUME ~SlowDrain, EngineInv, HoldoffInv, [NetNext]_all_vars
  PROVE  HoldoffInv'
<1>0. /\ now \in Nat \ {0} /\ unfit_at \in Nat /\ unfit_at <= now /\ return_start \in Nat
  BY DEF EngineInv, TypeOK, HoldoffInv
<1>1. CASE NetNext /\ Step
  BY <1>1, HoldoffDrains DEF NetNext, Step
<1>2. CASE NetNext /\ \/ \E s \in Stream : Deliver(s) \/ Damage(s)
                      \/ Drain \/ Stop \/ Failure
  <2>1. /\ now' = now /\ active' = active /\ return_start' = return_start
        /\ pc' \in {"drain", "failed"} /\ pc # "drain"
    BY <1>2 DEF Deliver, Damage, Arrive, PushPacket, Drain, MainLoopDrain, Stop, Flush,
                Failure, SinkFails
  <2>2. unfit_at' = unfit_at
    BY <1>2, <2>1 DEF NetNext, Judge
  <2> QED  BY <1>0, <2>1, <2>2 DEF HoldoffInv
<1>3. CASE NetNext /\ Clock
  <2>1. /\ pc = "idle" /\ now' = now + 1 /\ UNCHANGED engine_vars
    BY <1>3 DEF Clock, Tick
  <2>2. unfit_at' = unfit_at
    BY <1>3, <2>1 DEF NetNext, Judge, engine_vars
  <2> QED  BY <1>0, <2>1, <2>2 DEF HoldoffInv, engine_vars
<1>4. CASE NetNext /\ (Ended \/ \E s \in Stream : Lose(s))
  <2>1. UNCHANGED vars
    BY <1>4 DEF Ended, Lose
  <2>2. unfit_at' = unfit_at
    BY <1>4, <2>1 DEF NetNext, Judge, vars, engine_vars
  <2> QED  BY <2>1, <2>2 DEF HoldoffInv, vars, engine_vars, primary_is_silent_beyond_outage
<1>5. CASE UNCHANGED all_vars
  BY <1>5 DEF HoldoffInv, all_vars, vars, engine_vars, primary_is_silent_beyond_outage
<1> QED  BY <1>1, <1>2, <1>3, <1>4, <1>5 DEF NetNext

\* Output returns to the primary in one place only.
LEMMA ReturnWaits ==
  ASSUME EngineInv, HoldoffInv, [NetNext]_all_vars, active = 1, active' = 0
  PROVE  now - unfit_at >= PrimaryReturn
<1>1. DrainPrimary
  BY DEF NetNext, Deliver, Damage, Lose, Arrive, PushPacket, Drain, MainLoopDrain, Step,
         EngineStep, DrainNotReady, DrainNothing, PrimaryStep, PrimaryNotDue, PrimaryEmpty,
         SecondaryStep, SecondaryDone, Clock, Tick, Stop, Flush, Failure, SinkFails, Ended,
         all_vars, vars, engine_vars
<1>2. /\ primary_return_holdoff_elapsed
      /\ HoldoffStart # 0 /\ unfit_at <= HoldoffStart
  BY <1>1, HoldoffStartHolds DEF DrainPrimary
<1>3. now - HoldoffStart >= PrimaryReturn
  BY <1>2 DEF primary_return_holdoff_elapsed
<1>4. now \in Nat /\ unfit_at \in Nat /\ HoldoffStart \in Nat /\ PrimaryReturn \in Nat
  BY EngineAssumption, HoldoffType DEF EngineInv, TypeOK, HoldoffInv
<1> QED  BY <1>2, <1>3, <1>4

(***************************************************************************)
(* primary_return_holdoff_elapsed, for every outage limit, hold-off and    *)
(* delay and any feeds: as long as no call of recovery_engine_drain lasts  *)
(* from one reading of the clock to the next, output returns to the        *)
(* primary no sooner than primary_return_ns after it was given up or found *)
(* silent.                                                                 *)
(***************************************************************************)
THEOREM HoldoffIsKept ==
  ASSUME ~SlowDrain
  PROVE  NetSpec => HoldoffRespected
<1>1. NetInit => HoldoffInv
  BY DEF NetInit, Init, HoldoffInv
<1>2. EngineInv /\ HoldoffInv /\ [NetNext]_all_vars => HoldoffInv'
  BY HoldoffInvStep
<1>3. NetSpec => []EngineInv
  BY FeedsImplementEngine, EngineInvariant, PTL
<1>4. EngineInv /\ HoldoffInv /\ [NetNext]_all_vars
        => [active = 1 /\ active' = 0 => now - unfit_at >= PrimaryReturn]_all_vars
  BY ReturnWaits
<1> QED  BY <1>1, <1>2, <1>3, <1>4, PTL DEF NetSpec, HoldoffRespected

(***************************************************************************)
(* The state of the feeds and of the engine between them is well typed.    *)
(***************************************************************************)
THEOREM FeedsAreTyped == NetSpec => []NetTypeOK
<1>1. NetInit => unfit_at \in Nat
  BY DEF NetInit
<1>2. EngineInv /\ unfit_at \in Nat /\ [NetNext]_all_vars => (unfit_at \in Nat)'
  BY DEF EngineInv, TypeOK, NetNext, Judge, all_vars
<1>3. NetSpec => []EngineInv
  BY FeedsImplementEngine, EngineInvariant, PTL
<1>4. EngineInv /\ FeedInv /\ unfit_at \in Nat => NetTypeOK
  BY DEF EngineInv, FeedInv, NetTypeOK
<1> QED  BY <1>1, <1>2, <1>3, <1>4, FeedInvariant, PTL DEF NetSpec

-----------------------------------------------------------------------------
(***************************************************************************)
(* The alignment.  What the histories hold is what arrived, and an offset  *)
(* that is stored has its evidence among what arrived: a run of matching   *)
(* packets as long as the threshold, or one packet with a PCR of its own.  *)
(***************************************************************************)
Arrived(c, s, r) == r.idx + 1 \in DOMAIN c[s] /\ c[s][r.idx + 1] = r.pkt

HistoryArrived ==
  \A s \in Stream :
    /\ Len(carried[s]) = next_index[s]
    /\ \A k \in DOMAIN history[s] : Arrived(carried, s, history[s][k])

OfPacket(p) == [pkt |-> p]

ConfirmedPair(c, i, j) ==
  \A n \in 0 .. MatchThreshold - 1 :
    /\ i - n \in DOMAIN c[0] /\ j - n \in DOMAIN c[1]
    /\ records_match(OfPacket(c[0][i - n]), OfPacket(c[1][j - n]))

TimedPair(c, i, j) ==
  /\ i \in DOMAIN c[0] /\ j \in DOMAIN c[1]
  /\ c[0][i].pcr # NoPcr /\ c[0][i].pcr = c[1][j].pcr
  /\ records_exact_non_error_match(OfPacket(c[0][i]), OfPacket(c[1][j]))

Evidence(c, i, j) == ConfirmedPair(c, i, j) \/ TimedPair(c, i, j)

Evidenced(c, al) == al.has => \E i \in DOMAIN c[0] : Evidence(c, i, i + al.offset)

AlignmentHasEvidence == Evidenced(carried, align)

AlignInv == HistoryArrived /\ AlignmentHasEvidence

\* The matching of records looks at nothing but their packets.
LEMMA MatchOfPackets ==
  ASSUME NEW a, NEW b
  PROVE  /\ records_match(a, b) => records_match(OfPacket(a.pkt), OfPacket(b.pkt))
         /\ records_match(a, b) => records_match(OfPacket(b.pkt), OfPacket(a.pkt))
         /\ records_exact_non_error_match(a, b) =>
              /\ records_exact_non_error_match(OfPacket(a.pkt), OfPacket(b.pkt))
              /\ records_exact_non_error_match(OfPacket(b.pkt), OfPacket(a.pkt))
BY DEF records_match, records_exact_non_error_match, record_is_informative, SameContent,
       IsNull, Damaged, OfPacket

\* What push and retention leave of a history was in it, or is the new record.
LEMMA HistoryMembers ==
  ASSUME NEW h \in Seq(Record), NEW r \in Record, NEW t,
         NEW k \in DOMAIN Retained(packet_history_push(h, r), t)
  PROVE  \/ Retained(packet_history_push(h, r), t)[k] = r
         \/ \E l \in DOMAIN h : Retained(packet_history_push(h, r), t)[k] = h[l]
<1> DEFINE pushed == packet_history_push(h, r)
           recent == {j \in DOMAIN pushed : ~(pushed[j].at < t - Retention)}
<1>1. /\ pushed \in Seq(Record)
      /\ \A j \in DOMAIN pushed : pushed[j] = r \/ \E l \in DOMAIN h : pushed[j] = h[l]
  <2>1. Len(h) \in Nat /\ DOMAIN h = 1 .. Len(h)
    BY LenProperties
  <2>2. CASE Len(h) < Capacity
    <3>1. pushed = Append(h, r)
      BY <2>2 DEF packet_history_push
    <3>2. /\ Append(h, r) \in Seq(Record) /\ Len(Append(h, r)) = Len(h) + 1
          /\ \A j \in 1 .. Len(h) : Append(h, r)[j] = h[j]
          /\ Append(h, r)[Len(h) + 1] = r
      BY AppendProperties
    <3>3. DOMAIN Append(h, r) = 1 .. Len(h) + 1
      BY <3>2, LenProperties
    <3> QED  BY <2>1, <3>1, <3>2, <3>3
  <2>3. CASE ~(Len(h) < Capacity)
    <3> DEFINE rest == Tail(h)
    <3>1. pushed = Append(rest, r)
      BY <2>3 DEF packet_history_push
    <3>2. h # << >>
      BY <2>1, <2>3, EmptySeq, BufferAssumption
    <3>3. /\ rest \in Seq(Record) /\ Len(rest) = Len(h) - 1
          /\ \A j \in 1 .. Len(rest) : rest[j] = h[j + 1]
      BY <3>2, HeadTailProperties
    <3> HIDE DEF rest
    <3>4. /\ Append(rest, r) \in Seq(Record) /\ Len(Append(rest, r)) = Len(rest) + 1
          /\ \A j \in 1 .. Len(rest) : Append(rest, r)[j] = rest[j]
          /\ Append(rest, r)[Len(rest) + 1] = r
      BY <3>3, AppendProperties
    <3>5. DOMAIN Append(rest, r) = 1 .. Len(rest) + 1
      BY <3>4, LenProperties
    <3>6. ASSUME NEW j \in 1 .. Len(rest)
          PROVE  j + 1 \in DOMAIN h /\ Append(rest, r)[j] = h[j + 1]
      BY <2>1, <3>3, <3>4
    <3> HIDE DEF pushed
    <3>7. ASSUME NEW j \in 1 .. Len(rest) + 1
          PROVE  pushed[j] = r \/ \E l \in DOMAIN h : pushed[j] = h[l]
      <4>1. CASE j = Len(rest) + 1
        BY <3>1, <3>4, <4>1
      <4>2. CASE j \in 1 .. Len(rest)
        BY <3>1, <3>6, <4>2
      <4> QED  BY <2>1, <3>3, <3>7, <4>1, <4>2
    <3> QED  BY <3>1, <3>4, <3>5, <3>7
  <2> QED  BY <2>2, <2>3
<1> HIDE DEF pushed
<1>2. CASE Retained(pushed, t) = pushed
  BY <1>1, <1>2 DEF pushed
<1>3. CASE Retained(pushed, t) = IF recent = {} THEN << >>
                                 ELSE SubSeq(pushed, Min(recent), Len(pushed))
  <2>1. DOMAIN << >> = {} /\ DOMAIN pushed = 1 .. Len(pushed) /\ Len(pushed) \in Nat
    BY <1>1, EmptySeq, LenProperties
  <2>2. recent # {}
    BY <1>3, <2>1 DEF pushed
  <2>3. recent \in SUBSET Nat
    BY <2>1
  <2>4. Min(recent) \in DOMAIN pushed
    BY <2>2, <2>3, MinOfNaturals
  <2> DEFINE a == Min(recent)
             q == SubSeq(pushed, a, Len(pushed))
  <2> HIDE DEF a, recent
  <2>5. a \in 1 .. Len(pushed) /\ Retained(pushed, t) = q
    BY <1>3, <2>1, <2>2, <2>4 DEF a
  <2>6. Len(q) = Len(pushed) - a + 1 /\ \A j \in 1 .. Len(q) : q[j] = pushed[a + j - 1]
    BY <1>1, <2>1, <2>5, SubSeqProperties
  <2>7. q \in Seq(Record)
    BY <1>1, <2>1, <2>5, StretchType
  <2>8. DOMAIN q = 1 .. Len(q)
    BY <2>7, LenProperties
  <2> HIDE DEF q
  <2>9. k \in 1 .. Len(q) /\ a + k - 1 \in DOMAIN pushed
    BY <2>1, <2>5, <2>6, <2>8 DEF pushed
  <2> QED  BY <1>1, <2>5, <2>6, <2>9 DEF pushed
<1> QED  BY <1>2, <1>3 DEF Retained, packet_history_prune_older_than, DropWhile

\* A packet more that arrives leaves the others where they were.
LEMMA ArrivedStays ==
  ASSUME NEW q \in Seq(Packet), NEW q1, NEW pkt \in Packet,
         q1 \in {q, Append(q, pkt)}, NEW i \in DOMAIN q
  PROVE  i \in DOMAIN q1 /\ q1[i] = q[i]
<1>1. Len(q) \in Nat /\ DOMAIN q = 1 .. Len(q)
  BY LenProperties
<1>2. /\ Append(q, pkt) \in Seq(Packet) /\ Len(Append(q, pkt)) = Len(q) + 1
      /\ \A j \in 1 .. Len(q) : Append(q, pkt)[j] = q[j]
  BY AppendProperties
<1>3. DOMAIN Append(q, pkt) = 1 .. Len(q) + 1
  BY <1>2, LenProperties
<1> QED  BY <1>1, <1>2, <1>3

LEMMA EvidenceStays ==
  ASSUME NEW c, NEW c1,
         \A s \in Stream : \A l \in DOMAIN c[s] : l \in DOMAIN c1[s] /\ c1[s][l] = c[s][l],
         NEW i \in Int, NEW j \in Int, Evidence(c, i, j)
  PROVE  Evidence(c1, i, j)
<1>1. CASE ConfirmedPair(c, i, j)
  BY <1>1 DEF ConfirmedPair, Stream, Evidence
<1>2. CASE TimedPair(c, i, j)
  BY <1>2 DEF TimedPair, Stream, Evidence
<1> QED  BY <1>1, <1>2 DEF Evidence

\* A record of one stream and one of the other that match, seen from either
\* stream, with the places they stand for.
PairHasEvidence(c, s, r, m) ==
  IF s = 0 THEN Evidence(c, r.idx + 1, m.idx + 1) ELSE Evidence(c, m.idx + 1, r.idx + 1)

\* find_confirmed_matching_record_near compares records that arrived, a whole
\* run of them.
LEMMA ConfirmedNearIsEvidence ==
  ASSUME NEW c, NEW s \in Stream, NEW self \in Seq(Record), NEW other \in Seq(Record),
         \A k \in DOMAIN self : Arrived(c, s, self[k]),
         \A k \in DOMAIN other : Arrived(c, 1 - s, other[k]),
         NEW r \in Record, Arrived(c, s, r), NEW e, NEW radius,
         NEW m \in ConfirmedNear(self, other, r, e, radius)
  PROVE  m \in Record /\ Arrived(c, 1 - s, m) /\ PairHasEvidence(c, s, r, m)
<1>1. /\ m \in Record /\ Arrived(c, 1 - s, m)
      /\ records_match(r, m) /\ has_confirmed_backward_run(self, other, r, m)
  BY ElementOfSeq DEF ConfirmedNear
<1>2. r.idx \in Nat /\ m.idx \in Nat /\ MatchThreshold \in Nat \ {0}
  BY <1>1, EngineAssumption DEF Record
<1>3. ASSUME NEW n \in 0 .. MatchThreshold - 1
      PROVE  \E a, b : /\ records_match(a, b) /\ Arrived(c, s, a) /\ Arrived(c, 1 - s, b)
                       /\ a.idx = r.idx - n /\ b.idx = m.idx - n
  <2>1. CASE n = 0
    BY <1>1, <1>2, <2>1
  <2>2. CASE n \in 1 .. MatchThreshold - 1
    BY <1>1, <2>2 DEF has_confirmed_backward_run, packet_history_find_index
  <2> QED  BY <1>2, <2>1, <2>2
<1>4. CASE s = 0
  <2>1. ASSUME NEW n \in 0 .. MatchThreshold - 1
        PROVE  /\ (r.idx + 1) - n \in DOMAIN c[0] /\ (m.idx + 1) - n \in DOMAIN c[1]
               /\ records_match(OfPacket(c[0][(r.idx + 1) - n]),
                                OfPacket(c[1][(m.idx + 1) - n]))
    <3>1. PICK a, b : /\ records_match(a, b) /\ Arrived(c, 0, a) /\ Arrived(c, 1, b)
                      /\ a.idx = r.idx - n /\ b.idx = m.idx - n
      BY <1>3, <1>4
    <3>2. a.idx + 1 = (r.idx + 1) - n /\ b.idx + 1 = (m.idx + 1) - n
      BY <1>2, <3>1
    <3>3. records_match(OfPacket(a.pkt), OfPacket(b.pkt))
      BY <3>1, MatchOfPackets
    <3> QED  BY <3>1, <3>2, <3>3 DEF Arrived
  <2> QED  BY <1>1, <1>4, <2>1 DEF PairHasEvidence, Evidence, ConfirmedPair
<1>5. CASE s = 1
  <2>1. ASSUME NEW n \in 0 .. MatchThreshold - 1
        PROVE  /\ (m.idx + 1) - n \in DOMAIN c[0] /\ (r.idx + 1) - n \in DOMAIN c[1]
               /\ records_match(OfPacket(c[0][(m.idx + 1) - n]),
                                OfPacket(c[1][(r.idx + 1) - n]))
    <3>1. PICK a, b : /\ records_match(a, b) /\ Arrived(c, 1, a) /\ Arrived(c, 0, b)
                      /\ a.idx = r.idx - n /\ b.idx = m.idx - n
      BY <1>3, <1>5
    <3>2. a.idx + 1 = (r.idx + 1) - n /\ b.idx + 1 = (m.idx + 1) - n
      BY <1>2, <3>1
    <3>3. records_match(OfPacket(b.pkt), OfPacket(a.pkt))
      BY <3>1, MatchOfPackets
    <3> QED  BY <3>1, <3>2, <3>3 DEF Arrived
  <2> QED  BY <1>1, <1>5, <2>1 DEF PairHasEvidence, Evidence, ConfirmedPair
<1> QED  BY <1>4, <1>5 DEF Stream

\* A record of the other stream with the same PCR is evidence by itself.
LEMMA PcrMatchIsEvidence ==
  ASSUME NEW c, NEW s \in Stream, NEW other \in Seq(Record),
         \A k \in DOMAIN other : Arrived(c, 1 - s, other[k]),
         NEW r \in Record, Arrived(c, s, r), r.pkt.pcr # NoPcr,
         NEW m \in find_matching_pcr_record(other, r), records_exact_non_error_match(r, m)
  PROVE  m \in Record /\ Arrived(c, 1 - s, m) /\ PairHasEvidence(c, s, r, m)
<1>1. m \in Record /\ Arrived(c, 1 - s, m) /\ m.pkt.pcr = r.pkt.pcr
  BY ElementOfSeq DEF find_matching_pcr_record
<1>2. /\ records_exact_non_error_match(OfPacket(r.pkt), OfPacket(m.pkt))
      /\ records_exact_non_error_match(OfPacket(m.pkt), OfPacket(r.pkt))
  BY MatchOfPackets
<1>3. CASE s = 0
  BY <1>1, <1>2, <1>3 DEF PairHasEvidence, Evidence, TimedPair, Arrived
<1>4. CASE s = 1
  BY <1>1, <1>2, <1>4 DEF PairHasEvidence, Evidence, TimedPair, Arrived
<1> QED  BY <1>1, <1>3, <1>4 DEF Stream

LEMMA MatchIsEvidenced ==
  ASSUME NEW c, NEW s \in Stream, NEW r \in Record, NEW m \in Record,
         Arrived(c, s, r), Arrived(c, 1 - s, m), PairHasEvidence(c, s, r, m)
  PROVE  Evidenced(c, update_alignment_from_match(s, r, m))
<1>1. r.idx \in Nat /\ m.idx \in Nat
  BY DEF Record
<1>2. CASE s = 0
  <2>1. (r.idx + 1) + (m.idx - r.idx) = m.idx + 1
    BY <1>1
  <2> QED  BY <1>2, <2>1 DEF Evidenced, update_alignment_from_match, PairHasEvidence, Arrived
<1>3. CASE s = 1
  <2>1. (m.idx + 1) + (r.idx - m.idx) = r.idx + 1
    BY <1>1
  <2> QED  BY <1>3, <2>1 DEF Evidenced, update_alignment_from_match, PairHasEvidence, Arrived
<1> QED  BY <1>2, <1>3 DEF Stream

\* update_pcr_timing and update_alignment store no offset without evidence.
LEMMA UpdatesAreEvidenced ==
  ASSUME NEW c, NEW s \in Stream, NEW self \in Seq(Record), NEW other \in Seq(Record),
         \A k \in DOMAIN self : Arrived(c, s, self[k]),
         \A k \in DOMAIN other : Arrived(c, 1 - s, other[k]),
         NEW r \in Record, Arrived(c, s, r), NEW al \in Alignment, Evidenced(c, al)
  PROVE  /\ Evidenced(c, update_pcr_timing(al, other, s, r))
         /\ Evidenced(c, update_alignment(al, self, other, s, r))
<1>1. Evidenced(c, update_pcr_timing(al, other, s, r))
  <2> DEFINE match == find_matching_pcr_record(other, r)
             m == CHOOSE x \in match : TRUE
             hit == /\ r.pkt.pcr # NoPcr /\ ~Damaged(r)
                    /\ match # {} /\ records_exact_non_error_match(r, m)
  <2>1. update_pcr_timing(al, other, s, r) =
          IF hit THEN update_alignment_from_match(s, r, m) ELSE al
    BY DEF update_pcr_timing
  <2>2. hit => m \in match
    OBVIOUS
  <2>3. hit => m \in Record /\ Arrived(c, 1 - s, m) /\ PairHasEvidence(c, s, r, m)
    BY <2>2, PcrMatchIsEvidence
  <2> HIDE DEF m, hit
  <2> QED  BY <2>1, <2>3, MatchIsEvidenced
<1>2. Evidenced(c, update_alignment(al, self, other, s, r))
  <2> DEFINE expected == IF s = 0 THEN r.idx + al.offset ELSE r.idx - al.offset
             aligned  == IF al.has THEN ConfirmedNear(self, other, r, expected, BoundaryExtra)
                         ELSE {}
             same     == ConfirmedNear(self, other, r, r.idx, BoundaryExtra)
             probe    == r.idx % ProbeInterval = 0
             wide     == IF probe THEN ConfirmedNear(self, other, r, r.idx, SearchRadius)
                         ELSE {}
             found    == IF aligned # {} THEN aligned ELSE IF same # {} THEN same ELSE wide
  <2>1. \A m \in found : m \in Record /\ Arrived(c, 1 - s, m) /\ PairHasEvidence(c, s, r, m)
    BY ConfirmedNearIsEvidence
  <2>2. update_alignment(al, self, other, s, r) =
          IF ~record_is_informative(r) THEN al
          ELSE IF found # {} THEN update_alignment_from_match(s, r, Oldest(found))
          ELSE Missed(al, probe)
    BY DEF update_alignment
  <2> HIDE DEF found, probe
  <2>3. found # {} => Oldest(found) \in found
    BY <2>1, OldestIsMember
  <2>4. Evidenced(c, Missed(al, probe))
    BY DEF Missed, Evidenced, Alignment
  <2> DEFINE m == Oldest(found)
  <2> HIDE DEF m
  <2>5. found # {} => Evidenced(c, update_alignment_from_match(s, r, m))
    BY <2>1, <2>3, MatchIsEvidenced DEF m
  <2> QED  BY <2>2, <2>4, <2>5 DEF m
<1> QED  BY <1>1, <1>2

\* A packet arrives: it joins its history, and the alignment follows.
LEMMA AlignArrival ==
  ASSUME EngineInv, FeedInv, AlignInv, NEW s \in Stream, NEW pkt \in Packet, Arrive(s, pkt)
  PROVE  AlignInv'
<1> DEFINE r == [pkt |-> pkt, src |-> s, idx |-> next_index[s], at |-> now]
           self == Retained(packet_history_push(history[s], r), now)
           other == history[1 - s]
           al == update_pcr_timing(align, other, s, r)
<1>1. /\ next_index \in [Stream -> Nat] /\ next_index[s] \in Nat /\ now \in Nat
      /\ history \in [Stream -> Seq(Record)] /\ align \in Alignment
      /\ history[s] \in Seq(Record) /\ 1 - s \in Stream /\ other \in Seq(Record)
      /\ carried \in [Stream -> Seq(Packet)] /\ carried[s] \in Seq(Packet)
  <2>1. /\ next_index \in [Stream -> Nat] /\ now \in Nat
        /\ history \in [Stream -> Seq(Record)] /\ align \in Alignment
        /\ carried \in [Stream -> Seq(Packet)]
    BY DEF EngineInv, TypeOK, FeedInv
  <2>2. 1 - s \in Stream
    BY DEF Stream
  <2> QED  BY <2>1, <2>2
<1>2. /\ history' = [history EXCEPT ![s] = self]
      /\ next_index' = [next_index EXCEPT ![s] = next_index[s] + 1]
      /\ align' = update_alignment(al, self, other, s, r)
      /\ carried' = [carried EXCEPT ![s] = Append(carried[s], pkt)]
  BY DEF Arrive, PushPacket
<1>3. r \in Record /\ r.idx = next_index[s] /\ r.pkt = pkt
  BY <1>1 DEF Record
<1>4. self \in Seq(Record)
  <2>1. RowOf(history[s], next_index[s])
    BY DEF EngineInv, Rows
  <2> HIDE DEF r
  <2>2. RowOf(packet_history_push(history[s], r), next_index[s] + 1)
    BY <1>1, <1>3, <2>1, PushedRow
  <2>3. RowOf(self, next_index[s] + 1)
    BY <1>1, <2>2, RetainedRow
  <2> QED  BY <2>3 DEF RowOf
<1>5. Len(carried[s]) = next_index[s]
  BY DEF AlignInv, HistoryArrived
<1>6. /\ Append(carried[s], pkt) \in Seq(Packet)
      /\ Len(Append(carried[s], pkt)) = next_index[s] + 1
      /\ Append(carried[s], pkt)[next_index[s] + 1] = pkt
  BY <1>1, <1>5, AppendProperties
<1>7. DOMAIN Append(carried[s], pkt) = 1 .. next_index[s] + 1
  BY <1>6, LenProperties
<1>8. \A z \in Stream : Len(carried'[z]) = next_index'[z]
  BY <1>1, <1>2, <1>6 DEF AlignInv, HistoryArrived
<1>9. Arrived(carried', s, r)
  BY <1>1, <1>2, <1>3, <1>6, <1>7 DEF Arrived
<1>10. \A z \in Stream : \A l \in DOMAIN carried[z] :
          l \in DOMAIN carried'[z] /\ carried'[z][l] = carried[z][l]
  <2> SUFFICES ASSUME NEW z \in Stream, NEW l \in DOMAIN carried[z]
               PROVE  l \in DOMAIN carried'[z] /\ carried'[z][l] = carried[z][l]
    OBVIOUS
  <2>1. carried'[z] \in {carried[z], Append(carried[z], pkt)} /\ carried[z] \in Seq(Packet)
    BY <1>1, <1>2
  <2> QED  BY <2>1, ArrivedStays
<1>11. \A z \in Stream : \A k \in DOMAIN history[z] : Arrived(carried', z, history[z][k])
  BY <1>10 DEF AlignInv, HistoryArrived, Arrived
<1> HIDE DEF r
<1>12. \A k \in DOMAIN self : Arrived(carried', s, self[k])
  <2> SUFFICES ASSUME NEW k \in DOMAIN self PROVE Arrived(carried', s, self[k])
    OBVIOUS
  <2>1. self[k] = r \/ \E l \in DOMAIN history[s] : self[k] = history[s][l]
    BY <1>1, <1>3, HistoryMembers
  <2> QED  BY <1>9, <1>11, <2>1
<1>13. \A k \in DOMAIN other : Arrived(carried', 1 - s, other[k])
  BY <1>1, <1>11
<1> HIDE DEF self, other
<1>14. HistoryArrived'
  <2>1. ASSUME NEW z \in Stream, NEW k \in DOMAIN history'[z]
        PROVE  Arrived(carried', z, history'[z][k])
    BY <1>1, <1>2, <1>11, <1>12, <2>1
  <2> QED  BY <1>8, <2>1 DEF HistoryArrived
<1>15. Evidenced(carried', align)
  <2> SUFFICES ASSUME align.has
               PROVE  \E i \in DOMAIN carried'[0] :
                        Evidence(carried', i, i + align.offset)
    BY DEF Evidenced
  <2>1. PICK i \in DOMAIN carried[0] : Evidence(carried, i, i + align.offset)
    BY DEF AlignInv, AlignmentHasEvidence, Evidenced
  <2>2. i \in Int /\ i + align.offset \in Int
    <3>1. carried[0] \in Seq(Packet) /\ align.offset \in Int
      BY <1>1 DEF Stream, Alignment
    <3>2. DOMAIN carried[0] = 1 .. Len(carried[0]) /\ Len(carried[0]) \in Nat
      BY <3>1, LenProperties
    <3> QED  BY <3>1, <3>2
  <2>3. Evidence(carried', i, i + align.offset)
    BY <1>10, <2>1, <2>2, EvidenceStays
  <2> QED  BY <1>10, <2>3 DEF Stream
<1>16. Evidenced(carried', align')
  <2>1. Evidenced(carried', al)
    BY <1>1, <1>3, <1>4, <1>9, <1>12, <1>13, <1>15, UpdatesAreEvidenced
  <2>2. al \in Alignment
    BY <1>1, <1>3, AlignmentType DEF other
  <2> HIDE DEF al
  <2> QED  BY <1>1, <1>2, <1>3, <1>4, <1>9, <1>12, <1>13, <2>1, <2>2, UpdatesAreEvidenced
<1> QED  BY <1>14, <1>16 DEF AlignInv, AlignmentHasEvidence

LEMMA AlignInvStep ==
  ASSUME EngineInv, FeedInv, AlignInv, [NetNext]_all_vars
  PROVE  AlignInv'
<1>1. ASSUME NEW s \in Stream, Deliver(s) \/ Damage(s)
      PROVE  AlignInv'
  <2>1. upto[s] < Len(Source) /\ Source[upto[s] + 1] \in Packet
    BY <1>1, SourceType DEF Deliver, Damage
  <2>2. [Source[upto[s] + 1] EXCEPT !.tei = TRUE] \in Packet
    BY <2>1 DEF Packet
  <2>3. \E pkt \in Packet : Arrive(s, pkt)
    BY <1>1, <2>1, <2>2 DEF Deliver, Damage
  <2> QED  BY <2>3, AlignArrival
<1>2. CASE \/ \E s \in Stream : Lose(s)
           \/ Drain \/ Step \/ Clock \/ Stop \/ Failure \/ Ended \/ UNCHANGED all_vars
  <2>1. UNCHANGED <<history, next_index, align, carried>>
    BY <1>2 DEF Lose, Drain, MainLoopDrain, Step, EngineStep, DrainNotReady, DrainNothing,
                DrainPrimary, PrimaryStep, PrimaryNotDue, PrimaryEmpty, SecondaryStep,
                SecondaryDone, Clock, Tick, Stop, Flush, Failure, SinkFails, Ended,
                all_vars, net_vars, vars, engine_vars
  <2> QED  BY <2>1 DEF AlignInv, HistoryArrived, AlignmentHasEvidence
<1> QED  BY <1>1, <1>2 DEF NetNext

LEMMA AlignInvariant == NetSpec => []AlignInv
<1>1. NetInit => AlignInv
  BY EmptySeq DEF NetInit, Init, AlignInv, HistoryArrived, AlignmentHasEvidence, Evidenced
<1>2. EngineInv /\ FeedInv /\ AlignInv /\ [NetNext]_all_vars => AlignInv'
  BY AlignInvStep
<1>3. NetSpec => []EngineInv
  BY FeedsImplementEngine, EngineInvariant, PTL
<1> QED  BY <1>1, <1>2, <1>3, FeedInvariant, PTL DEF NetSpec

\* No two places of the feeds look the same to update_alignment or
\* update_pcr_timing that do not carry the same packet of the broadcast.
Unmistakable ==
  \A i \in DOMAIN carried[0], j \in DOMAIN carried[1] :
    Evidence(carried, i, j) => carried[0][i].pos = carried[1][j].pos

LEMMA EvidenceInFeeds ==
  ASSUME NEW c, NEW i \in Int, NEW j \in Int, Evidence(c, i, j)
  PROVE  i \in DOMAIN c[0] /\ j \in DOMAIN c[1]
<1>1. 0 \in 0 .. MatchThreshold - 1 /\ i - 0 = i /\ j - 0 = j
  BY EngineAssumption
<1> QED  BY <1>1 DEF Evidence, ConfirmedPair, TimedPair

LEMMA EvidenceIsReal ==
  ASSUME EngineInv, FeedInv, AlignInv, Unmistakable
  PROVE  AlignmentIsReal
<1> SUFFICES ASSUME align.has
             PROVE  \E i \in DOMAIN carried[0] :
                      /\ i + align.offset \in DOMAIN carried[1]
                      /\ carried[0][i].pos = carried[1][i + align.offset].pos
  BY DEF AlignmentIsReal
<1>1. PICK i \in DOMAIN carried[0] : Evidence(carried, i, i + align.offset)
  BY DEF AlignInv, AlignmentHasEvidence, Evidenced
<1>2. i \in Int /\ i + align.offset \in Int
  <2>1. carried[0] \in Seq(Packet) /\ align.offset \in Int
    BY DEF FeedInv, Stream, EngineInv, TypeOK, Alignment
  <2>2. DOMAIN carried[0] = 1 .. Len(carried[0]) /\ Len(carried[0]) \in Nat
    BY <2>1, LenProperties
  <2> QED  BY <2>1, <2>2
<1>3. i + align.offset \in DOMAIN carried[1]
  BY <1>1, <1>2, EvidenceInFeeds
<1> QED  BY <1>1, <1>3 DEF Unmistakable

(***************************************************************************)
(* update_alignment_from_match, for any feeds, losses and thresholds: the  *)
(* offset is wrong only where the feeds are ambiguous.  As long as no run  *)
(* of RECOVERY_ENGINE_ALIGNMENT_MATCH_THRESHOLD packets of one feed        *)
(* matches a run of other packets in the other, and no packet with a PCR   *)
(* equals another, it is that of a packet which both feeds did carry.      *)
(***************************************************************************)
THEOREM AlignmentIsUnambiguous == NetSpec => [](Unmistakable => AlignmentIsReal)
<1>1. EngineInv /\ FeedInv /\ AlignInv => (Unmistakable => AlignmentIsReal)
  BY EvidenceIsReal
<1>2. NetSpec => []EngineInv
  BY FeedsImplementEngine, EngineInvariant, PTL
<1> QED  BY <1>1, <1>2, AlignInvariant, FeedInvariant, PTL

-----------------------------------------------------------------------------
(***************************************************************************)
(* Broadcasts that leave no doubt: two packets that are equal to           *)
(* records_exact_non_error_match, and not null packets without a PCR, are  *)
(* the same one.                                                           *)
(***************************************************************************)
DistinctContent ==
  \A sc \in Scenarios : \A k, l \in DOMAIN sc.source :
    /\ SameContent(OfPacket(sc.source[k]), OfPacket(sc.source[l]))
    /\ sc.source[k].pid # NullPid \/ sc.source[k].pcr # NoPcr
    => k = l

\* What a feed carries is a packet of the broadcast, or one with its transport
\* error set.
FromSource ==
  \A s \in Stream : \A i \in DOMAIN carried[s] :
    \E k \in DOMAIN Source :
      carried[s][i] = Source[k] \/ carried[s][i] = [Source[k] EXCEPT !.tei = TRUE]

LEMMA FromSourceStep == FeedInv /\ FromSource /\ [NetNext]_all_vars => FromSource'
<1> SUFFICES ASSUME FeedInv, FromSource, [NetNext]_all_vars PROVE FromSource'
  OBVIOUS
<1>1. ASSUME NEW s \in Stream, Deliver(s) \/ Damage(s) PROVE FromSource'
  <2>1. PICK pkt : /\ carried' = [carried EXCEPT ![s] = Append(carried[s], pkt)]
                   /\ \/ pkt = Source[upto[s] + 1]
                      \/ pkt = [Source[upto[s] + 1] EXCEPT !.tei = TRUE]
    BY <1>1 DEF Deliver, Damage, Arrive
  <2>2. Source' = Source
    BY <1>1 DEF Deliver, Damage, Arrive, Source
  <2>3. upto[s] + 1 \in DOMAIN Source /\ pkt \in Packet
    <3>1. upto[s] < Len(Source) /\ upto[s] \in Nat /\ Source \in Seq(Packet)
      BY <1>1, SourceType DEF Deliver, Damage, FeedInv
    <3>2. DOMAIN Source = 1 .. Len(Source) /\ Len(Source) \in Nat
      BY <3>1, LenProperties
    <3>3. Source[upto[s] + 1] \in Packet
      BY <3>1, SourceType
    <3>4. [Source[upto[s] + 1] EXCEPT !.tei = TRUE] \in Packet
      BY <3>3 DEF Packet
    <3>5. pkt \in Packet
      BY <2>1, <3>3, <3>4
    <3>6. upto[s] + 1 \in 1 .. Len(Source)
      BY <3>1, <3>2
    <3> QED  BY <3>2, <3>5, <3>6
  <2>4. carried[s] \in Seq(Packet) /\ carried \in [Stream -> Seq(Packet)]
    BY DEF FeedInv
  <2>5. /\ Append(carried[s], pkt) \in Seq(Packet) /\ Len(carried[s]) \in Nat
        /\ Len(Append(carried[s], pkt)) = Len(carried[s]) + 1
        /\ \A j \in 1 .. Len(carried[s]) : Append(carried[s], pkt)[j] = carried[s][j]
        /\ Append(carried[s], pkt)[Len(carried[s]) + 1] = pkt
    BY <2>3, <2>4, AppendProperties, LenProperties
  <2>6. /\ DOMAIN Append(carried[s], pkt) = 1 .. Len(carried[s]) + 1
        /\ DOMAIN carried[s] = 1 .. Len(carried[s])
    BY <2>4, <2>5, LenProperties
  <2>7. ASSUME NEW z \in Stream, NEW i \in DOMAIN carried'[z]
        PROVE  \/ i \in DOMAIN carried[z] /\ carried'[z][i] = carried[z][i]
               \/ carried'[z][i] = pkt
    <3>1. CASE z # s
      BY <2>1, <2>4, <2>7, <3>1
    <3>2. CASE z = s
      <4>1. carried'[z] = Append(carried[s], pkt)
        BY <2>1, <2>4, <3>2
      <4>2. i \in 1 .. Len(carried[s]) \/ i = Len(carried[s]) + 1
        BY <2>5, <2>6, <2>7, <4>1
      <4> QED  BY <2>5, <2>6, <3>2, <4>1, <4>2
    <3> QED  BY <3>1, <3>2
  <2>8. ASSUME NEW z \in Stream, NEW i \in DOMAIN carried'[z]
        PROVE  \E k \in DOMAIN Source : \/ carried'[z][i] = Source[k]
                                       \/ carried'[z][i] = [Source[k] EXCEPT !.tei = TRUE]
    <3>1. CASE carried'[z][i] = pkt
      BY <2>1, <2>3, <3>1
    <3>2. CASE i \in DOMAIN carried[z] /\ carried'[z][i] = carried[z][i]
      <4>1. PICK k \in DOMAIN Source : \/ carried[z][i] = Source[k]
                                       \/ carried[z][i] = [Source[k] EXCEPT !.tei = TRUE]
        BY <3>2 DEF FromSource
      <4> QED  BY <3>2, <4>1
    <3> QED  BY <2>7, <2>8, <3>1, <3>2
  <2> QED  BY <2>2, <2>8 DEF FromSource
<1>2. CASE \/ \E s \in Stream : Lose(s)
           \/ Drain \/ Step \/ Clock \/ Stop \/ Failure \/ Ended \/ UNCHANGED all_vars
  <2>1. UNCHANGED <<carried, Source>>
    BY <1>2 DEF Lose, Drain, Step, Clock, Stop, Failure, Ended, all_vars, net_vars, Source
  <2> QED  BY <2>1 DEF FromSource
<1> QED  BY <1>1, <1>2 DEF NetNext

LEMMA DistinctIsUnmistakable ==
  ASSUME DistinctContent, FeedInv, FromSource
  PROVE  Unmistakable
<1> SUFFICES ASSUME NEW i \in DOMAIN carried[0], NEW j \in DOMAIN carried[1],
                    Evidence(carried, i, j)
             PROVE  carried[0][i].pos = carried[1][j].pos
  BY DEF Unmistakable
<1> DEFINE a == OfPacket(carried[0][i])
           b == OfPacket(carried[1][j])
<1>0. Source \in Seq(Packet) /\ scenario \in Scenarios /\ \A k \in DOMAIN Source : Source[k] \in Packet
  BY SourceType, ElementOfSeq DEF FeedInv
<1>1. i \in Int /\ j \in Int
  <2>1. carried[0] \in Seq(Packet) /\ carried[1] \in Seq(Packet)
    BY DEF FeedInv, Stream
  <2> QED  BY <2>1, LenProperties
<1>2. /\ SameContent(a, b) /\ ~Damaged(a) /\ ~Damaged(b)
      /\ carried[0][i].pid # NullPid \/ carried[0][i].pcr # NoPcr
  <2>1. 0 \in 0 .. MatchThreshold - 1 /\ i - 0 = i /\ j - 0 = j
    BY <1>1, EngineAssumption
  <2>2. records_match(a, b) \/ (TimedPair(carried, i, j) /\ records_exact_non_error_match(a, b))
    BY <2>1 DEF Evidence, ConfirmedPair, TimedPair
  <2> QED  BY <2>2 DEF records_match, records_exact_non_error_match, record_is_informative,
                       IsNull, OfPacket, TimedPair
<1>3. PICK k \in DOMAIN Source :
         carried[0][i] = Source[k] \/ carried[0][i] = [Source[k] EXCEPT !.tei = TRUE]
  BY DEF FromSource, Stream
<1>4. PICK l \in DOMAIN Source :
         carried[1][j] = Source[l] \/ carried[1][j] = [Source[l] EXCEPT !.tei = TRUE]
  BY DEF FromSource, Stream
<1>5. carried[0][i] = Source[k] /\ carried[1][j] = Source[l]
  BY <1>0, <1>2, <1>3, <1>4 DEF Damaged, OfPacket, Packet
<1>6. k = l
  BY <1>0, <1>2, <1>5 DEF DistinctContent, Source
<1> QED  BY <1>5, <1>6

(***************************************************************************)
(* A broadcast whose content packets all differ, and any losses, damage,   *)
(* delays and thresholds: the offset that update_alignment_from_match      *)
(* stores is, at all times, that of a packet which both feeds did carry.   *)
(***************************************************************************)
THEOREM AlignmentOfDistinctContent ==
  ASSUME DistinctContent
  PROVE  NetSpec => []AlignmentIsReal
<1>1. NetInit => FromSource
  BY EmptySeq DEF NetInit, FromSource
<1>2. NetSpec => []FromSource
  BY <1>1, FromSourceStep, FeedInvariant, PTL DEF NetSpec
<1>3. FeedInv /\ FromSource => Unmistakable
  BY DistinctIsUnmistakable
<1> QED  BY <1>2, <1>3, AlignmentIsUnambiguous, FeedInvariant, PTL

-----------------------------------------------------------------------------
(***************************************************************************)
(* Continuity errors of the output.                                        *)
(***************************************************************************)
LEMMA BreaksOnTurn ==
  ASSUME EngineInv, [NetNext]_all_vars, pc = "primary",
         stats'["output_continuity_errors"] > stats["output_continuity_errors"],
         stats'["recovered_null"] = stats["recovered_null"]
  PROVE  stats'["rejects"] > stats["rejects"]
<1>1. \A c \in {"output_continuity_errors", "recovered_null", "rejects"} : stats[c] \in Nat
  BY DEF EngineInv, TypeOK, Stats, Counter
<1>2. PrimaryStep \/ UNCHANGED stats
  BY ZenonT(60) DEF NetNext, Deliver, Damage, Lose, Arrive, PushPacket, Drain, MainLoopDrain, Step,
         EngineStep, DrainNotReady, DrainNothing, DrainPrimary, PrimaryNotDue, PrimaryEmpty,
         SecondaryStep, SecondaryDone, Clock, Tick, Stop, Flush, Failure, SinkFails, Ended,
         all_vars, vars, engine_vars
<1>3. CASE UNCHANGED stats
  BY <1>1, <1>3
<1>4. CASE PrimaryStep
  <2> DEFINE p == Head(queue[0])
             d == Decide(View, p)
             rs == Sent(d, p)
  <2>1. queue[0] # << >> /\ stats' = OutputStats(DecisionStats(stats, d), rs)
    BY <1>4 DEF PrimaryStep
  <2>2. d \in Decision /\ rs \in Seq(Record) /\ stats \in Stats
    BY <2>1, FrontDecision DEF EngineInv, TypeOK
  <2>3. d.kind # "reject" /\ NullsIn(d.rs) = 0 => CountBreaks(rs) = 0
    BY <2>1, QuietTurn
  <2> HIDE DEF p, d, rs
  <2>4. /\ stats'["output_continuity_errors"]
             = stats["output_continuity_errors"] + CountBreaks(rs)
        /\ stats'["recovered_null"] = stats["recovered_null"] + NullsIn(d.rs)
        /\ stats'["rejects"] = stats["rejects"] + (IF d.kind = "reject" THEN 1 ELSE 0)
        /\ NullsIn(d.rs) \in Nat /\ CountBreaks(rs) \in Nat
    BY <2>1, <2>2, TurnStats
  <2> QED  BY <1>1, <2>3, <2>4
<1> QED  BY <1>2, <1>3, <1>4

(***************************************************************************)
(* A break of the counters at the output is reported, for every broadcast, *)
(* every history and every alignment: a turn of the loop of                *)
(* recovery_engine_drain that adds one either inserted nulls or counts a   *)
(* reject.                                                                 *)
(***************************************************************************)
THEOREM BreaksAreReported == NetSpec => BreakIsReported
<1>1. NetSpec => []EngineInv
  BY FeedsImplementEngine, EngineInvariant, PTL
<1>2. EngineInv /\ [NetNext]_all_vars =>
        [ /\ pc = "primary"
          /\ stats'["output_continuity_errors"] > stats["output_continuity_errors"]
          /\ stats'["recovered_null"] = stats["recovered_null"]
          => stats'["rejects"] > stats["rejects"] ]_all_vars
  BY BreaksOnTurn
<1> QED  BY <1>1, <1>2, PTL DEF NetSpec, BreakIsReported

-----------------------------------------------------------------------------
(***************************************************************************)
(* What becomes of the packets of the primary.  Lost(b, o) are those of    *)
(* the first b that no entry of the output o stands for.                   *)
(***************************************************************************)
Lost(b, o) ==
  {i \in 0 .. b - 1 : \A k \in DOMAIN o : ~(o[k].via \in {"primary", "tei"} /\ o[k].slot = i)}

LEMMA FrontType ==
  ASSUME EngineInv
  PROVE  /\ Front(0) \in Nat
         /\ PrimaryUnaccounted = Lost(Front(0), out)
         /\ queue[0] # << >> => Head(queue[0]).idx = Front(0)
<1> DEFINE q == queue[0]
           n == next_index[0]
           l == Len(q)
<1>1. /\ q \in Seq(Record) /\ l \in Nat /\ DOMAIN q = 1 .. l /\ n \in Nat
      /\ \A k \in DOMAIN q : q[k] \in Record
  BY LenProperties, ElementOfSeq DEF EngineInv, TypeOK, Stream
<1>2. \A k \in DOMAIN q : q[k].idx = ((n - l) + k) - 1
  <2>1. RowOf(q, n)
    BY DEF EngineInv, Rows, Stream
  <2> HIDE DEF q, n
  <2> QED  BY <1>1, <2>1 DEF RowOf, Row
<1>3. Front(0) = n - l
  BY DEF Front
<1> HIDE DEF q, n, l
<1>4. n - l \in Nat
  <2>1. CASE l = 0
    BY <1>1, <2>1
  <2>2. CASE l # 0
    <3>1. 1 \in DOMAIN q /\ q[1].idx \in Nat
      BY <1>1, <2>2 DEF Record
    <3>2. q[1].idx = ((n - l) + 1) - 1
      BY <1>2, <3>1
    <3> QED  BY <1>1, <3>1, <3>2
  <2> QED  BY <2>1, <2>2
<1>5. PrimaryUnaccounted = Lost(n - l, out)
  <2>1. PrimaryUnaccounted =
          {i \in 0 .. n - 1 :
             /\ \A k \in DOMAIN q : q[k].idx # i
             /\ \A k \in DOMAIN out : ~(out[k].via \in {"primary", "tei"} /\ out[k].slot = i)}
    BY DEF PrimaryUnaccounted, q, n
  <2>2. ASSUME NEW i \in 0 .. n - 1
        PROVE  (\A k \in DOMAIN q : q[k].idx # i) <=> i \in 0 .. (n - l) - 1
    <3>1. CASE i < n - l
      BY <1>1, <1>2, <1>4, <3>1
    <3>2. CASE ~(i < n - l)
      <4> DEFINE k == (i - (n - l)) + 1
      <4>1. k \in DOMAIN q /\ ((n - l) + k) - 1 = i
        BY <1>1, <1>4, <3>2
      <4> HIDE DEF k
      <4>2. q[k].idx = i
        BY <1>2, <4>1
      <4> QED  BY <1>1, <1>4, <3>2, <4>1, <4>2
    <3> QED  BY <3>1, <3>2
  <2>3. \A i \in 0 .. (n - l) - 1 : i \in 0 .. n - 1
    BY <1>1, <1>4
  <2> QED  BY <2>1, <2>2, <2>3 DEF Lost
<1>6. q # << >> => Head(q).idx = n - l
  <2>1. q # << >> => Head(q) = q[1] /\ 1 \in DOMAIN q
    BY <1>1, EmptySeq, HeadTailProperties
  <2>2. 1 \in DOMAIN q => q[1].idx = ((n - l) + 1) - 1
    BY <1>2
  <2> QED  BY <1>1, <2>1, <2>2
<1> QED  BY <1>3, <1>4, <1>5, <1>6 DEF q

\* One packet more is given up.
LEMMA LostOne ==
  ASSUME NEW b \in Nat, NEW o, Below(o, 0, b), \A k \in DOMAIN o : o[k].slot \in Nat,
         IsFiniteSet(Lost(b, o))
  PROVE  /\ IsFiniteSet(Lost(b + 1, o))
         /\ Cardinality(Lost(b + 1, o)) = Cardinality(Lost(b, o)) + 1
<1>1. Lost(b + 1, o) = Lost(b, o) \cup {b}
  <2>1. \A k \in DOMAIN o : ~(o[k].via \in {"primary", "tei"} /\ o[k].slot = b)
    BY DEF Below, PassedOn
  <2>2. 0 .. (b + 1) - 1 = (0 .. b - 1) \cup {b}
    OBVIOUS
  <2> QED  BY <2>1, <2>2 DEF Lost
<1>2. b \notin Lost(b, o)
  BY DEF Lost
<1> QED  BY <1>1, <1>2, FS_AddElement

\* What is added to the output stands for packet b, or for none.
LEMMA LostNone ==
  ASSUME NEW b \in Nat, NEW o \in Seq(Output), NEW new \in Seq(Output),
         \A j \in DOMAIN new : new[j].via \in {"primary", "tei"} => new[j].slot = b
  PROVE  /\ Lost(b, o \o new) = Lost(b, o)
         /\ (\E j \in DOMAIN new : new[j].via \in {"primary", "tei"}) =>
              Lost(b + 1, o \o new) = Lost(b, o)
<1> DEFINE x == o \o new
<1>1. /\ Len(o) \in Nat /\ DOMAIN o = 1 .. Len(o)
      /\ Len(new) \in Nat /\ DOMAIN new = 1 .. Len(new)
  BY LenProperties
<1>2. /\ x \in Seq(Output) /\ Len(x) = Len(o) + Len(new)
      /\ \A i \in 1 .. Len(o) + Len(new) :
            x[i] = IF i <= Len(o) THEN o[i] ELSE new[i - Len(o)]
  BY ConcatProperties
<1>3. DOMAIN x = 1 .. Len(o) + Len(new)
  BY <1>2, LenProperties
<1> HIDE DEF x
<1>4. \A i \in DOMAIN x : \/ (i \in DOMAIN o) /\ (x[i] = o[i])
                          \/ (i - Len(o) \in DOMAIN new) /\ (x[i] = new[i - Len(o)])
  <2> TAKE i \in DOMAIN x
  <2>1. i \in 1 .. Len(o) + Len(new)
    BY <1>3
  <2>2. x[i] = IF i <= Len(o) THEN o[i] ELSE new[i - Len(o)]
    BY <1>2, <2>1
  <2>3. CASE i <= Len(o)
    <3>1. i \in 1 .. Len(o)
      BY <1>1, <2>1, <2>3
    <3>2. x[i] = o[i]
      BY <2>2, <2>3, Zenon
    <3>3. i \in DOMAIN o
      BY <1>1, <3>1, Zenon
    <3> QED  BY <3>2, <3>3, Zenon
  <2>4. CASE ~(i <= Len(o))
    <3>1. i - Len(o) \in 1 .. Len(new)
      BY <1>1, <2>1, <2>4
    <3> QED  BY <1>1, <2>2, <2>4, <3>1
  <2> QED  BY <2>3, <2>4
<1>5. /\ \A i \in DOMAIN o : i \in DOMAIN x /\ x[i] = o[i]
      /\ \A j \in DOMAIN new : Len(o) + j \in DOMAIN x /\ x[Len(o) + j] = new[j]
  BY <1>1, <1>2, <1>3
<1>6. ASSUME NEW i \in 0 .. b - 1
      PROVE  (\A k \in DOMAIN x : ~(x[k].via \in {"primary", "tei"} /\ x[k].slot = i))
               <=> (\A k \in DOMAIN o : ~(o[k].via \in {"primary", "tei"} /\ o[k].slot = i))
  <2>1. i # b
    OBVIOUS
  <2>2. \A j \in DOMAIN new : ~(new[j].via \in {"primary", "tei"} /\ new[j].slot = i)
    BY <2>1
  <2> QED  BY <1>4, <1>5, <2>2
<1>7. Lost(b, x) = Lost(b, o)
  BY <1>6 DEF Lost
<1>8. ASSUME NEW j \in DOMAIN new, new[j].via \in {"primary", "tei"}
      PROVE  Lost(b + 1, x) = Lost(b, o)
  <2>1. \E k \in DOMAIN x : x[k].via \in {"primary", "tei"} /\ x[k].slot = b
    BY <1>5, <1>8
  <2>2. 0 .. (b + 1) - 1 = (0 .. b - 1) \cup {b}
    OBVIOUS
  <2>3. Lost(b + 1, x) = Lost(b, x)
    BY <2>1, <2>2 DEF Lost
  <2> QED  BY <1>7, <2>3
<1> QED  BY <1>7, <1>8 DEF x

\* What is not accounted for was pushed out of a full queue, as long as output
\* has never left the primary.
AccountInv ==
  NeverFailedOver =>
    /\ active = 0
    /\ pc # "failed" =>
         /\ IsFiniteSet(Lost(Front(0), out))
         /\ Cardinality(Lost(Front(0), out)) = stats["primary_delay_overflows"]

\* A drain takes nothing that waits in the primary queue for output already.
NoneDiscarded == NeverFailedOver /\ pc = "drain" => KeptPrimary = queue[0]

LEMMA AccountPush ==
  ASSUME EngineInv, AccountInv, NEW s \in Stream, NEW pkt \in Packet, PushPacket(s, pkt)
  PROVE  AccountInv'
<1> DEFINE r == [pkt |-> pkt, src |-> s, idx |-> next_index[s], at |-> now]
           n == IF s = 0 /\ Len(queue[0]) >= Capacity THEN 1 ELSE 0
           gap == SecondaryGap(s, r)
<1>1. /\ pc = "idle" /\ active' = active /\ out' = out
      /\ next_index' = [next_index EXCEPT ![s] = @ + 1]
      /\ queue' = [queue EXCEPT ![s] = QueuePush(@, r)]
      /\ stats' = Count(Count(stats, "secondary_missing", gap), "primary_delay_overflows", n)
  BY DEF PushPacket
<1>2. /\ stats \in Stats /\ gap \in Nat /\ n \in Nat
      /\ queue \in [Stream -> Seq(Record)] /\ next_index \in [Stream -> Nat]
      /\ out \in Seq(Output) /\ Len(queue[0]) \in Nat /\ Capacity \in Nat \ {0}
      /\ r \in Record
  <2>1. s = 0 \/ s = 1
    BY DEF Stream
  <2>2. queue[0] \in Seq(Record)
    BY DEF EngineInv, TypeOK, Stream
  <2>3. gap \in Nat
    BY SecondaryGapType
  <2> QED  BY <2>2, <2>3, LenProperties, BufferAssumption DEF EngineInv, TypeOK, Record
<1> HIDE DEF gap, n, r
<1>3. /\ stats'["source_switches_1"] = stats["source_switches_1"]
      /\ stats'["primary_delay_overflows"] = stats["primary_delay_overflows"] + n
  <2> DEFINE a == Count(stats, "secondary_missing", gap)
  <2>1. /\ "secondary_missing" \in Counter /\ "primary_delay_overflows" \in Counter
        /\ "source_switches_1" \in Counter
    BY DEF Counter
  <2>a. stats \in Stats /\ gap \in Nat /\ n \in Nat
    BY <1>2
  <2>2. /\ a \in Stats
        /\ \A y \in Counter : y # "secondary_missing" => a[y] = stats[y]
    BY <2>a, <2>1, CountCounts
  <2>3. stats' = Count(a, "primary_delay_overflows", n)
    BY <1>1
  <2> HIDE DEF a
  <2>4. /\ stats'["primary_delay_overflows"] = a["primary_delay_overflows"] + n
        /\ \A y \in Counter : y # "primary_delay_overflows" => stats'[y] = a[y]
    <3>1. a \in Stats
      BY <2>2
    <3> DEFINE z == Count(a, "primary_delay_overflows", n)
    <3>2. /\ z["primary_delay_overflows"] = a["primary_delay_overflows"] + n
          /\ \A y \in Counter : y # "primary_delay_overflows" => z[y] = a[y]
      BY <2>a, <2>1, <3>1, CountCounts
    <3> QED  BY <2>3, <3>2
  <2> QED  BY <2>1, <2>2, <2>4
<1>4. Front(0)' = Front(0) + n
  <2>1. CASE s = 1
    <3>1. n = 0 /\ queue'[0] = queue[0] /\ next_index'[0] = next_index[0]
      BY <1>1, <1>2, <2>1 DEF n, Stream
    <3> QED  BY <3>1, FrontType DEF Front
  <2>2. CASE s = 0
    <3> DEFINE q == queue[0]
    <3>1. queue'[0] = QueuePush(q, r) /\ next_index'[0] = next_index[0] + 1
      BY <1>1, <1>2, <2>2 DEF Stream
    <3>2. q \in Seq(Record) /\ RowOf(q, next_index[0]) /\ next_index[0] \in Nat
      BY <1>2 DEF EngineInv, Rows, Stream
    <3>3. Len(q) \in Nat
      BY <1>2
    <3> HIDE DEF q
    <3>4. CASE Len(q) < Capacity
      <4>1. n = 0
        BY <1>2, <2>2, <3>4 DEF n, q
      <4>2. Len(QueuePush(q, r)) = Len(q) + 1
        BY <1>2, <3>2, <3>4, AppendProperties DEF QueuePush
      <4>3. Front(0)' = (next_index[0] + 1) - (Len(q) + 1) /\ Front(0) = next_index[0] - Len(q)
        BY <3>1, <4>2 DEF Front, q
      <4> QED  BY <3>2, <3>3, <4>1, <4>3
    <3>5. CASE ~(Len(q) < Capacity)
      <4>1. n = 1
        BY <1>2, <2>2, <3>5 DEF n, q
      <4>2. q # << >>
        BY <1>2, <3>5, EmptySeq
      <4>3. /\ delay_queue_pop(q) \in Seq(Record)
            /\ Len(delay_queue_pop(q)) = Len(q) - 1
        BY <3>2, <4>2, PoppedRow DEF RowOf
      <4>4. Len(QueuePush(q, r)) = (Len(q) - 1) + 1
        BY <1>2, <3>5, <4>3, AppendProperties DEF QueuePush
      <4>5. /\ Front(0)' = (next_index[0] + 1) - ((Len(q) - 1) + 1)
            /\ Front(0) = next_index[0] - Len(q)
        BY <3>1, <4>4 DEF Front, q
      <4> QED  BY <3>2, <3>3, <4>1, <4>5
    <3> QED  BY <3>4, <3>5
  <2> QED  BY <2>1, <2>2 DEF Stream
<1>5. SUFFICES ASSUME NeverFailedOver'
               PROVE  /\ active' = 0
                      /\ IsFiniteSet(Lost(Front(0)', out))
                      /\ Cardinality(Lost(Front(0)', out)) = stats'["primary_delay_overflows"]
  BY <1>1 DEF AccountInv
<1>6. /\ active = 0 /\ IsFiniteSet(Lost(Front(0), out))
      /\ Cardinality(Lost(Front(0), out)) = stats["primary_delay_overflows"]
  BY <1>1, <1>3, <1>5 DEF AccountInv, NeverFailedOver
<1>7. Front(0) \in Nat /\ Below(out, 0, Front(0)) /\ \A k \in DOMAIN out : out[k].slot \in Nat
  BY FrontType, SlotType DEF EngineInv, SentInOrder, Stream
<1>8. CASE n = 0
  <2>1. stats["primary_delay_overflows"] \in Nat
    BY <1>2 DEF Stats, Counter
  <2> QED  BY <1>1, <1>3, <1>4, <1>6, <1>7, <1>8, <2>1
<1>9. CASE n = 1
  <2> DEFINE b == Front(0)
  <2>1. /\ IsFiniteSet(Lost(b + 1, out))
        /\ Cardinality(Lost(b + 1, out)) = Cardinality(Lost(b, out)) + 1
    <3> HIDE DEF b
    <3>1. b \in Nat /\ Below(out, 0, b) /\ IsFiniteSet(Lost(b, out))
      BY <1>6, <1>7 DEF b
    <3> QED  BY <1>7, <3>1, LostOne
  <2> QED  BY <1>1, <1>3, <1>4, <1>6, <1>9, <2>1
<1> QED  BY <1>8, <1>9 DEF n

LEMMA AccountTurn ==
  ASSUME EngineInv, AccountInv, PrimaryStep
  PROVE  AccountInv'
<1> DEFINE p == Head(queue[0])
           d == Decide(View, p)
           rs == Sent(d, p)
           via == SentVia(d, p)
           new == Entries(rs, via, p.idx, Len(rs))
           m == Len(rs)
<1>1. /\ queue[0] # << >> /\ pc = "primary" /\ pc' = pc /\ active' = active
      /\ OutputRecords(rs, via, p.idx)
      /\ stats' = OutputStats(DecisionStats(stats, d), rs)
      /\ queue' = [queue EXCEPT ![0] = delay_queue_pop(queue[0])]
      /\ next_index' = next_index
  BY DEF PrimaryStep
<1>2. /\ p \in Record /\ p.idx \in Nat /\ d \in Decision /\ rs \in Seq(Record)
      /\ m \in Nat \ {0} /\ via \in [1 .. m -> Via]
      /\ \A j \in 1 .. m : via[j] \in {"primary", "tei"} => j = m
  BY <1>1, FrontDecision DEF Record
<1>3. via[m] \in {"primary", "tei"}
  <2>1. m \in 1 .. m
    BY <1>2
  <2>2. via[m] = IF Replaced(d, p) THEN "tei" ELSE IF m <= Len(d.rs) THEN "recovery" ELSE "primary"
    BY <2>1 DEF SentVia
  <2>3. CASE Replaced(d, p)
    BY <2>2, <2>3
  <2>4. CASE ~Replaced(d, p)
    <3>1. d.rs \in Seq(Record) /\ Len(d.rs) \in Nat
      BY <1>2, LenProperties DEF Decision
    <3>2. m = Len(d.rs) + 1
      BY <1>2, <2>4, <3>1, AppendProperties DEF Sent
    <3> HIDE DEF m, via
    <3>3. ~(m <= Len(d.rs))
      BY <3>1, <3>2
    <3> QED  BY <2>2, <2>4, <3>3
  <2> QED  BY <2>3, <2>4
<1>4. p.idx = Front(0) /\ Front(0) \in Nat
  BY <1>1, FrontType
<1>5. Front(0)' = Front(0) + 1
  <2>1. queue[0] \in Seq(Record) /\ RowOf(queue[0], next_index[0]) /\ next_index[0] \in Nat
    BY DEF EngineInv, TypeOK, Rows, Stream
  <2>2. Len(delay_queue_pop(queue[0])) = Len(queue[0]) - 1 /\ Len(queue[0]) \in Nat
    BY <1>1, <2>1, PoppedRow
  <2>3. queue'[0] = delay_queue_pop(queue[0])
    BY <1>1 DEF EngineInv, TypeOK, Stream
  <2> QED  BY <1>1, <2>1, <2>2, <2>3 DEF Front
<1> HIDE DEF p, d, rs, via
<1>6. out' = out \o new
  BY <1>1, <1>2, OutputType
<1>7. /\ new \in Seq(Output) /\ DOMAIN new = 1 .. m
      /\ \A j \in 1 .. m : new[j].via = via[j] /\ new[j].slot = p.idx
  <2>1. m \in 0 .. Len(rs)
    BY <1>2
  <2> DEFINE l == m
             e == Entries(rs, via, p.idx, l)
  <2>2. l \in 0 .. Len(rs)
    BY <2>1
  <2> HIDE DEF l
  <2>3. /\ Entries(rs, via, p.idx, l) \in Seq(Output)
        /\ Len(Entries(rs, via, p.idx, l)) = l
        /\ DOMAIN Entries(rs, via, p.idx, l) = 1 .. l
        /\ \A j \in 1 .. l : /\ Entries(rs, via, p.idx, l)[j].via = via[j]
                             /\ Entries(rs, via, p.idx, l)[j].slot = p.idx
    <3>1. rs \in Seq(Record) /\ via \in [1 .. Len(rs) -> Via] /\ p.idx \in Nat
      BY <1>2
    <3> QED  BY <2>2, <3>1, EntriesType, ZenonT(60)
  <2> QED  BY <2>3 DEF l
<1> HIDE DEF new
<1>8. /\ stats'["source_switches_1"] = stats["source_switches_1"]
      /\ stats'["primary_delay_overflows"] = stats["primary_delay_overflows"]
  BY <1>1, <1>2, TurnStats DEF EngineInv, TypeOK
<1> DEFINE b == Front(0)
<1>9. Lost(b + 1, out \o new) = Lost(b, out)
  <2>1. b \in Nat /\ b = p.idx /\ out \in Seq(Output)
    BY <1>4 DEF EngineInv, TypeOK
  <2> HIDE DEF b
  <2>2. \A j \in DOMAIN new : new[j].via \in {"primary", "tei"} => new[j].slot = b
    BY <1>7, <2>1
  <2>3. \E j \in DOMAIN new : new[j].via \in {"primary", "tei"}
    BY <1>2, <1>3, <1>7
  <2> QED  BY <1>7, <2>1, <2>2, <2>3, LostNone
<1>10. Lost(Front(0)', out') = Lost(Front(0), out)
  BY <1>5, <1>6, <1>9
<1> QED  BY <1>1, <1>8, <1>10 DEF AccountInv, NeverFailedOver

\* The other steps lose nothing: a step to the secondary ends the claim, a
\* drain discards nothing, and nothing is claimed once the sink has failed.
LEMMA AccountRest ==
  ASSUME EngineInv, FeedInv, AccountInv, NoneDiscarded, [NetNext]_all_vars,
         ~PrimaryStep, ~\E s \in Stream, pkt \in Packet : PushPacket(s, pkt)
  PROVE  AccountInv'
<1>1. CASE SecondaryStep
  <2> SUFFICES ASSUME NeverFailedOver' PROVE FALSE
    BY DEF AccountInv
  <2> DEFINE rs == <<Head(queue[1])>>
             k == IF active = 1 THEN 0 ELSE 1
  <2>1. stats' = OutputStats(Switched(stats, 1), rs) /\ queue[1] # << >> /\ stats \in Stats
    BY <1>1 DEF SecondaryStep, EngineInv, TypeOK
  <2>2. rs \in Seq(Record)
    BY <2>1, HeadTailProperties DEF EngineInv, TypeOK, Stream
  <2>3. CountBreaks(rs) \in Nat /\ CountRepeats(rs) \in Nat
    <3> HIDE DEF rs
    <3> QED  BY <2>2, PlacesCount DEF CountBreaks, CountRepeats, Checked
  <2> DEFINE a == Count(stats, "source_switches_1", k)
             e == Count(a, "output_continuity_errors", CountBreaks(rs))
             f == Count(e, "output_duplicate_counters", CountRepeats(rs))
  <2>4. stats' = f
    BY <2>1 DEF OutputStats, Switched
  <2>5. /\ "output_continuity_errors" \in Counter /\ "output_duplicate_counters" \in Counter
        /\ "source_switches_1" \in Counter
    BY DEF Counter
  <2> DEFINE m == CountBreaks(rs)
             n == CountRepeats(rs)
  <2>6. k \in Nat
    OBVIOUS
  <2>m. /\ m \in Nat /\ n \in Nat /\ e = Count(a, "output_continuity_errors", m)
        /\ f = Count(e, "output_duplicate_counters", n)
    BY <2>3
  <2> HIDE DEF rs, k, a, e, f, m, n
  <2>7. a \in Stats /\ a["source_switches_1"] = stats["source_switches_1"] + k
    BY <2>1, <2>5, <2>6, CountCounts DEF a
  <2>8. e \in Stats /\ e["source_switches_1"] = a["source_switches_1"]
    <3>1. a \in Stats
      BY <2>7
    <3> DEFINE z == Count(a, "output_continuity_errors", m)
    <3>2. /\ z \in Stats
          /\ \A y \in Counter : y # "output_continuity_errors" => z[y] = a[y]
      BY <2>5, <2>m, <3>1, CountCounts
    <3> HIDE DEF z
    <3>3. z["source_switches_1"] = a["source_switches_1"]
      BY <2>5, <3>2
    <3> QED  BY <2>m, <3>2, <3>3 DEF z
  <2>9. f["source_switches_1"] = e["source_switches_1"]
    <3>1. e \in Stats
      BY <2>8
    <3> DEFINE z == Count(e, "output_duplicate_counters", n)
    <3>2. \A y \in Counter : y # "output_duplicate_counters" => z[y] = e[y]
      BY <2>5, <2>m, <3>1, CountCounts
    <3> HIDE DEF z
    <3>3. z["source_switches_1"] = e["source_switches_1"]
      BY <2>5, <3>2
    <3> QED  BY <2>m, <3>3 DEF z
  <2>10. stats["source_switches_1"] + k = 0 /\ stats["source_switches_1"] \in Nat
    BY <2>1, <2>4, <2>5, <2>7, <2>8, <2>9 DEF NeverFailedOver, Stats
  <2>11. NeverFailedOver /\ k = 0
    BY <2>6, <2>10 DEF NeverFailedOver
  <2> QED  BY <2>11 DEF AccountInv, k
<1>2. CASE SinkFails
  BY <1>2 DEF SinkFails, AccountInv, NeverFailedOver
<1>3. CASE DrainPrimary
  <2>1. stats' = Switched(stats, 0) /\ stats \in Stats
    BY <1>3 DEF DrainPrimary, EngineInv, TypeOK
  <2> DEFINE k == IF active = 0 THEN 0 ELSE 1
  <2>2. stats' = Count(stats, "source_switches_0", k)
    BY <2>1 DEF Switched
  <2>3. /\ "source_switches_0" \in Counter /\ "source_switches_1" \in Counter
        /\ "primary_delay_overflows" \in Counter
    BY DEF Counter
  <2>4. k \in Nat
    OBVIOUS
  <2> HIDE DEF k
  <2>5. \A y \in Counter : y # "source_switches_0" => stats'[y] = stats[y]
    <3> DEFINE z == Count(stats, "source_switches_0", k)
    <3>1. \A y \in Counter : y # "source_switches_0" => z[y] = stats[y]
      BY <2>1, <2>3, <2>4, CountCounts
    <3> QED  BY <2>2, <3>1
  <2>6. /\ stats'["source_switches_1"] = stats["source_switches_1"]
        /\ stats'["primary_delay_overflows"] = stats["primary_delay_overflows"]
    BY <2>3, <2>5
  <2>7. /\ pc = "drain" /\ active' = 0 /\ out' = out /\ next_index' = next_index
        /\ queue' = [queue EXCEPT ![0] = KeptPrimary]
    BY <1>3 DEF DrainPrimary
  <2>8. NeverFailedOver => Front(0)' = Front(0)
    <3>1. NeverFailedOver => queue'[0] = queue[0]
      BY <2>7 DEF NoneDiscarded, EngineInv, TypeOK, Stream
    <3> QED  BY <2>7, <3>1 DEF Front
  <2> QED  BY <2>6, <2>7, <2>8 DEF AccountInv, NeverFailedOver
<1>4. CASE DrainNotReady \/ DrainNothing \/ PrimaryEmpty
  <2>1. UNCHANGED <<active, stats, out, next_index>> /\ pc # "failed"
    BY <1>4 DEF DrainNotReady, DrainNothing, PrimaryEmpty
  <2>2. NeverFailedOver => queue'[0] = queue[0]
    BY <1>4 DEF DrainNotReady, DrainNothing, PrimaryEmpty, EnterOutage, NoneDiscarded,
                EngineInv, TypeOK, Stream
  <2>3. NeverFailedOver => Front(0)' = Front(0)
    BY <2>1, <2>2 DEF Front
  <2> QED  BY <2>1, <2>3 DEF AccountInv, NeverFailedOver
<1>5. CASE /\ UNCHANGED <<active, stats, out, next_index, queue>>
           /\ pc' = "failed" \/ pc # "failed" \/ pc' = pc
  <2>1. Front(0)' = Front(0)
    BY <1>5 DEF Front
  <2> QED  BY <1>5, <2>1 DEF AccountInv, NeverFailedOver
<1>6. \/ SecondaryStep \/ SinkFails \/ DrainPrimary
      \/ DrainNotReady \/ DrainNothing \/ PrimaryEmpty
      \/ /\ UNCHANGED <<active, stats, out, next_index, queue>>
         /\ pc' = "failed" \/ pc # "failed" \/ pc' = pc
  <2>1. ASSUME NEW s \in Stream, Deliver(s) \/ Damage(s)
        PROVE  FALSE
    <3>1. upto[s] < Len(Source) /\ Source[upto[s] + 1] \in Packet
      BY <2>1, SourceType DEF Deliver, Damage
    <3>2. [Source[upto[s] + 1] EXCEPT !.tei = TRUE] \in Packet
      BY <3>1 DEF Packet
    <3> QED  BY <2>1, <3>1, <3>2 DEF Deliver, Damage, Arrive
  <2>2. CASE (\E s \in Stream : Lose(s)) \/ Ended \/ UNCHANGED all_vars
    BY <2>2 DEF Lose, Ended, all_vars, vars, engine_vars
  <2>3. CASE Drain \/ Clock \/ Stop
    BY <2>3 DEF Drain, MainLoopDrain, Clock, Tick, Stop, Flush, vars, engine_vars
  <2>4. CASE Step
    BY <2>4 DEF Step, EngineStep, PrimaryNotDue, SecondaryDone
  <2>5. CASE Failure
    BY <2>5 DEF Failure
  <2> QED  BY <2>1, <2>2, <2>3, <2>4, <2>5 DEF NetNext
<1> QED  BY <1>1, <1>2, <1>3, <1>4, <1>5, <1>6

LEMMA AccountInit == NetInit => AccountInv
<1> SUFFICES ASSUME NetInit PROVE AccountInv
  OBVIOUS
<1>1. /\ Front(0) = 0 /\ active = 0 /\ stats["primary_delay_overflows"] = 0
  <2>1. queue[0] = << >> /\ next_index[0] = 0
    BY DEF NetInit, Init, Stream
  <2>2. Len(queue[0]) = 0
    BY <2>1, EmptySeq
  <2>3. active = 0 /\ stats["primary_delay_overflows"] = 0
    BY DEF NetInit, Init, Counter
  <2> DEFINE n == next_index[0]
             l == Len(queue[0])
  <2>4. Front(0) = n - l /\ n = 0 /\ l = 0
    BY <2>1, <2>2 DEF Front
  <2> HIDE DEF n, l
  <2>5. Front(0) = 0
    BY <2>4
  <2> QED  BY <2>3, <2>5
<1>2. Lost(0, out) = {}
  BY DEF Lost
<1> QED  BY <1>1, <1>2, FS_EmptySet DEF AccountInv

LEMMA AccountStep ==
  ASSUME EngineInv, FeedInv, AccountInv, NoneDiscarded, [NetNext]_all_vars
  PROVE  AccountInv'
BY AccountPush, AccountTurn, AccountRest

LEMMA AccountInvariant == NetSpec /\ []NoneDiscarded => []AccountInv
<1>1. NetInit => AccountInv
  BY AccountInit
<1>2. EngineInv /\ FeedInv /\ AccountInv /\ NoneDiscarded /\ [NetNext]_all_vars => AccountInv'
  BY AccountStep
<1>3. NetSpec => []EngineInv
  BY FeedsImplementEngine, EngineInvariant, PTL
<1> QED  BY <1>1, <1>2, <1>3, FeedInvariant, PTL DEF NetSpec

(***************************************************************************)
(* Nothing of the primary disappears without a trace, for every feed and   *)
(* every delay.  As long as output has never left the primary, and no      *)
(* drain has thrown away a queued packet as one the secondary already      *)
(* output, the packets of the primary that are neither queued nor passed   *)
(* on nor replaced are as many as primary_delay_overflows counts.  That    *)
(* the hypothesis cannot be dropped is what the run discarded_primary      *)
(* shows: discard_primary_records_already_output_by_secondary counts       *)
(* nothing.                                                                *)
(***************************************************************************)
THEOREM LossesAreCounted == NetSpec /\ []NoneDiscarded => []PrimaryAccounted
<1>1. NetSpec => []EngineInv
  BY FeedsImplementEngine, EngineInvariant, PTL
<1>2. EngineInv /\ AccountInv => PrimaryAccounted
  BY FrontType DEF AccountInv, PrimaryAccounted
<1> QED  BY <1>1, <1>2, AccountInvariant, PTL

-----------------------------------------------------------------------------
(***************************************************************************)
(* Continuity counters.  Two counters that agree count the same number of  *)
(* packets, or numbers at least one turn apart.                            *)
(***************************************************************************)
LEMMA MultipleOf ==
  ASSUME NEW n \in Nat, n >= 2, NEW e \in Int, NEW x \in Int, x = n * e
  PROVE  x = 0 \/ x >= n \/ x <= -n
<1>1. CASE e = 0
  BY <1>1
<1>2. CASE e >= 1
  <2>1. n * e >= n
    BY <1>2
  <2> QED  BY <2>1
<1>3. CASE e <= -1
  <2>1. n * e <= -n
    BY <1>3
  <2> QED  BY <2>1
<1> QED  BY <1>1, <1>2, <1>3

LEMMA Quotient ==
  ASSUME NEW n \in Nat, n >= 2, NEW x \in Int
  PROVE  /\ x \div n \in Int /\ x % n \in 0 .. n - 1
         /\ x = (n * (x \div n)) + (x % n)
OBVIOUS

LEMMA SumOfCounters ==
  ASSUME NEW n \in Nat, n >= 2, NEW a \in Nat, NEW b \in Nat, NEW z \in Nat,
         ((a % n) + b) % n = z % n
  PROVE  a + b = z \/ a + b >= z + n \/ z >= a + b + n
<1> DEFINE m == a % n
           y == m + b
           q1 == a \div n
           q2 == y \div n
           q3 == z \div n
           c == z % n
<1>1. q1 \in Int /\ m \in 0 .. n - 1 /\ a = (n * q1) + m
  BY Quotient
<1>2. y \in Int
  BY <1>1
<1>3. q2 \in Int /\ y = (n * q2) + c
  <2>1. y % n = c
    OBVIOUS
  <2> HIDE DEF y, c
  <2> QED  BY <1>2, <2>1, Quotient
<1>4. q3 \in Int /\ c \in 0 .. n - 1 /\ z = (n * q3) + c
  BY Quotient
<1> HIDE DEF q1, q2, q3, c, m
<1> DEFINE e == (q1 + q2) - q3
           x == (a + b) - z
<1>5. e \in Int /\ x \in Int
  BY <1>1, <1>3, <1>4
<1>6. n * e = ((n * q1) + (n * q2)) - (n * q3)
  BY <1>1, <1>3, <1>4
<1>7. x = n * e
  <2> DEFINE u == n * q1
             w == n * q2
             t == n * q3
  <2>1. /\ u \in Int /\ w \in Int /\ t \in Int
        /\ a = u + m /\ m + b = w + c /\ z = t + c /\ n * e = (u + w) - t
    BY <1>1, <1>3, <1>4, <1>6
  <2>2. m \in Int /\ c \in Int
    BY <1>1, <1>4
  <2> HIDE DEF u, w, t, e
  <2> QED  BY <2>1, <2>2
<1> HIDE DEF e
<1>8. x = 0 \/ x >= n \/ x <= -n
  BY <1>5, <1>7, MultipleOf
<1> QED  BY <1>8

LEMMA SameCounter ==
  ASSUME NEW a \in CC, NEW b \in Nat, NEW c \in Nat, (a + b) % CCMod = (a + c) % CCMod
  PROVE  b = c \/ b >= c + CCMod \/ c >= b + CCMod
<1>1. CCMod \in Nat /\ CCMod >= 2 /\ a \in Nat /\ a < CCMod
  BY RecordAssumption DEF CC
<1>2. a % CCMod = a
  <2> DEFINE n == CCMod
             q == a \div n
             r == a % n
  <2>1. q \in Int /\ r \in 0 .. n - 1 /\ a = (n * q) + r
    BY <1>1, Quotient
  <2> HIDE DEF q, r
  <2>2. a - r \in Int /\ a - r = n * q
    BY <1>1, <2>1
  <2>3. a - r = 0 \/ a - r >= n \/ a - r <= -n
    BY <1>1, <2>1, <2>2, MultipleOf
  <2> QED  BY <1>1, <2>1, <2>3 DEF r
<1> DEFINE z == a + c
<1>3. z \in Nat /\ ((a % CCMod) + b) % CCMod = z % CCMod
  BY <1>1, <1>2
<1> HIDE DEF z
<1>4. a + b = z \/ a + b >= z + CCMod \/ z >= a + b + CCMod
  BY <1>1, <1>3, SumOfCounters
<1> QED  BY <1>1, <1>4 DEF z

(***************************************************************************)
(* The packets of one PID that move its counter, behind place a of the     *)
(* broadcast src and up to place b.                                        *)
(***************************************************************************)
Counted(src, a, b, pid) == {k \in a + 1 .. b : src[k].pid = pid /\ src[k].payload}
Payloads(src, a, b, pid) == Cardinality(Counted(src, a, b, pid))

LEMMA CountedFinite ==
  ASSUME NEW src, NEW a \in Int, NEW b \in Int, NEW pid
  PROVE  IsFiniteSet(Counted(src, a, b, pid)) /\ Payloads(src, a, b, pid) \in Nat
<1>1. IsFiniteSet(a + 1 .. b)
  BY FS_Interval
<1>2. Counted(src, a, b, pid) \subseteq a + 1 .. b
  BY DEF Counted
<1> QED  BY <1>1, <1>2, FS_Subset, FS_CardinalityType DEF Payloads

LEMMA CountedMonotone ==
  ASSUME NEW src, NEW a \in Int, NEW b \in Int, NEW c \in Int, NEW d \in Int, NEW pid,
         c <= a, b <= d
  PROVE  Payloads(src, a, b, pid) <= Payloads(src, c, d, pid)
<1>1. Counted(src, a, b, pid) \subseteq Counted(src, c, d, pid)
  BY DEF Counted
<1> QED  BY <1>1, CountedFinite, FS_Subset DEF Payloads

LEMMA CountedLast ==
  ASSUME NEW src, NEW a \in Int, NEW b \in Int, a < b, NEW pid,
         src[b].pid = pid, src[b].payload
  PROVE  Payloads(src, a, b, pid) = Payloads(src, a, b - 1, pid) + 1
<1> DEFINE S == Counted(src, a, b - 1, pid)
<1>1. Counted(src, a, b, pid) = S \cup {b}
  BY DEF Counted
<1>2. b \notin S
  BY DEF Counted
<1>3. IsFiniteSet(S)
  BY CountedFinite
<1> QED  BY <1>1, <1>2, <1>3, FS_AddElement DEF Payloads

LEMMA CountedFirst ==
  ASSUME NEW src, NEW a \in Int, NEW b \in Int, a <= b, NEW pid,
         src[a].pid = pid, src[a].payload
  PROVE  Payloads(src, a - 1, b, pid) = Payloads(src, a, b, pid) + 1
<1> DEFINE S == Counted(src, a, b, pid)
<1>1. Counted(src, a - 1, b, pid) = S \cup {a}
  BY DEF Counted
<1>2. a \notin S
  BY DEF Counted
<1>3. IsFiniteSet(S)
  BY CountedFinite
<1> QED  BY <1>1, <1>2, <1>3, FS_AddElement DEF Payloads

-----------------------------------------------------------------------------
(***************************************************************************)
(* What a feed has delivered stands in the broadcast.  q is what feed      *)
(* carried of the first u packets of src.                                  *)
(***************************************************************************)
InPlace(q, u, src) ==
  /\ Len(q) <= u
  /\ \A i \in 1 .. Len(q) :
       /\ q[i].pos \in i .. u - (Len(q) - i)
       /\ q[i] = src[q[i].pos] \/ q[i] = [src[q[i].pos] EXCEPT !.tei = TRUE]
  /\ \A i, j \in 1 .. Len(q) : i <= j => q[i].pos + (j - i) <= q[j].pos

Placed == \A s \in Stream : InPlace(carried[s], upto[s], Source)

LEMMA NextInPlace ==
  ASSUME NEW q \in Seq(Packet), NEW src \in Seq(Packet), NEW u \in Nat, InPlace(q, u, src),
         u < Len(src), src[u + 1].pos = u + 1, NEW pkt \in Packet,
         pkt = src[u + 1] \/ pkt = [src[u + 1] EXCEPT !.tei = TRUE]
  PROVE  InPlace(Append(q, pkt), u + 1, src)
<1> DEFINE x == Append(q, pkt)
           n == Len(q)
<1>1. n \in Nat /\ Len(src) \in Nat
  BY LenProperties
<1>2. /\ x \in Seq(Packet) /\ Len(x) = n + 1
      /\ \A i \in 1 .. n : x[i] = q[i]
      /\ x[n + 1] = pkt
  BY AppendProperties
<1>3. pkt.pos = u + 1
  <2>1. src[u + 1] \in Packet
    <3>1. u + 1 \in 1 .. Len(src)
      BY <1>1
    <3> QED  BY <3>1, ElementOfSeq
  <2> QED  BY <2>1 DEF Packet
<1>4. \A i \in 1 .. n : q[i].pos \in i .. u - (n - i)
  BY DEF InPlace
<1>5. n <= u
  BY DEF InPlace
<1> HIDE DEF x, n
<1>6. ASSUME NEW i \in 1 .. n + 1
      PROVE  /\ x[i].pos \in i .. (u + 1) - ((n + 1) - i)
             /\ x[i] = src[x[i].pos] \/ x[i] = [src[x[i].pos] EXCEPT !.tei = TRUE]
  <2>1. CASE i = n + 1
    <3>1. x[i] = pkt /\ x[i].pos = u + 1
      BY <1>2, <1>3, <2>1
    <3>2. u + 1 \in i .. (u + 1) - ((n + 1) - i)
      BY <1>1, <1>5, <2>1
    <3> QED  BY <3>1, <3>2
  <2>2. CASE i \in 1 .. n
    <3>1. x[i] = q[i] /\ x[i].pos \in i .. u - (n - i)
      BY <1>2, <1>4, <2>2
    <3>2. x[i].pos \in i .. (u + 1) - ((n + 1) - i)
      BY <1>1, <2>2, <3>1
    <3>3. q[i] = src[q[i].pos] \/ q[i] = [src[q[i].pos] EXCEPT !.tei = TRUE]
      BY <2>2 DEF InPlace, n
    <3> QED  BY <3>1, <3>2, <3>3
  <2> QED  BY <1>1, <1>6, <2>1, <2>2
<1>7. ASSUME NEW i \in 1 .. n + 1, NEW j \in 1 .. n + 1, i <= j
      PROVE  x[i].pos + (j - i) <= x[j].pos
  <2>1. CASE j = n + 1 /\ i = n + 1
    BY <1>1, <1>2, <1>3, <2>1
  <2>2. CASE j = n + 1 /\ i \in 1 .. n
    <3>1. x[i].pos \in i .. u - (n - i) /\ x[j].pos = u + 1
      BY <1>2, <1>3, <1>4, <2>2
    <3> QED  BY <1>1, <2>2, <3>1
  <2>3. CASE j \in 1 .. n /\ i \in 1 .. n
    <3>1. x[i] = q[i] /\ x[j] = q[j]
      BY <1>2, <2>3
    <3>2. q[i].pos + (j - i) <= q[j].pos
      BY <1>7, <2>3 DEF InPlace, n
    <3> QED  BY <3>1, <3>2
  <2> QED  BY <1>1, <1>7, <2>1, <2>2, <2>3
<1>8. n + 1 <= u + 1
  BY <1>1, <1>5
<1> QED  BY <1>2, <1>6, <1>7, <1>8 DEF InPlace, x

\* A packet more of the broadcast that is lost changes nothing.
LEMMA LongerInPlace ==
  ASSUME NEW q \in Seq(Packet), NEW src, NEW u \in Nat, NEW w \in Nat, u <= w, InPlace(q, u, src)
  PROVE  InPlace(q, w, src)
<1>1. Len(q) \in Nat
  BY LenProperties
<1>2. ASSUME NEW i \in 1 .. Len(q)
      PROVE  q[i].pos \in i .. w - (Len(q) - i)
  <2>1. q[i].pos \in i .. u - (Len(q) - i)
    BY DEF InPlace
  <2> QED  BY <1>1, <2>1
<1>3. Len(q) <= w
  BY <1>1 DEF InPlace
<1> QED  BY <1>2, <1>3, ZenonT(30) DEF InPlace

\* A packet of a feed is the one of the broadcast that it has the place of.
LEMMA PlaceOf ==
  ASSUME FeedInv, Placed, NEW s \in Stream, NEW i \in 1 .. Len(carried[s])
  PROVE  /\ carried[s][i] \in Packet
         /\ carried[s][i].pos \in 1 .. Len(Source) /\ carried[s][i].pos \in DOMAIN Source
         /\ LET x == carried[s][i]
                y == Source[x.pos]
            IN  /\ y \in Packet
                /\ x.pid = y.pid /\ x.cc = y.cc /\ x.payload = y.payload /\ x.hash = y.hash
                /\ ~x.tei => x = y
<1> DEFINE x == carried[s][i]
           y == Source[x.pos]
<1>1. /\ carried[s] \in Seq(Packet) /\ Source \in Seq(Packet) /\ Len(Source) \in Nat
      /\ upto[s] \in 0 .. Len(Source)
  BY SourceType DEF FeedInv
<1>2. Len(carried[s]) \in Nat /\ DOMAIN Source = 1 .. Len(Source)
  BY <1>1, LenProperties
<1>3. x \in Packet
  BY <1>1, ElementOfSeq
<1>4. /\ x.pos \in i .. upto[s] - (Len(carried[s]) - i)
      /\ x = y \/ x = [y EXCEPT !.tei = TRUE]
  BY DEF Placed, InPlace
<1>5. x.pos \in 1 .. Len(Source)
  <2> HIDE DEF x
  <2> QED  BY <1>1, <1>2, <1>4
<1>6. y \in Packet
  BY <1>1, <1>5, ElementOfSeq
<1>7. /\ x.pid = y.pid /\ x.cc = y.cc /\ x.payload = y.payload /\ x.hash = y.hash
      /\ ~x.tei => x = y
  <2> HIDE DEF x, y
  <2> QED  BY <1>4, <1>6 DEF Packet
<1> QED  BY <1>2, <1>3, <1>5, <1>6, <1>7

\* Later in a feed is later in the broadcast.
LEMMA PlacesIncrease ==
  ASSUME FeedInv, Placed, NEW s \in Stream,
         NEW i \in 1 .. Len(carried[s]), NEW j \in 1 .. Len(carried[s])
  PROVE  /\ i <= j => carried[s][i].pos <= carried[s][j].pos
         /\ i < j => carried[s][i].pos < carried[s][j].pos
         /\ carried[s][i].pos < carried[s][j].pos => i < j
         /\ i <= j => carried[s][i].pos + (j - i) <= carried[s][j].pos
<1> DEFINE a == carried[s][i].pos
           b == carried[s][j].pos
<1>1. Len(carried[s]) \in Nat
  BY LenProperties DEF FeedInv
<1>2. (i <= j => a + (j - i) <= b) /\ (j <= i => b + (i - j) <= a)
  BY DEF Placed, InPlace
<1>3. a \in Nat /\ b \in Nat
  <2>1. carried[s][i] \in Packet /\ carried[s][j] \in Packet
    BY PlaceOf
  <2> QED  BY <2>1 DEF Packet
<1> HIDE DEF a, b
<1>4. /\ i <= j => a <= b
      /\ i < j => a < b
      /\ a < b => i < j
  BY <1>1, <1>2, <1>3
<1> QED  BY <1>2, <1>4 DEF a, b

\* Two equal content packets of the feeds have one place, if all content differs.
LEMMA SamePlace ==
  ASSUME DistinctContent, FeedInv, Placed, NEW s \in Stream, NEW t \in Stream,
         NEW i \in 1 .. Len(carried[s]), NEW j \in 1 .. Len(carried[t]),
         SameContent(OfPacket(carried[s][i]), OfPacket(carried[t][j])),
         carried[s][i].pid # NullPid
  PROVE  carried[s][i].pos = carried[t][j].pos
<1> DEFINE x == carried[s][i]
           y == carried[t][j]
           k == x.pos
           l == y.pos
<1>1. /\ k \in DOMAIN Source /\ x.pid = Source[k].pid /\ x.cc = Source[k].cc
      /\ x.hash = Source[k].hash
  BY PlaceOf
<1>2. /\ l \in DOMAIN Source /\ y.pid = Source[l].pid /\ y.cc = Source[l].cc
      /\ y.hash = Source[l].hash
  BY PlaceOf
<1>3. x.pid = y.pid /\ x.cc = y.cc /\ x.hash = y.hash /\ x.pid # NullPid
  BY DEF SameContent, OfPacket
<1> HIDE DEF x, y, k, l
<1>4. SameContent(OfPacket(Source[k]), OfPacket(Source[l])) /\ Source[k].pid # NullPid
  BY <1>1, <1>2, <1>3 DEF SameContent, OfPacket
<1>5. scenario \in Scenarios
  BY DEF FeedInv
<1>6. k = l
  BY <1>1, <1>2, <1>4, <1>5 DEF DistinctContent, Source
<1> QED  BY <1>6 DEF k, l, x, y

-----------------------------------------------------------------------------
(***************************************************************************)
(* The steps of feeds and engine, for the invariants about the output.     *)
(***************************************************************************)
\* A packet arrives, as it was sent or with its transport error set.
Arrival(s, pkt) ==
  /\ upto[s] < Len(Source)
  /\ pkt = Source[upto[s] + 1] \/ pkt = [Source[upto[s] + 1] EXCEPT !.tei = TRUE]
  /\ Arrive(s, pkt)

\* Nothing is received and nothing sent; the queues may be cut at the front.
Quiet ==
  /\ UNCHANGED <<scenario, carried, out, out_cc, history, next_index>>
  /\ upto' \in [Stream -> 0 .. Len(Source)] /\ \A s \in Stream : upto[s] <= upto'[s]
  /\ \A s \in Stream :
       /\ Len(queue'[s]) <= Len(queue[s])
       /\ \A k \in DOMAIN queue'[s] : \E l \in DOMAIN queue[s] : queue'[s][k] = queue[s][l]
  /\ \A c \in Counter \ {"source_switches_0"} : stats'[c] = stats[c]
  /\ pc = "failed" => pc' = "failed"
  /\ active' \in {active, 0}

\* What is left of a row is part of it.
LEMMA RestMembers ==
  ASSUME NEW q \in Seq(Record), NEW a \in 1 .. Len(q), NEW k \in DOMAIN SubSeq(q, a, Len(q))
  PROVE  \E l \in DOMAIN q : SubSeq(q, a, Len(q))[k] = q[l]
<1> DEFINE r == SubSeq(q, a, Len(q))
<1>1. Len(q) \in Nat /\ DOMAIN q = 1 .. Len(q)
  BY LenProperties
<1>2. Len(r) = Len(q) - a + 1 /\ \A j \in 1 .. Len(r) : r[j] = q[a + j - 1]
  BY <1>1, SubSeqProperties
<1>3. r \in Seq(Record)
  BY <1>1, StretchType
<1>4. DOMAIN r = 1 .. Len(r)
  BY <1>3, LenProperties
<1> HIDE DEF r
<1>5. k \in 1 .. Len(r)
  BY <1>4 DEF r
<1>6. a + k - 1 \in DOMAIN q /\ r[k] = q[a + k - 1]
  BY <1>1, <1>2, <1>5
<1> QED  BY <1>6 DEF r

LEMMA DropMembers ==
  ASSUME NEW q \in Seq(Record), NEW kept \in SUBSET DOMAIN q,
         NEW k \in DOMAIN (IF kept = {} THEN << >> ELSE SubSeq(q, Min(kept), Len(q)))
  PROVE  \E l \in DOMAIN q :
           (IF kept = {} THEN << >> ELSE SubSeq(q, Min(kept), Len(q)))[k] = q[l]
<1>1. Len(q) \in Nat /\ DOMAIN q = 1 .. Len(q) /\ DOMAIN << >> = {}
  BY LenProperties, EmptySeq
<1>2. kept # {}
  BY <1>1
<1>3. kept \in SUBSET Nat
  BY <1>1
<1> DEFINE a == Min(kept)
<1>4. a \in 1 .. Len(q)
  BY <1>1, <1>2, <1>3, MinOfNaturals
<1>5. k \in DOMAIN SubSeq(q, a, Len(q))
  BY <1>2
<1> HIDE DEF a
<1>6. \E l \in DOMAIN q : SubSeq(q, a, Len(q))[k] = q[l]
  BY <1>4, <1>5, RestMembers
<1> QED  BY <1>2, <1>6 DEF a

LEMMA KeptMembers ==
  ASSUME EngineInv
  PROVE  /\ \A k \in DOMAIN KeptPrimary : \E l \in DOMAIN queue[0] : KeptPrimary[k] = queue[0][l]
         /\ \A k \in DOMAIN KeptSecondary : \E l \in DOMAIN queue[1] : KeptSecondary[k] = queue[1][l]
<1>1. queue[0] \in Seq(Record) /\ queue[1] \in Seq(Record)
  BY DEF EngineInv, TypeOK, Stream
<1>2. ASSUME NEW k \in DOMAIN KeptPrimary
      PROVE  \E l \in DOMAIN queue[0] : KeptPrimary[k] = queue[0][l]
  <2> DEFINE q == queue[0]
             kept == {j \in DOMAIN q : ~primary_record_already_output_by_secondary(q[j])}
  <2>1. kept \in SUBSET DOMAIN q /\ q \in Seq(Record)
    BY <1>1
  <2>2. KeptPrimary = IF kept = {} THEN << >> ELSE SubSeq(q, Min(kept), Len(q))
    BY DEF KeptPrimary, DropWhile
  <2> HIDE DEF kept, q
  <2>3. k \in DOMAIN (IF kept = {} THEN << >> ELSE SubSeq(q, Min(kept), Len(q)))
    BY <1>2, <2>2
  <2>4. \E l \in DOMAIN q :
           (IF kept = {} THEN << >> ELSE SubSeq(q, Min(kept), Len(q)))[k] = q[l]
    BY <2>1, <2>3, DropMembers
  <2> QED  BY <2>2, <2>4 DEF q
<1>3. ASSUME NEW k \in DOMAIN KeptSecondary
      PROVE  \E l \in DOMAIN queue[1] : KeptSecondary[k] = queue[1][l]
  <2> DEFINE q == queue[1]
             kept == {j \in DOMAIN q : ~(q[j].idx <= SecondaryCutoff)}
  <2>1. kept \in SUBSET DOMAIN q /\ q \in Seq(Record)
    BY <1>1
  <2>2. KeptSecondary = IF kept = {} THEN << >> ELSE SubSeq(q, Min(kept), Len(q))
    BY DEF KeptSecondary, DropWhile
  <2> HIDE DEF kept, q
  <2>3. k \in DOMAIN (IF kept = {} THEN << >> ELSE SubSeq(q, Min(kept), Len(q)))
    BY <1>3, <2>2
  <2>4. \E l \in DOMAIN q :
           (IF kept = {} THEN << >> ELSE SubSeq(q, Min(kept), Len(q)))[k] = q[l]
    BY <2>1, <2>3, DropMembers
  <2> QED  BY <2>2, <2>4 DEF q
<1> QED  BY <1>2, <1>3

LEMMA CutQueues ==
  ASSUME EngineInv, queue' \in [Stream -> Seq(Record)],
         queue'[0] \in {queue[0], KeptPrimary, << >>},
         queue'[1] \in {queue[1], KeptSecondary}, NEW s \in Stream
  PROVE  /\ Len(queue'[s]) <= Len(queue[s])
         /\ \A k \in DOMAIN queue'[s] : \E l \in DOMAIN queue[s] : queue'[s][k] = queue[s][l]
<1>1. queue[s] \in Seq(Record) /\ Len(queue[s]) \in Nat
  BY LenProperties DEF EngineInv, TypeOK
<1>2. DOMAIN << >> = {}
  BY EmptySeq
<1>3. CASE s = 0
  BY <1>1, <1>2, <1>3, KeptRows, KeptMembers
<1>4. CASE s = 1
  BY <1>1, <1>4, KeptRows, KeptMembers
<1> QED  BY <1>3, <1>4 DEF Stream

LEMMA EngineQuiet ==
  ASSUME EngineInv, FeedInv, UNCHANGED net_vars,
         \/ DrainNotReady \/ DrainNothing \/ DrainPrimary
         \/ PrimaryNotDue \/ PrimaryEmpty \/ SecondaryDone
  PROVE  Quiet
<1>1. /\ UNCHANGED <<out, out_cc, history, next_index>>
      /\ pc' # "failed" /\ pc # "failed"
      /\ active' \in {active, 0}
  BY DEF DrainNotReady, DrainNothing, DrainPrimary, PrimaryNotDue, PrimaryEmpty, SecondaryDone,
         EnterOutage, Returned
<1>2. /\ queue' \in [Stream -> Seq(Record)]
      /\ queue'[0] \in {queue[0], KeptPrimary, << >>}
      /\ queue'[1] \in {queue[1], KeptSecondary}
  <2>1. queue \in [Stream -> Seq(Record)] /\ << >> \in Seq(Record)
    BY EmptySeq DEF EngineInv, TypeOK
  <2>2. KeptPrimary \in Seq(Record) /\ KeptSecondary \in Seq(Record)
    BY KeptRows DEF RowOf
  <2>3. CASE PrimaryNotDue \/ SecondaryDone
    BY <2>1, <2>3 DEF PrimaryNotDue, SecondaryDone
  <2>4. CASE DrainPrimary
    BY <2>1, <2>2, <2>4 DEF DrainPrimary, Stream
  <2>5. CASE DrainNotReady \/ DrainNothing \/ PrimaryEmpty
    BY <2>1, <2>2, <2>5 DEF DrainNotReady, DrainNothing, PrimaryEmpty, EnterOutage, Stream
  <2> QED  BY <2>3, <2>4, <2>5
<1>3. \A c \in Counter \ {"source_switches_0"} : stats'[c] = stats[c]
  <2>1. CASE DrainPrimary
    <3> DEFINE k == IF active = 0 THEN 0 ELSE 1
               z == Count(stats, "source_switches_0", k)
    <3>1. stats' = z /\ stats \in Stats
      BY <2>1 DEF DrainPrimary, Switched, EngineInv, TypeOK
    <3>2. "source_switches_0" \in Counter /\ k \in Nat
      BY DEF Counter
    <3> HIDE DEF k
    <3>3. \A y \in Counter : y # "source_switches_0" => z[y] = stats[y]
      BY <3>1, <3>2, CountCounts
    <3> QED  BY <3>1, <3>3
  <2>2. CASE stats' = stats
    BY <2>2
  <2> QED  BY <2>1, <2>2 DEF DrainNotReady, DrainNothing, PrimaryNotDue, PrimaryEmpty,
                             SecondaryDone
<1>4. /\ UNCHANGED <<scenario, carried, upto>>
      /\ upto' \in [Stream -> 0 .. Len(Source)] /\ \A s \in Stream : upto[s] <= upto'[s]
  <2>1. UNCHANGED <<scenario, carried, upto>>
    BY DEF net_vars
  <2>2. upto \in [Stream -> 0 .. Len(Source)] /\ Len(Source) \in Nat
    BY SourceType DEF FeedInv
  <2> QED  BY <2>1, <2>2
<1> QED  BY <1>1, <1>2, <1>3, <1>4, CutQueues DEF Quiet

LEMMA IdleQuiet ==
  ASSUME EngineInv, FeedInv,
         UNCHANGED <<scenario, carried, out, out_cc, history, next_index, queue, stats, active>>,
         upto' \in [Stream -> 0 .. Len(Source)], \A s \in Stream : upto[s] <= upto'[s],
         pc = "failed" => pc' = "failed"
  PROVE  Quiet
<1>1. /\ queue' \in [Stream -> Seq(Record)]
      /\ queue'[0] \in {queue[0], KeptPrimary, << >>}
      /\ queue'[1] \in {queue[1], KeptSecondary}
  BY DEF EngineInv, TypeOK
<1>2. \A c \in Counter \ {"source_switches_0"} : stats'[c] = stats[c]
  OBVIOUS
<1> QED  BY <1>1, <1>2, CutQueues DEF Quiet

LEMMA NetCases ==
  ASSUME EngineInv, FeedInv, [NetNext]_all_vars
  PROVE  \/ \E s \in Stream, pkt \in Packet : Arrival(s, pkt)
         \/ (PrimaryStep \/ SecondaryStep \/ SinkFails) /\ UNCHANGED net_vars
         \/ Quiet
<1>0. upto \in [Stream -> 0 .. Len(Source)] /\ Len(Source) \in Nat
  BY SourceType DEF FeedInv
<1>u. UNCHANGED net_vars =>
        /\ UNCHANGED <<scenario, carried>>
        /\ upto' \in [Stream -> 0 .. Len(Source)] /\ \A s \in Stream : upto[s] <= upto'[s]
  BY <1>0 DEF net_vars
<1>1. ASSUME NEW s \in Stream, Deliver(s) \/ Damage(s)
      PROVE  \E pkt \in Packet : Arrival(s, pkt)
  <2>1. upto[s] < Len(Source) /\ Source[upto[s] + 1] \in Packet
    BY <1>1, SourceType DEF Deliver, Damage
  <2>2. [Source[upto[s] + 1] EXCEPT !.tei = TRUE] \in Packet
    BY <2>1 DEF Packet
  <2> QED  BY <1>1, <2>1, <2>2 DEF Deliver, Damage, Arrival
<1>2. ASSUME NEW s \in Stream, Lose(s)
      PROVE  Quiet
  <2>1. UNCHANGED <<scenario, carried, out, out_cc, history, next_index, queue, stats, active, pc>>
    BY <1>2 DEF Lose, vars, engine_vars
  <2>2. /\ upto' \in [Stream -> 0 .. Len(Source)] /\ \A z \in Stream : upto[z] <= upto'[z]
    <3>1. upto' = [upto EXCEPT ![s] = upto[s] + 1] /\ upto[s] < Len(Source) /\ upto[s] \in Nat
      BY <1>0, <1>2 DEF Lose
    <3> QED  BY <1>0, <3>1
  <2> QED  BY <2>1, <2>2, IdleQuiet
<1>3. CASE Drain \/ Clock \/ Stop
  <2>1. /\ UNCHANGED net_vars
        /\ UNCHANGED <<out, out_cc, history, next_index, queue, stats, active>>
        /\ pc = "failed" => pc' = "failed"
    BY <1>3 DEF Drain, MainLoopDrain, Clock, Tick, Stop, Flush, vars, engine_vars
  <2> QED  BY <1>u, <2>1, IdleQuiet
<1>4. CASE Ended \/ UNCHANGED all_vars
  <2>1. /\ UNCHANGED net_vars
        /\ UNCHANGED <<out, out_cc, history, next_index, queue, stats, active, pc>>
    BY <1>4 DEF Ended, all_vars, vars, engine_vars
  <2> QED  BY <1>u, <2>1, IdleQuiet
<1>5. CASE Step
  BY <1>5, EngineQuiet DEF Step, EngineStep
<1>6. CASE Failure
  BY <1>6 DEF Failure
<1> QED  BY <1>1, <1>2, <1>3, <1>4, <1>5, <1>6 DEF NetNext

-----------------------------------------------------------------------------
(***************************************************************************)
(* What the feeds delivered stands in the broadcast, and the queues hold   *)
(* what the feeds delivered.                                               *)
(***************************************************************************)
Queued(c, s, r) == r.src = s /\ Arrived(c, s, r)

QueueArrived == \A s \in Stream : \A k \in DOMAIN queue[s] : Queued(carried, s, queue[s][k])

LEMMA PlacedInit == NetInit => Placed /\ QueueArrived
<1> SUFFICES ASSUME NetInit PROVE Placed /\ QueueArrived
  OBVIOUS
<1>1. Len(<< >>) = 0 /\ DOMAIN << >> = {}
  BY EmptySeq
<1>2. \A s \in Stream : carried[s] = << >> /\ upto[s] = 0 /\ queue[s] = << >>
  BY DEF NetInit, Init
<1>3. InPlace(<< >>, 0, Source)
  BY <1>1 DEF InPlace
<1> QED  BY <1>1, <1>2, <1>3 DEF Placed, QueueArrived

LEMMA PlacedStep ==
  ASSUME EngineInv, FeedInv, Placed, [NetNext]_all_vars
  PROVE  Placed'
<1>0. /\ carried \in [Stream -> Seq(Packet)] /\ Source \in Seq(Packet)
      /\ upto \in [Stream -> 0 .. Len(Source)] /\ Len(Source) \in Nat
  BY SourceType DEF FeedInv
<1>1. ASSUME NEW s \in Stream, NEW pkt \in Packet, Arrival(s, pkt)
      PROVE  Placed'
  <2>1. /\ carried' = [carried EXCEPT ![s] = Append(carried[s], pkt)]
        /\ upto' = [upto EXCEPT ![s] = upto[s] + 1] /\ Source' = Source
        /\ upto[s] < Len(Source)
        /\ pkt = Source[upto[s] + 1] \/ pkt = [Source[upto[s] + 1] EXCEPT !.tei = TRUE]
    BY <1>1 DEF Arrival, Arrive, Source
  <2>2. upto[s] \in Nat /\ upto[s] + 1 \in DOMAIN Source
    <3>1. upto[s] \in Nat /\ upto[s] + 1 \in 1 .. Len(Source)
      BY <1>0, <2>1
    <3> QED  BY <1>0, <3>1, LenProperties
  <2>3. Source[upto[s] + 1].pos = upto[s] + 1
    BY <2>2, SourceAssumption DEF FeedInv, Source
  <2>4. carried[s] \in Seq(Packet) /\ InPlace(carried[s], upto[s], Source)
    BY <1>0 DEF Placed
  <2>5. InPlace(Append(carried[s], pkt), upto[s] + 1, Source)
    BY <1>0, <2>1, <2>2, <2>3, <2>4, NextInPlace
  <2>6. ASSUME NEW z \in Stream PROVE InPlace(carried'[z], upto'[z], Source)
    <3>1. CASE z = s
      <4>1. carried'[z] = Append(carried[s], pkt) /\ upto'[z] = upto[s] + 1
        BY <1>0, <2>1, <3>1
      <4> QED  BY <2>5, <4>1
    <3>2. CASE z # s
      <4>1. carried'[z] = carried[z] /\ upto'[z] = upto[z]
        BY <1>0, <2>1, <3>2
      <4> QED  BY <4>1 DEF Placed
    <3> QED  BY <3>1, <3>2
  <2> QED  BY <2>1, <2>6 DEF Placed
<1>2. CASE UNCHANGED net_vars
  BY <1>2 DEF net_vars, Placed, Source
<1>3. CASE Quiet
  <2>1. /\ carried' = carried /\ Source' = Source
        /\ upto' \in [Stream -> 0 .. Len(Source)] /\ \A s \in Stream : upto[s] <= upto'[s]
    BY <1>3 DEF Quiet, Source
  <2>2. ASSUME NEW z \in Stream PROVE InPlace(carried[z], upto'[z], Source)
    <3>1. /\ upto[z] \in Nat /\ upto'[z] \in Nat /\ upto[z] <= upto'[z]
          /\ carried[z] \in Seq(Packet) /\ InPlace(carried[z], upto[z], Source)
      BY <1>0, <2>1 DEF Placed
    <3> QED  BY <3>1, LongerInPlace
  <2> QED  BY <2>1, <2>2 DEF Placed
<1> QED  BY <1>1, <1>2, <1>3, NetCases

LEMMA PushMembers ==
  ASSUME NEW q \in Seq(Record), NEW r \in Record, NEW k \in DOMAIN QueuePush(q, r)
  PROVE  QueuePush(q, r)[k] = r \/ \E l \in DOMAIN q : QueuePush(q, r)[k] = q[l]
<1>1. QueuePush(q, r) = packet_history_push(q, r)
  BY DEF QueuePush, packet_history_push, delay_queue_pop
<1>2. Retained(packet_history_push(q, r), 0) = packet_history_push(q, r)
  BY BufferAssumption DEF Retained
<1> QED  BY <1>1, <1>2, HistoryMembers

LEMMA PopMembers ==
  ASSUME NEW q \in Seq(Record), q # << >>, NEW k \in DOMAIN delay_queue_pop(q)
  PROVE  \E l \in DOMAIN q : delay_queue_pop(q)[k] = q[l]
<1> DEFINE t == delay_queue_pop(q)
<1>1. Len(q) \in Nat /\ DOMAIN q = 1 .. Len(q)
  BY LenProperties
<1>2. t \in Seq(Record) /\ Len(t) = Len(q) - 1 /\ \A j \in 1 .. Len(t) : t[j] = q[j + 1]
  BY HeadTailProperties DEF delay_queue_pop
<1>3. DOMAIN t = 1 .. Len(t)
  BY <1>2, LenProperties
<1> HIDE DEF t
<1>4. k \in 1 .. Len(t)
  BY <1>3 DEF t
<1>5. k + 1 \in DOMAIN q /\ t[k] = q[k + 1]
  BY <1>1, <1>2, <1>4
<1> QED  BY <1>5 DEF t

LEMMA QueueArrivedStep ==
  ASSUME EngineInv, FeedInv, AlignInv, QueueArrived, [NetNext]_all_vars
  PROVE  QueueArrived'
<1>0. /\ queue \in [Stream -> Seq(Record)] /\ carried \in [Stream -> Seq(Packet)]
      /\ next_index \in [Stream -> Nat] /\ now \in Nat
  BY DEF EngineInv, TypeOK, FeedInv
<1>1. ASSUME NEW s \in Stream, NEW pkt \in Packet, Arrival(s, pkt)
      PROVE  QueueArrived'
  <2> DEFINE r == [pkt |-> pkt, src |-> s, idx |-> next_index[s], at |-> now]
  <2>1. /\ queue' = [queue EXCEPT ![s] = QueuePush(queue[s], r)]
        /\ carried' = [carried EXCEPT ![s] = Append(carried[s], pkt)]
    BY <1>1 DEF Arrival, Arrive, PushPacket
  <2>2. r \in Record /\ r.idx = next_index[s] /\ r.pkt = pkt /\ r.src = s
    BY <1>0 DEF Record
  <2> HIDE DEF r
  <2>3. carried[s] \in Seq(Packet) /\ Len(carried[s]) = next_index[s] /\ next_index[s] \in Nat
    BY <1>0 DEF AlignInv, HistoryArrived
  <2>4. /\ Append(carried[s], pkt) \in Seq(Packet)
        /\ Len(Append(carried[s], pkt)) = next_index[s] + 1
        /\ Append(carried[s], pkt)[next_index[s] + 1] = pkt
    BY <2>3, AppendProperties
  <2>5. next_index[s] + 1 \in DOMAIN Append(carried[s], pkt)
    <3>1. DOMAIN Append(carried[s], pkt) = 1 .. next_index[s] + 1
      BY <2>4, LenProperties
    <3> QED  BY <2>3, <3>1
  <2>6. carried'[s] = Append(carried[s], pkt)
    BY <1>0, <2>1
  <2>7. Queued(carried', s, r)
    BY <2>2, <2>4, <2>5, <2>6 DEF Queued, Arrived
  <2>8. \A z \in Stream : \A l \in DOMAIN carried[z] :
          l \in DOMAIN carried'[z] /\ carried'[z][l] = carried[z][l]
    <3> SUFFICES ASSUME NEW z \in Stream, NEW l \in DOMAIN carried[z]
                 PROVE  l \in DOMAIN carried'[z] /\ carried'[z][l] = carried[z][l]
      OBVIOUS
    <3>1. carried'[z] \in {carried[z], Append(carried[z], pkt)} /\ carried[z] \in Seq(Packet)
      BY <1>0, <2>1
    <3> QED  BY <3>1, ArrivedStays
  <2>9. \A z \in Stream : \A k \in DOMAIN queue[z] : Queued(carried', z, queue[z][k])
    BY <2>8 DEF QueueArrived, Queued, Arrived
  <2>10. ASSUME NEW z \in Stream, NEW k \in DOMAIN queue'[z]
         PROVE  Queued(carried', z, queue'[z][k])
    <3>1. CASE z = s
      <4>1. queue'[z] = QueuePush(queue[s], r) /\ queue[s] \in Seq(Record)
        BY <1>0, <2>1, <3>1
      <4>2. k \in DOMAIN QueuePush(queue[s], r)
        BY <2>10, <4>1
      <4>3. \/ QueuePush(queue[s], r)[k] = r
            \/ \E l \in DOMAIN queue[s] : QueuePush(queue[s], r)[k] = queue[s][l]
        BY <2>2, <4>1, <4>2, PushMembers
      <4> QED  BY <2>7, <2>9, <3>1, <4>1, <4>3
    <3>2. CASE z # s
      <4>1. queue'[z] = queue[z]
        BY <1>0, <2>1, <3>2
      <4> QED  BY <2>9, <2>10, <4>1
    <3> QED  BY <3>1, <3>2
  <2> QED  BY <2>10 DEF QueueArrived
<1>2. ASSUME carried' = carried,
             \A s \in Stream : \A k \in DOMAIN queue'[s] :
               \E l \in DOMAIN queue[s] : queue'[s][k] = queue[s][l]
      PROVE  QueueArrived'
  <2>1. ASSUME NEW s \in Stream, NEW k \in DOMAIN queue'[s]
        PROVE  Queued(carried', s, queue'[s][k])
    <3>1. PICK l \in DOMAIN queue[s] : queue'[s][k] = queue[s][l]
      BY <1>2, <2>1
    <3> QED  BY <1>2, <3>1 DEF QueueArrived
  <2> QED  BY <2>1 DEF QueueArrived
<1>3. CASE (PrimaryStep \/ SecondaryStep \/ SinkFails) /\ UNCHANGED net_vars
  <2>1. carried' = carried
    BY <1>3 DEF net_vars
  <2>2. ASSUME NEW s \in Stream, NEW k \in DOMAIN queue'[s]
        PROVE  \E l \in DOMAIN queue[s] : queue'[s][k] = queue[s][l]
    <3>1. \/ queue'[s] = queue[s]
          \/ queue'[s] = delay_queue_pop(queue[s]) /\ queue[s] # << >>
      BY <1>0, <1>3 DEF PrimaryStep, SecondaryStep, SinkFails, Stream
    <3>2. queue[s] \in Seq(Record)
      BY <1>0
    <3> QED  BY <2>2, <3>1, <3>2, PopMembers
  <2> QED  BY <1>2, <2>1, <2>2
<1>4. CASE Quiet
  BY <1>2, <1>4 DEF Quiet
<1> QED  BY <1>1, <1>3, <1>4, NetCases

LEMMA PlacedInvariant == NetSpec => [](Placed /\ QueueArrived)
<1>1. EngineInv /\ FeedInv /\ AlignInv /\ (Placed /\ QueueArrived) /\ [NetNext]_all_vars
        => (Placed /\ QueueArrived)'
  BY PlacedStep, QueueArrivedStep
<1>2. NetSpec => []EngineInv
  BY FeedsImplementEngine, EngineInvariant, PTL
<1> QED  BY <1>1, <1>2, PlacedInit, FeedInvariant, AlignInvariant, PTL DEF NetSpec

-----------------------------------------------------------------------------
(***************************************************************************)
(* One turn of the loop of recovery_engine_drain, and all other steps.     *)
(***************************************************************************)
\* The counter of failovers moves when output leaves the primary.
LEMMA SecondaryCounts ==
  ASSUME EngineInv, SecondaryStep
  PROVE  stats'["source_switches_1"]
           = stats["source_switches_1"] + (IF active = 1 THEN 0 ELSE 1)
<1> DEFINE rs == <<Head(queue[1])>>
           k == IF active = 1 THEN 0 ELSE 1
<1>1. stats' = OutputStats(Switched(stats, 1), rs) /\ queue[1] # << >> /\ stats \in Stats
  BY DEF SecondaryStep, EngineInv, TypeOK
<1>2. rs \in Seq(Record)
  BY <1>1, HeadTailProperties DEF EngineInv, TypeOK, Stream
<1>3. CountBreaks(rs) \in Nat /\ CountRepeats(rs) \in Nat
  <2> HIDE DEF rs
  <2> QED  BY <1>2, PlacesCount DEF CountBreaks, CountRepeats, Checked
<1> DEFINE a == Count(stats, "source_switches_1", k)
           m == CountBreaks(rs)
           n == CountRepeats(rs)
           e == Count(a, "output_continuity_errors", m)
           f == Count(e, "output_duplicate_counters", n)
<1>4. stats' = f
  BY <1>1 DEF OutputStats, Switched
<1>5. /\ "output_continuity_errors" \in Counter /\ "output_duplicate_counters" \in Counter
      /\ "source_switches_1" \in Counter
  BY DEF Counter
<1>6. k \in Nat /\ m \in Nat /\ n \in Nat
  BY <1>3
<1> HIDE DEF rs, k, a, e, f, m, n
<1>7. a \in Stats /\ a["source_switches_1"] = stats["source_switches_1"] + k
  BY <1>1, <1>5, <1>6, CountCounts DEF a
<1>8. e \in Stats /\ \A y \in Counter : y # "output_continuity_errors" => e[y] = a[y]
  BY <1>5, <1>6, <1>7, CountCounts DEF e
<1>9. \A y \in Counter : y # "output_duplicate_counters" => f[y] = e[y]
  BY <1>5, <1>6, <1>8, CountCounts DEF f
<1>10. f["source_switches_1"] = stats["source_switches_1"] + k
  BY <1>5, <1>7, <1>8, <1>9
<1> QED  BY <1>4, <1>10 DEF k

(***************************************************************************)
(* A turn of the loop over the primary queue, up to the packet at which    *)
(* the sink fails.                                                         *)
(***************************************************************************)
TurnPacket == Head(queue[0])
TurnDecision == Decide(View, TurnPacket)
TurnSent == Sent(TurnDecision, TurnPacket)
TurnVia == SentVia(TurnDecision, TurnPacket)
TurnEntries(n) == Entries(TurnSent, TurnVia, TurnPacket.idx, n)

Turn(n) ==
  /\ pc = "primary" /\ queue[0] # << >> /\ n \in 0 .. Len(TurnSent)
  /\ out' = out \o TurnEntries(n)
  /\ UNCHANGED <<scenario, carried, upto, history, next_index, active>>
  /\ stats'["source_switches_1"] = stats["source_switches_1"]
  /\ stats'["primary_delay_overflows"] = stats["primary_delay_overflows"]
  /\ \/ /\ n = Len(TurnSent) /\ pc' = "primary" /\ Front(0)' = Front(0) + 1
        /\ out_cc' = [pid \in Pid |-> LastCC(out_cc, TurnSent, pid)]
     \/ pc' = "failed"

LEMMA WholeTurn ==
  ASSUME EngineInv, PrimaryStep, UNCHANGED net_vars
  PROVE  Turn(Len(TurnSent))
<1> DEFINE p == TurnPacket
           d == TurnDecision
           rs == TurnSent
<1>1. /\ pc = "primary" /\ pc' = "primary" /\ queue[0] # << >>
      /\ OutputRecords(rs, TurnVia, p.idx)
      /\ stats' = OutputStats(DecisionStats(stats, d), rs)
      /\ queue' = [queue EXCEPT ![0] = delay_queue_pop(queue[0])]
      /\ UNCHANGED <<history, next_index, active>>
  BY DEF PrimaryStep, TurnPacket, TurnDecision, TurnSent, TurnVia
<1>2. d \in Decision /\ rs \in Seq(Record) /\ Len(rs) \in Nat
  BY <1>1, FrontDecision DEF TurnPacket, TurnDecision, TurnSent
<1>3. Front(0)' = Front(0) + 1
  <2>1. queue[0] \in Seq(Record) /\ RowOf(queue[0], next_index[0]) /\ next_index[0] \in Nat
    BY DEF EngineInv, TypeOK, Rows, Stream
  <2>2. Len(delay_queue_pop(queue[0])) = Len(queue[0]) - 1 /\ Len(queue[0]) \in Nat
    BY <1>1, <2>1, PoppedRow
  <2>3. queue'[0] = delay_queue_pop(queue[0])
    BY <1>1 DEF EngineInv, TypeOK, Stream
  <2> QED  BY <1>1, <2>1, <2>2, <2>3 DEF Front
<1> HIDE DEF p, d, rs
<1>4. out' = out \o Entries(rs, TurnVia, p.idx, Len(rs))
  BY <1>1, <1>2, OutputType
<1>5. /\ stats'["source_switches_1"] = stats["source_switches_1"]
      /\ stats'["primary_delay_overflows"] = stats["primary_delay_overflows"]
  BY <1>1, <1>2, TurnStats DEF EngineInv, TypeOK
<1>6. out_cc' = [pid \in Pid |-> LastCC(out_cc, rs, pid)]
  BY <1>1 DEF OutputRecords
<1>7. Len(rs) \in 0 .. Len(rs)
  BY <1>2
<1>8. UNCHANGED <<scenario, carried, upto>>
  BY DEF net_vars
<1> QED  BY <1>1, <1>3, <1>4, <1>5, <1>6, <1>7, <1>8 DEF Turn, TurnEntries, p, rs

LEMMA BrokenTurn ==
  ASSUME EngineInv, FeedInv, SinkFails, UNCHANGED net_vars
  PROVE  (\E n \in Nat : Turn(n)) \/ Quiet
<1>1. /\ pc' = "failed"
      /\ UNCHANGED <<history, queue, next_index, active, out_cc, stats>>
      /\ UNCHANGED <<scenario, carried, upto>>
  BY DEF SinkFails, net_vars
<1>2. CASE pc = "primary"
  <2>1. queue[0] # << >>
    BY <1>2 DEF SinkFails
  <2>2. PICK n \in 0 .. Len(TurnSent) - 1 : out' = out \o TurnEntries(n)
    BY <1>2 DEF SinkFails, TurnEntries, Entries, TurnPacket, TurnDecision, TurnSent, TurnVia
  <2>3. Len(TurnSent) \in Nat
    BY <2>1, FrontDecision DEF TurnPacket, TurnDecision, TurnSent
  <2>4. n \in Nat /\ n \in 0 .. Len(TurnSent)
    BY <2>3
  <2>5. Turn(n)
    BY <1>1, <1>2, <2>1, <2>2, <2>4 DEF Turn
  <2> QED  BY <2>4, <2>5
<1>3. CASE pc # "primary"
  <2> DEFINE e == Entries(<<Head(queue[1])>>, <<"outage">>, Head(queue[1]).idx, 0)
  <2>1. \E n \in 0 .. Len(<<Head(queue[1])>>) - 1 :
          out' = out \o Entries(<<Head(queue[1])>>, <<"outage">>, Head(queue[1]).idx, n)
    BY <1>3 DEF SinkFails, Entries
  <2>2. \A n \in 0 .. Len(<<Head(queue[1])>>) - 1 : n = 0
    OBVIOUS
  <2>3. out' = out \o e
    BY <2>1, <2>2
  <2>4. e = << >>
    BY DEF Entries
  <2> HIDE DEF e
  <2>5. out' = out
    BY <2>3, <2>4, ConcatEmptySeq DEF EngineInv, TypeOK
  <2>6. /\ upto' \in [Stream -> 0 .. Len(Source)] /\ \A s \in Stream : upto[s] <= upto'[s]
    BY <1>1, SourceType DEF FeedInv
  <2>7. pc = "failed" => pc' = "failed"
    BY <1>1
  <2> QED  BY <1>1, <2>5, <2>6, <2>7, IdleQuiet
<1> QED  BY <1>2, <1>3

\* Every step of feeds and engine, as to the output.
LEMMA NetSteps ==
  ASSUME EngineInv, FeedInv, [NetNext]_all_vars
  PROVE  \/ \E s \in Stream, pkt \in Packet : Arrival(s, pkt)
         \/ \E n \in Nat : Turn(n)
         \/ SecondaryStep /\ UNCHANGED net_vars
         \/ Quiet
<1>1. CASE PrimaryStep /\ UNCHANGED net_vars
  <2>1. queue[0] # << >>
    BY <1>1 DEF PrimaryStep
  <2>2. Len(TurnSent) \in Nat
    BY <2>1, FrontDecision DEF TurnPacket, TurnDecision, TurnSent
  <2> QED  BY <1>1, <2>2, WholeTurn
<1>2. CASE SinkFails /\ UNCHANGED net_vars
  BY <1>2, BrokenTurn
<1> QED  BY <1>1, <1>2, NetCases

\* What recovery_engine_push_packet does to the counters and to the front of the
\* primary queue: they move together, when the queue is full.
LEMMA PushCounts ==
  ASSUME EngineInv, NEW s \in Stream, NEW pkt \in Packet, PushPacket(s, pkt)
  PROVE  \E n \in {0, 1} :
           /\ stats'["source_switches_1"] = stats["source_switches_1"]
           /\ stats'["primary_delay_overflows"] = stats["primary_delay_overflows"] + n
           /\ Front(0)' = Front(0) + n
<1> DEFINE r == [pkt |-> pkt, src |-> s, idx |-> next_index[s], at |-> now]
           n == IF s = 0 /\ Len(queue[0]) >= Capacity THEN 1 ELSE 0
           gap == SecondaryGap(s, r)
<1>1. /\ next_index' = [next_index EXCEPT ![s] = @ + 1]
      /\ queue' = [queue EXCEPT ![s] = QueuePush(@, r)]
      /\ stats' = Count(Count(stats, "secondary_missing", gap), "primary_delay_overflows", n)
  BY DEF PushPacket
<1>2. /\ stats \in Stats /\ gap \in Nat /\ n \in Nat /\ n \in {0, 1}
      /\ queue \in [Stream -> Seq(Record)] /\ next_index \in [Stream -> Nat]
      /\ Len(queue[0]) \in Nat /\ Capacity \in Nat \ {0}
      /\ r \in Record
  <2>1. s = 0 \/ s = 1
    BY DEF Stream
  <2>2. queue[0] \in Seq(Record)
    BY DEF EngineInv, TypeOK, Stream
  <2>3. gap \in Nat
    BY SecondaryGapType
  <2> QED  BY <2>2, <2>3, LenProperties, BufferAssumption DEF EngineInv, TypeOK, Record
<1> HIDE DEF gap, n, r
<1>3. /\ stats'["source_switches_1"] = stats["source_switches_1"]
      /\ stats'["primary_delay_overflows"] = stats["primary_delay_overflows"] + n
  <2> DEFINE a == Count(stats, "secondary_missing", gap)
  <2>1. /\ "secondary_missing" \in Counter /\ "primary_delay_overflows" \in Counter
        /\ "source_switches_1" \in Counter
    BY DEF Counter
  <2>a. stats \in Stats /\ gap \in Nat /\ n \in Nat
    BY <1>2
  <2>2. /\ a \in Stats
        /\ \A y \in Counter : y # "secondary_missing" => a[y] = stats[y]
    BY <2>a, <2>1, CountCounts
  <2>3. stats' = Count(a, "primary_delay_overflows", n)
    BY <1>1
  <2> HIDE DEF a
  <2>4. /\ stats'["primary_delay_overflows"] = a["primary_delay_overflows"] + n
        /\ \A y \in Counter : y # "primary_delay_overflows" => stats'[y] = a[y]
    <3>1. a \in Stats
      BY <2>2
    <3> DEFINE z == Count(a, "primary_delay_overflows", n)
    <3>2. /\ z["primary_delay_overflows"] = a["primary_delay_overflows"] + n
          /\ \A y \in Counter : y # "primary_delay_overflows" => z[y] = a[y]
      BY <2>a, <2>1, <3>1, CountCounts
    <3> QED  BY <2>3, <3>2
  <2> QED  BY <2>1, <2>2, <2>4
<1>4. Front(0)' = Front(0) + n
  <2>1. CASE s = 1
    <3>1. n = 0 /\ queue'[0] = queue[0] /\ next_index'[0] = next_index[0]
      BY <1>1, <1>2, <2>1 DEF n, Stream
    <3> QED  BY <3>1, FrontType DEF Front
  <2>2. CASE s = 0
    <3> DEFINE q == queue[0]
    <3>1. queue'[0] = QueuePush(q, r) /\ next_index'[0] = next_index[0] + 1
      BY <1>1, <1>2, <2>2 DEF Stream
    <3>2. q \in Seq(Record) /\ RowOf(q, next_index[0]) /\ next_index[0] \in Nat
      BY <1>2 DEF EngineInv, Rows, Stream
    <3>3. Len(q) \in Nat
      BY <1>2
    <3> HIDE DEF q
    <3>4. CASE Len(q) < Capacity
      <4>1. n = 0
        BY <1>2, <2>2, <3>4 DEF n, q
      <4>2. Len(QueuePush(q, r)) = Len(q) + 1
        BY <1>2, <3>2, <3>4, AppendProperties DEF QueuePush
      <4>3. Front(0)' = (next_index[0] + 1) - (Len(q) + 1) /\ Front(0) = next_index[0] - Len(q)
        BY <3>1, <4>2 DEF Front, q
      <4> QED  BY <3>2, <3>3, <4>1, <4>3
    <3>5. CASE ~(Len(q) < Capacity)
      <4>1. n = 1
        BY <1>2, <2>2, <3>5 DEF n, q
      <4>2. q # << >>
        BY <1>2, <3>5, EmptySeq
      <4>3. /\ delay_queue_pop(q) \in Seq(Record)
            /\ Len(delay_queue_pop(q)) = Len(q) - 1
        BY <3>2, <4>2, PoppedRow DEF RowOf
      <4>4. Len(QueuePush(q, r)) = (Len(q) - 1) + 1
        BY <1>2, <3>5, <4>3, AppendProperties DEF QueuePush
      <4>5. /\ Front(0)' = (next_index[0] + 1) - ((Len(q) - 1) + 1)
            /\ Front(0) = next_index[0] - Len(q)
        BY <3>1, <4>4 DEF Front, q
      <4> QED  BY <3>2, <3>3, <4>1, <4>5
    <3> QED  BY <3>4, <3>5
  <2> QED  BY <2>1, <2>2 DEF Stream
<1> QED  BY <1>2, <1>3, <1>4

\* Output that was never sent from the secondary comes from the primary.
PrimaryActive == NeverFailedOver => active = 0

\* A step that has not left the primary is none of the outage.
LEMMA StayingSteps ==
  ASSUME EngineInv, FeedInv, PrimaryActive, [NetNext]_all_vars, NeverFailedOver'
  PROVE  /\ NeverFailedOver /\ active' = 0
         /\ \/ \E s \in Stream, pkt \in Packet : Arrival(s, pkt)
            \/ \E n \in Nat : Turn(n)
            \/ Quiet
<1>1. stats["source_switches_1"] \in Nat
  BY DEF EngineInv, TypeOK, Stats, Counter
<1>2. ASSUME SecondaryStep PROVE FALSE
  <2>1. stats'["source_switches_1"]
          = stats["source_switches_1"] + (IF active = 1 THEN 0 ELSE 1)
    BY <1>2, SecondaryCounts
  <2>2. stats["source_switches_1"] = 0 /\ active = 1
    BY <1>1, <2>1 DEF NeverFailedOver
  <2> QED  BY <2>2 DEF PrimaryActive, NeverFailedOver
<1>3. ASSUME NEW s \in Stream, NEW pkt \in Packet, Arrival(s, pkt)
      PROVE  stats'["source_switches_1"] = stats["source_switches_1"] /\ active' = active
  <2>1. PushPacket(s, pkt)
    BY <1>3 DEF Arrival, Arrive
  <2> QED  BY <2>1, PushCounts DEF PushPacket
<1>4. ASSUME NEW n \in Nat, Turn(n)
      PROVE  stats'["source_switches_1"] = stats["source_switches_1"] /\ active' = active
  BY <1>4 DEF Turn
<1>5. ASSUME Quiet
      PROVE  stats'["source_switches_1"] = stats["source_switches_1"] /\ active' \in {active, 0}
  <2>1. "source_switches_1" \in Counter \ {"source_switches_0"}
    BY DEF Counter
  <2> QED  BY <1>5, <2>1 DEF Quiet
<1> QED  BY <1>2, <1>3, <1>4, <1>5, NetSteps DEF NeverFailedOver, PrimaryActive

LEMMA PrimaryActiveInvariant == NetSpec => []PrimaryActive
<1>1. NetInit => PrimaryActive
  BY DEF NetInit, Init, PrimaryActive
<1>2. EngineInv /\ FeedInv /\ PrimaryActive /\ [NetNext]_all_vars => PrimaryActive'
  <2> SUFFICES ASSUME EngineInv, FeedInv, PrimaryActive, [NetNext]_all_vars, NeverFailedOver'
               PROVE  active' = 0
    BY DEF PrimaryActive
  <2> QED  BY StayingSteps
<1>3. NetSpec => []EngineInv
  BY FeedsImplementEngine, EngineInvariant, PTL
<1> QED  BY <1>1, <1>2, <1>3, FeedInvariant, PTL DEF NetSpec

-----------------------------------------------------------------------------
(***************************************************************************)
(* What a turn inserts, in terms of what the feeds delivered.              *)
(***************************************************************************)
\* A block of a history is a stretch of it, within the indices asked for.
LEMMA BlockInRow ==
  ASSUME NEW v \in EngineView, NEW m \in Nat, Row(v.h[1], m), NEW first \in Int, NEW n \in Int
  PROVE  \E a \in Nat : \A k \in 1 .. Len(Block(v, first, n)) :
           /\ a + k \in DOMAIN v.h[1] /\ Block(v, first, n)[k] = v.h[1][a + k]
           /\ v.h[1][a + k].idx \in first .. first + n - 1
<1> DEFINE h == v.h[1]
           at == {k \in DOMAIN h : h[k].idx \in first .. first + n - 1}
           lo == Min(at)
           hi == Max(at)
           b == Block(v, first, n)
<1>1. h \in Seq(Record)
  BY DEF EngineView, Stream
<1>2. Len(h) \in Nat /\ DOMAIN h = 1 .. Len(h)
  BY <1>1, LenProperties
<1>3. CASE at = {}
  <2>1. b = << >>
    BY <1>3 DEF Block
  <2>2. Len(b) = 0
    BY <2>1, EmptySeq
  <2> HIDE DEF b
  <2>3. \A k \in 1 .. Len(b) : FALSE
    BY <2>2
  <2>4. 0 \in Nat
    OBVIOUS
  <2> QED  BY <2>3, <2>4 DEF b
<1>4. CASE at # {}
  <2>1. at \in SUBSET Nat /\ at \in SUBSET (0 .. Len(h))
    BY <1>2
  <2>2. b = SubSeq(h, lo, hi)
    BY <1>4 DEF Block
  <2>d. /\ \A x \in at : x \in DOMAIN h /\ h[x].idx \in first .. first + n - 1
    OBVIOUS
  <2> HIDE DEF at
  <2>3. lo \in at /\ hi \in at /\ lo <= hi
    BY <2>1, <1>2, <1>4, MinOfNaturals, MaxOfNaturals
  <2>4. /\ lo \in 1 .. Len(h) /\ hi \in 1 .. Len(h)
        /\ h[lo].idx \in first .. first + n - 1 /\ h[hi].idx \in first .. first + n - 1
    BY <1>2, <2>3, <2>d
  <2> HIDE DEF lo, hi, b
  <2>5. Len(b) = hi - lo + 1 /\ \A k \in 1 .. hi - lo + 1 : b[k] = h[lo + k - 1]
    <3> DEFINE q == h
    <3>1. /\ q \in Seq(Record) /\ b = SubSeq(q, lo, hi) /\ Len(q) \in Nat
          /\ lo \in 1 .. Len(q) /\ hi \in 1 .. Len(q) /\ lo <= hi
      BY <1>1, <1>2, <2>2, <2>3, <2>4
    <3> HIDE DEF q
    <3>2. Len(b) = hi - lo + 1 /\ \A k \in 1 .. hi - lo + 1 : b[k] = q[lo + k - 1]
      BY <3>1, SubSeqProperties
    <3> QED  BY <3>2 DEF q
  <2>6. \A x \in 1 .. Len(h) : h[x].idx = m - Len(h) + x - 1
    BY <1>2 DEF Row
  <2> DEFINE l == Len(h)
  <2>7. ASSUME NEW k \in 1 .. Len(b)
        PROVE  /\ (lo - 1) + k \in DOMAIN h /\ b[k] = h[(lo - 1) + k]
               /\ h[(lo - 1) + k].idx \in first .. first + n - 1
    <3>1. k \in 1 .. hi - lo + 1 /\ k \in Int
      BY <1>2, <2>4, <2>5
    <3> DEFINE y == (lo - 1) + k
    <3>2. y \in 1 .. Len(h) /\ lo <= y /\ y <= hi /\ lo + k - 1 = y
      BY <1>2, <2>3, <2>4, <3>1
    <3>3. b[k] = h[y]
      BY <2>5, <3>1, <3>2
    <3> HIDE DEF y
    <3>4. /\ h[y].idx = m - l + y - 1 /\ h[lo].idx = m - l + lo - 1
          /\ h[hi].idx = m - l + hi - 1
      BY <2>4, <2>6, <3>2
    <3>5. l \in Nat /\ y \in Int /\ lo \in Int /\ hi \in Int
      BY <1>2, <2>4, <3>2
    <3> DEFINE u == h[y].idx
               w == h[lo].idx
               z == h[hi].idx
    <3>6. u \in first .. first + n - 1
      <4>1. /\ w \in first .. first + n - 1 /\ z \in first .. first + n - 1
            /\ u = m - l + y - 1 /\ w = m - l + lo - 1 /\ z = m - l + hi - 1
        BY <2>4, <3>4
      <4> HIDE DEF u, w, z, l
      <4> QED  BY <3>2, <3>5, <4>1
    <3> QED  BY <1>2, <3>2, <3>3, <3>6 DEF y, u
  <2>8. lo - 1 \in Nat
    BY <1>2, <2>4
  <2> QED  BY <2>7, <2>8 DEF b
<1> QED  BY <1>3, <1>4

\* Two packets of the feeds that may serve as an anchor, and two that are equal.
Twins(x, y) == records_are_non_null_exact_anchor(OfPacket(x), OfPacket(y))
Equal(x, y) == records_exact_non_error_match(OfPacket(x), OfPacket(y))

LEMMA TwinRecords ==
  ASSUME NEW a, NEW b
  PROVE  /\ records_are_non_null_exact_anchor(a, b) => Twins(a.pkt, b.pkt)
         /\ records_exact_non_error_match(a, b) => Equal(a.pkt, b.pkt)
BY DEF records_are_non_null_exact_anchor, records_exact_non_error_match, SameContent,
       IsNull, Damaged, OfPacket, Twins, Equal

\* The packets rs of the secondary, from place off of it on, stand behind all that
\* the feeds have in common and in front of place l.
FillsPlaces(i, l, rs) ==
  LET a == anchor.p + 1
      b == anchor.s + 1
  IN  /\ l - b > i - a
      /\ \A m \in 1 .. i - a - 1 :
           /\ a + m \in 1 .. Len(carried[0]) /\ b + m \in 1 .. Len(carried[1])
           /\ Equal(carried[0][a + m], carried[1][b + m])
      /\ \E off \in Int : \A k \in 1 .. Len(rs) :
           /\ off + k \in b + (i - a) .. l - 1
           /\ rs[k].pkt = carried[1][off + k]

\* They continue the counter of the packet at place i of the primary.
FillsCounter(i, l, rs) ==
  LET x == carried[0][i]
      prev == out_cc[x.pid]
      n == Len(rs)
  IN  /\ ~record_fits_next_output(out_cc, OfPacket(x))
      /\ prev # NoCC /\ x.payload /\ n + 1 <= CCMod /\ (prev + n + 1) % CCMod = x.cc
      /\ \A k \in 1 .. n : \E j \in anchor.s + 2 .. l - 1 :
           /\ rs[k].pkt = carried[1][j]
           /\ carried[1][j].pid = x.pid /\ carried[1][j].payload
           /\ carried[1][j].cc = (prev + k) % CCMod

\* Both gaps lie between the last anchor and the packet at place i.
Fills(i, rs) ==
  \E l \in 1 .. Len(carried[1]) :
    /\ anchor.valid
    /\ anchor.p + 1 \in 1 .. i - 1 /\ i \in 1 .. Len(carried[0])
    /\ anchor.s + 1 \in 1 .. l - 1
    /\ Twins(carried[0][anchor.p + 1], carried[1][anchor.s + 1])
    /\ Twins(carried[0][i], carried[1][l])
    /\ FillsPlaces(i, l, rs) \/ FillsCounter(i, l, rs)

\* What a record of a history stands for.
LEMMA HistoryPlace ==
  ASSUME EngineInv, FeedInv, AlignInv, NEW s \in Stream,
         NEW r \in {history[s][k] : k \in DOMAIN history[s]}
  PROVE  /\ r \in Record /\ r.idx \in Nat /\ r.idx + 1 \in 1 .. Len(carried[s])
         /\ r.pkt = carried[s][r.idx + 1]
<1>1. history[s] \in Seq(Record) /\ carried[s] \in Seq(Packet)
  BY DEF EngineInv, TypeOK, FeedInv
<1>2. r \in Record
  BY <1>1, ElementOfSeq
<1>3. Arrived(carried, s, r)
  BY DEF AlignInv, HistoryArrived
<1>4. DOMAIN carried[s] = 1 .. Len(carried[s])
  BY <1>1, LenProperties
<1> QED  BY <1>2, <1>3, <1>4 DEF Arrived, Record

LEMMA FrontPlace ==
  ASSUME EngineInv, FeedInv, QueueArrived, queue[0] # << >>
  PROVE  /\ TurnPacket \in Record /\ TurnPacket.idx \in Nat /\ TurnPacket.idx = Front(0)
         /\ TurnPacket.idx + 1 \in 1 .. Len(carried[0])
         /\ TurnPacket.pkt = carried[0][TurnPacket.idx + 1] /\ TurnPacket.src = 0
<1>1. queue[0] \in Seq(Record) /\ carried[0] \in Seq(Packet)
  BY DEF EngineInv, TypeOK, FeedInv, Stream
<1>2. TurnPacket \in Record /\ 1 \in DOMAIN queue[0] /\ TurnPacket = queue[0][1]
  BY <1>1, LenProperties, EmptySeq, HeadTailProperties DEF TurnPacket
<1>3. Queued(carried, 0, TurnPacket)
  BY <1>2 DEF QueueArrived, Stream
<1>4. DOMAIN carried[0] = 1 .. Len(carried[0])
  BY <1>1, LenProperties
<1>5. TurnPacket.idx = Front(0)
  BY FrontType DEF TurnPacket
<1> QED  BY <1>2, <1>3, <1>4, <1>5 DEF Queued, Arrived, Record

LEMMA SecondaryPlace ==
  ASSUME EngineInv, FeedInv, QueueArrived, queue[1] # << >>
  PROVE  LET r == Head(queue[1])
         IN  /\ r \in Record /\ r.idx \in Nat /\ r.idx = Front(1) /\ r.src = 1
             /\ r.idx + 1 \in 1 .. Len(carried[1]) /\ r.pkt = carried[1][r.idx + 1]
<1> DEFINE r == Head(queue[1])
<1>1. /\ queue[1] \in Seq(Record) /\ carried[1] \in Seq(Packet)
      /\ RowOf(queue[1], next_index[1]) /\ next_index[1] \in Nat
  BY DEF EngineInv, TypeOK, Rows, FeedInv, Stream
<1>2. r \in Record /\ 1 \in DOMAIN queue[1] /\ r = queue[1][1]
  BY <1>1, LenProperties, EmptySeq, HeadTailProperties
<1>3. Queued(carried, 1, r)
  BY <1>2 DEF QueueArrived, Stream
<1>4. DOMAIN carried[1] = 1 .. Len(carried[1])
  BY <1>1, LenProperties
<1>5. r.idx = Front(1)
  BY <1>1, PoppedRow DEF Front
<1> QED  BY <1>2, <1>3, <1>4, <1>5 DEF Queued, Arrived, Record

\* Counting places from 1 instead of indices from 0.
LEMMA GapNumbers ==
  ASSUME NEW pa \in Nat, NEW sa \in Nat, NEW pi \in Nat, NEW si \in Nat,
         NEW pb \in Int, pb = pi - pa - 1, NEW n \in Int, n = (si - sa - 1) - pb
  PROVE  /\ n > 0 => (si + 1) - (sa + 1) > (pi + 1) - (pa + 1)
         /\ \A y \in Int : y \in (sa + pb + 1) .. (sa + pb + 1) + n - 1 =>
              y + 1 \in sa + 1 + ((pi + 1) - (pa + 1)) .. (si + 1) - 1
<1>1. n > 0 => (si + 1) - (sa + 1) > (pi + 1) - (pa + 1)
  OBVIOUS
<1>2. ASSUME NEW y \in Int, y \in (sa + pb + 1) .. (sa + pb + 1) + n - 1
      PROVE  y + 1 \in sa + 1 + ((pi + 1) - (pa + 1)) .. (si + 1) - 1
  <2>1. sa + pb + 1 <= y /\ y <= (sa + pb + 1) + n - 1
    BY <1>2
  <2>2. sa + 1 + ((pi + 1) - (pa + 1)) <= y + 1 /\ y + 1 <= (si + 1) - 1
    BY <2>1
  <2> QED  BY <2>2
<1> QED  BY <1>1, <1>2

LEMMA NextPlace ==
  ASSUME NEW a \in Int, NEW m \in Int, NEW x \in Int, x = a + m
  PROVE  x + 1 = a + 1 + m
OBVIOUS

LEMMA PositionFills ==
  ASSUME EngineInv, FeedInv, AlignInv, NEW v \in EngineView, v.h = history, v.anchor = anchor,
         NEW p \in Record, NEW s \in Record, NEW rs,
         BehindAnchor(v, p, s), FillsByPosition(v, p, s, rs)
  PROVE  FillsPlaces(p.idx + 1, s.idx + 1, rs)
<1> DEFINE pa == anchor.p
           sa == anchor.s
           pi == p.idx
           si == s.idx
           a == pa + 1
           b == sa + 1
           i == pi + 1
           l == si + 1
           pb == PrimaryBetween(v, p)
           n == MissingByPosition(v, p, s)
           first == v.anchor.s + pb + 1
<1>1. /\ pa \in Nat /\ sa \in Nat /\ pi \in Nat /\ si \in Nat
      /\ pi > pa /\ si > sa /\ v.anchor.s = sa
  BY DEF EngineInv, TypeOK, Anchor, Record, BehindAnchor
<1>2. pb = pi - pa - 1 /\ n = (si - sa - 1) - pb
  BY DEF PrimaryBetween, SecondaryBetween, MissingByPosition
<1>3. n > 0 /\ PrefixMatches(v, pb) /\ rs = Block(v, first, n)
  BY DEF FillsByPosition, GapBlock
<1> HIDE DEF pb, n
<1>4. pb \in Int /\ n \in Int /\ first \in Int /\ pb = i - a - 1
  <2>1. first = sa + pb + 1
    BY <1>1
  <2> HIDE DEF pa, sa, pi, si, first
  <2> QED  BY <1>1, <1>2, <2>1
<1>5. l - b > i - a
  <2> HIDE DEF pa, sa, pi, si
  <2> QED  BY <1>1, <1>2, <1>3, <1>4, GapNumbers
<1>6. ASSUME NEW m \in 1 .. i - a - 1
      PROVE  /\ a + m \in 1 .. Len(carried[0]) /\ b + m \in 1 .. Len(carried[1])
             /\ Equal(carried[0][a + m], carried[1][b + m])
  <2>1. m \in 1 .. pb
    BY <1>4
  <2>2. PICK x \in packet_history_find_index(v.h[0], v.anchor.p + m),
             y \in packet_history_find_index(v.h[1], v.anchor.s + m) :
               records_exact_non_error_match(x, y)
    BY <1>3, <2>1 DEF PrefixMatches
  <2>3. /\ x \in {history[0][k] : k \in DOMAIN history[0]} /\ x.idx = pa + m
        /\ y \in {history[1][k] : k \in DOMAIN history[1]} /\ y.idx = sa + m
    BY <2>2 DEF packet_history_find_index
  <2>4. /\ x.idx + 1 \in 1 .. Len(carried[0]) /\ x.pkt = carried[0][x.idx + 1]
        /\ y.idx + 1 \in 1 .. Len(carried[1]) /\ y.pkt = carried[1][y.idx + 1]
    BY <2>3, HistoryPlace DEF Stream
  <2>5. x.idx + 1 = a + m /\ y.idx + 1 = b + m
    <3> DEFINE xi == x.idx
               yi == y.idx
    <3>1. xi = pa + m /\ yi = sa + m /\ m \in Int /\ xi \in Int /\ yi \in Int
      BY <1>1, <2>3
    <3> HIDE DEF pa, sa, xi, yi
    <3>2. xi + 1 = a + m /\ yi + 1 = b + m
      <4>1. pa \in Int /\ sa \in Int
        BY <1>1
      <4> QED  BY <3>1, <4>1, NextPlace
    <3> QED  BY <3>2 DEF xi, yi
  <2>6. Equal(x.pkt, y.pkt)
    BY <2>2, TwinRecords
  <2> QED  BY <2>4, <2>5, <2>6
<1>7. \E off \in Int : \A k \in 1 .. Len(rs) :
        /\ off + k \in b + (i - a) .. l - 1
        /\ rs[k].pkt = carried[1][off + k]
  <2> DEFINE h == v.h[1]
             m == next_index[1]
  <2>1. Row(h, m) /\ m \in Nat
    BY DEF EngineInv, TypeOK, Rows, RowOf, Stream
  <2>2. PICK z \in Nat : \A k \in 1 .. Len(Block(v, first, n)) :
          /\ z + k \in DOMAIN v.h[1] /\ Block(v, first, n)[k] = v.h[1][z + k]
          /\ v.h[1][z + k].idx \in first .. first + n - 1
    <3>1. v \in EngineView /\ first \in Int /\ n \in Int /\ Row(v.h[1], m) /\ m \in Nat
      BY <1>4, <2>1
    <3> HIDE DEF h, m
    <3> QED  BY ONLY <3>1, BlockInRow
  <2> DEFINE off == (m - Len(h)) + z
  <2>3. Len(h) \in Nat
    BY LenProperties DEF EngineInv, TypeOK, Stream
  <2>4. off \in Int
    BY <2>1, <2>3
  <2>5. ASSUME NEW k \in 1 .. Len(rs)
        PROVE  /\ off + k \in b + (i - a) .. l - 1
               /\ rs[k].pkt = carried[1][off + k]
    <3> DEFINE r == h[z + k]
    <3>1. z + k \in DOMAIN h /\ rs[k] = r /\ r.idx \in first .. first + n - 1
      BY <1>3, <2>2
    <3>2. r \in {history[1][x] : x \in DOMAIN history[1]}
      BY <3>1
    <3>3. r.idx \in Nat /\ r.pkt = carried[1][r.idx + 1]
      BY <3>2, HistoryPlace DEF Stream
    <3>4. r.idx = m - Len(h) + (z + k) - 1
      BY <2>1, <3>1 DEF Row
    <3>5. k \in Int
      OBVIOUS
    <3>6. r.idx + 1 = off + k
      <4> DEFINE y == r.idx
                 w == Len(h)
      <4>1. y = m - w + (z + k) - 1 /\ y \in Nat /\ w \in Nat /\ off = (m - w) + z
        BY <2>3, <3>3, <3>4
      <4> HIDE DEF y, w, off
      <4> QED  BY <2>1, <3>5, <4>1 DEF y
    <3>7. r.idx + 1 \in b + (i - a) .. l - 1
      <4> DEFINE y == r.idx
      <4>1. y \in Nat /\ y \in first .. first + n - 1
        BY <3>1, <3>3
      <4>2. first = sa + pb + 1
        BY <1>1
      <4> HIDE DEF y, pa, sa, pi, si, r, first
      <4>3. y + 1 \in b + (i - a) .. l - 1
        <5>1. y \in (sa + pb + 1) .. (sa + pb + 1) + n - 1
          BY <4>1, <4>2, Zenon
        <5>2. y \in Int
          BY <4>1
        <5> QED  BY <1>1, <1>2, <1>4, <5>1, <5>2, GapNumbers, Zenon
      <4> QED  BY <4>3 DEF y
    <3> QED  BY <3>1, <3>3, <3>6, <3>7
  <2> HIDE DEF off
  <2> QED  BY <2>4, <2>5
<1> QED  BY <1>5, <1>6, <1>7 DEF FillsPlaces

LEMMA CounterFills ==
  ASSUME EngineInv, FeedInv, AlignInv, NEW v \in EngineView, v.h = history, v.anchor = anchor,
         v.cc = out_cc,
         NEW p \in Record, p.pkt = carried[0][p.idx + 1], NEW s \in Record, NEW rs \in Seq(Record),
         FillsByCounter(v, p, s, rs)
  PROVE  FillsCounter(p.idx + 1, s.idx + 1, rs)
<1> DEFINE x == carried[0][p.idx + 1]
           prev == out_cc[x.pid]
           n == Len(rs)
<1>1. p.pkt = x /\ n \in Nat /\ s.idx \in Nat /\ anchor.s \in Nat /\ CCMod \in Nat
  BY LenProperties, RecordAssumption DEF Record, EngineInv, TypeOK, Anchor
<1>2. PICK m \in MissingByCounter(v, p, s) :
        /\ DOMAIN rs = 1 .. m
        /\ \A k \in 1 .. m :
             /\ rs[k] \in {v.h[1][j] : j \in DOMAIN v.h[1]}
             /\ rs[k].idx \in v.anchor.s + 1 .. s.idx - 1
             /\ ~IsNull(rs[k]) /\ rs[k].pkt.payload
             /\ rs[k].pkt.pid = p.pkt.pid /\ rs[k].pkt.cc = ExpectedCC(v, p, k)
  BY DEF FillsByCounter
<1>3. m = n
  <2>1. m \in Nat
    BY MissingByCounterType
  <2>2. DOMAIN rs = 1 .. n
    BY LenProperties
  <2> HIDE DEF n
  <2> QED  BY <1>1, <1>2, <2>1, <2>2
<1>4. ~record_fits_next_output(out_cc, OfPacket(x))
  <2>1. ~record_fits_next_output(out_cc, p)
    BY DEF FillsByCounter
  <2> QED  BY <1>1, <2>1 DEF record_fits_next_output, FitsCC, IsNull, Damaged, OfPacket
<1>5. prev # NoCC /\ x.payload /\ n + 1 <= CCMod /\ (prev + n + 1) % CCMod = x.cc
  <2> DEFINE delta == infer_missing_from_cc(prev, p)
             g == MissingByPosition(v, p, s)
  <2>1. n \in (IF prev = NoCC THEN {}
               ELSE IF delta # {} THEN delta
               ELSE {y \in {g} : /\ p.pkt.payload
                                 /\ y > 0 /\ y <= CCMod - 1
                                 /\ p.pkt.cc = (prev + y + 1) % CCMod})
    BY <1>1, <1>2, <1>3 DEF MissingByCounter
  <2>2. prev # NoCC
    BY <2>1
  <2>3. CASE n \in delta
    <3>1. /\ n \in 0 .. CCMod - 2 /\ p.pkt.payload /\ (prev + n + 1) % CCMod = p.pkt.cc
      BY <2>3 DEF infer_missing_from_cc
    <3> HIDE DEF n
    <3>2. n + 1 <= CCMod
      BY <1>1, <3>1
    <3> QED  BY <1>1, <2>2, <3>1, <3>2
  <2>4. CASE n \notin delta
    <3> HIDE DEF n, delta, g
    <3>1. /\ n = g /\ p.pkt.payload /\ n <= CCMod - 1 /\ p.pkt.cc = (prev + n + 1) % CCMod
      BY <2>1, <2>4
    <3>2. n + 1 <= CCMod
      BY <1>1, <3>1
    <3> QED  BY <1>1, <2>2, <3>1, <3>2
  <2> QED  BY <2>3, <2>4
<1>6. ASSUME NEW k \in 1 .. n
      PROVE  \E j \in anchor.s + 2 .. (s.idx + 1) - 1 :
               /\ rs[k].pkt = carried[1][j]
               /\ carried[1][j].pid = x.pid /\ carried[1][j].payload
               /\ carried[1][j].cc = (prev + k) % CCMod
  <2>1. /\ rs[k] \in {history[1][j] : j \in DOMAIN history[1]}
        /\ rs[k].idx \in anchor.s + 1 .. s.idx - 1
        /\ rs[k].pkt.payload
        /\ rs[k].pkt.pid = x.pid /\ rs[k].pkt.cc = (prev + k) % CCMod
    BY <1>1, <1>2, <1>3 DEF ExpectedCC
  <2>2. rs[k].idx \in Nat /\ rs[k].pkt = carried[1][rs[k].idx + 1]
    BY <2>1, HistoryPlace DEF Stream
  <2> DEFINE j == rs[k].idx + 1
  <2>3. j \in anchor.s + 2 .. (s.idx + 1) - 1
    <3> DEFINE y == rs[k].idx
               z == anchor.s
    <3>1. y \in Nat /\ y \in z + 1 .. s.idx - 1 /\ z \in Nat
      BY <1>1, <2>1, <2>2
    <3> HIDE DEF y, z
    <3>2. y + 1 \in z + 2 .. (s.idx + 1) - 1
      BY <1>1, <3>1
    <3> QED  BY <3>2 DEF y, z
  <2>4. rs[k].pkt = carried[1][j]
    BY <2>2
  <2> HIDE DEF j
  <2> QED  BY <2>1, <2>3, <2>4
<1> QED  BY <1>4, <1>5, <1>6 DEF FillsCounter

LEMMA TurnFills ==
  ASSUME EngineInv, FeedInv, AlignInv, QueueArrived, queue[0] # << >>,
         ~TurnPacket.pkt.tei, TurnDecision.kind = "insert"
  PROVE  Fills(TurnPacket.idx + 1, TurnDecision.rs)
<1> DEFINE p == TurnPacket
           d == TurnDecision
           v == View
           i == p.idx + 1
<1>1. v \in EngineView /\ v.h = history /\ v.anchor = anchor /\ v.cc = out_cc
  BY ViewType DEF View
<1>2. p \in Record /\ p.idx \in Nat /\ i \in 1 .. Len(carried[0]) /\ p.pkt = carried[0][i]
  BY FrontPlace
<1>3. d = Decide(v, p) /\ d.kind = "insert" /\ ~p.pkt.tei
  BY DEF TurnDecision
<1>4. d.rs \in Seq(Record)
  BY <1>1, <1>2, <1>3, DecideType DEF Decision
<1> HIDE DEF p, d, v
<1>5. PICK s \in {v.h[1][k] : k \in DOMAIN v.h[1]} :
        /\ Enclosed(v, p, s)
        /\ FillsByPosition(v, p, s, d.rs) \/ FillsByCounter(v, p, s, d.rs)
  BY <1>1, <1>2, <1>3, InsertsAreEnclosed
<1>6. /\ s \in Record /\ s.idx \in Nat /\ s.idx + 1 \in 1 .. Len(carried[1])
      /\ s.pkt = carried[1][s.idx + 1]
  BY <1>1, <1>5, HistoryPlace DEF Stream
<1>7. /\ BehindAnchor(v, p, s) /\ BeforeAnchorHolds(v)
      /\ records_are_non_null_exact_anchor(p, s)
  BY <1>5 DEF Enclosed
<1>8. anchor.valid /\ s.idx > anchor.s /\ p.idx > anchor.p /\ anchor.s \in Nat /\ anchor.p \in Nat
  BY <1>1, <1>7 DEF BehindAnchor, EngineInv, TypeOK, Anchor
<1>9. anchor.p + 1 \in 1 .. i - 1 /\ anchor.s + 1 \in 1 .. (s.idx + 1) - 1
  <2> DEFINE y == anchor.p
             z == anchor.s
             l == s.idx
  <2>1. l > z /\ p.idx > y /\ z \in Nat /\ y \in Nat /\ l \in Nat
    BY <1>6, <1>8
  <2> HIDE DEF y, z, l
  <2>2. y + 1 \in 1 .. i - 1 /\ z + 1 \in 1 .. (l + 1) - 1
    BY <1>2, <2>1
  <2> QED  BY <2>2 DEF y, z, l
<1>10. Twins(carried[0][anchor.p + 1], carried[1][anchor.s + 1])
  <2>1. PICK x \in packet_history_find_index(history[0], anchor.p),
             y \in packet_history_find_index(history[1], anchor.s) :
               records_are_non_null_exact_anchor(x, y)
    BY <1>1, <1>7 DEF BeforeAnchorHolds
  <2>2. /\ x \in {history[0][k] : k \in DOMAIN history[0]} /\ x.idx = anchor.p
        /\ y \in {history[1][k] : k \in DOMAIN history[1]} /\ y.idx = anchor.s
    BY <2>1 DEF packet_history_find_index
  <2>3. x.pkt = carried[0][anchor.p + 1] /\ y.pkt = carried[1][anchor.s + 1]
    BY <2>2, HistoryPlace DEF Stream
  <2> QED  BY <2>1, <2>3, TwinRecords
<1>11. Twins(carried[0][i], carried[1][s.idx + 1])
  BY <1>2, <1>6, <1>7, TwinRecords
<1>12. FillsPlaces(i, s.idx + 1, d.rs) \/ FillsCounter(i, s.idx + 1, d.rs)
  BY <1>1, <1>2, <1>4, <1>5, <1>6, <1>7, PositionFills, CounterFills
<1> QED  BY <1>2, <1>6, <1>8, <1>9, <1>10, <1>11, <1>12 DEF Fills, p, d

-----------------------------------------------------------------------------
(***************************************************************************)
(* What an entry of the output is known to be, in terms of the feeds.  Its *)
(* slot is the index of the primary packet in front of which, instead of   *)
(* which or as which it was sent.                                          *)
(***************************************************************************)
\* The copy at place j of the secondary, for the damaged packet at place i.
CopyOf(c, i, j) ==
  /\ c[0][i].tei
  /\ c[0][i].pid # NullPid /\ c[0][i].payload /\ c[1][j].payload
  /\ c[0][i].pid = c[1][j].pid /\ c[0][i].cc = c[1][j].cc
  /\ i + 1 \in 1 .. Len(c[0]) /\ j + 1 \in 1 .. Len(c[1])
  /\ Twins(c[0][i + 1], c[1][j + 1])

EntryKnown(c, e) ==
  /\ e.via # "outage" => e.slot + 1 \in 1 .. Len(c[0])
  /\ e.via = "primary" => e.rec.pkt = c[0][e.slot + 1]
  /\ e.via = "tei" =>
       \E j \in 1 .. Len(c[1]) : e.rec.pkt = c[1][j] /\ CopyOf(c, e.slot + 1, j)
  /\ e.via = "recovery" =>
       \E l \in 1 .. Len(c[1]) : \E j \in 1 .. l - 1 :
         e.rec.pkt = c[1][j] /\ Twins(c[0][e.slot + 1], c[1][l])
  /\ e.via = "outage" => e.slot + 1 \in 1 .. Len(c[1]) /\ e.rec.pkt = c[1][e.slot + 1]

EntriesKnown == \A k \in DOMAIN out : EntryKnown(carried, out[k])

\* It stays known when a feed delivers more.
LEMMA KnownStays ==
  ASSUME NEW c \in [Stream -> Seq(Packet)], NEW c1 \in [Stream -> Seq(Packet)], NEW e,
         \A s \in Stream : \A i \in 1 .. Len(c[s]) : i \in 1 .. Len(c1[s]) /\ c1[s][i] = c[s][i],
         EntryKnown(c, e)
  PROVE  EntryKnown(c1, e)
<1>1. /\ \A i \in 1 .. Len(c[0]) : i \in 1 .. Len(c1[0]) /\ c1[0][i] = c[0][i]
      /\ \A i \in 1 .. Len(c[1]) : i \in 1 .. Len(c1[1]) /\ c1[1][i] = c[1][i]
  BY DEF Stream
<1> DEFINE i == e.slot + 1
<1>2. e.via # "outage" => i \in 1 .. Len(c1[0]) /\ c1[0][i] = c[0][i]
  BY <1>1 DEF EntryKnown
<1>3. e.via = "primary" => e.rec.pkt = c1[0][i]
  BY <1>2 DEF EntryKnown
<1>4. ASSUME e.via = "tei"
      PROVE  \E j \in 1 .. Len(c1[1]) : e.rec.pkt = c1[1][j] /\ CopyOf(c1, i, j)
  <2>1. PICK j \in 1 .. Len(c[1]) : e.rec.pkt = c[1][j] /\ CopyOf(c, i, j)
    BY <1>4 DEF EntryKnown
  <2> HIDE DEF i
  <2>2. j \in 1 .. Len(c1[1]) /\ c1[1][j] = c[1][j]
    BY <1>1
  <2>3. /\ i + 1 \in 1 .. Len(c1[0]) /\ c1[0][i + 1] = c[0][i + 1]
        /\ j + 1 \in 1 .. Len(c1[1]) /\ c1[1][j + 1] = c[1][j + 1]
    BY <1>1, <2>1 DEF CopyOf
  <2>4. CopyOf(c1, i, j)
    BY <1>2, <1>4, <2>1, <2>2, <2>3 DEF CopyOf
  <2> QED  BY <2>1, <2>2, <2>4
<1>5. ASSUME e.via = "recovery"
      PROVE  \E l \in 1 .. Len(c1[1]) : \E j \in 1 .. l - 1 :
               e.rec.pkt = c1[1][j] /\ Twins(c1[0][i], c1[1][l])
  <2>1. PICK l \in 1 .. Len(c[1]) : \E j \in 1 .. l - 1 :
               e.rec.pkt = c[1][j] /\ Twins(c[0][i], c[1][l])
    BY <1>5 DEF EntryKnown
  <2>2. PICK j \in 1 .. l - 1 : e.rec.pkt = c[1][j] /\ Twins(c[0][i], c[1][l])
    BY <2>1
  <2>3. j \in 1 .. Len(c[1])
    <3>1. Len(c[1]) \in Nat
      BY LenProperties DEF Stream
    <3> QED  BY <3>1
  <2>4. l \in 1 .. Len(c1[1]) /\ c1[1][l] = c[1][l] /\ c1[1][j] = c[1][j]
    BY <1>1, <2>3
  <2> QED  BY <1>2, <1>5, <2>2, <2>4
<1>6. e.via = "outage" => i \in 1 .. Len(c1[1]) /\ e.rec.pkt = c1[1][i]
  BY <1>1 DEF EntryKnown
<1> QED  BY <1>2, <1>3, <1>4, <1>5, <1>6 DEF EntryKnown

\* An entry of an output that was added to.
LEMMA EntryOf ==
  ASSUME NEW S, NEW o \in Seq(S), NEW new \in Seq(S), NEW i \in DOMAIN (o \o new)
  PROVE  \/ i \in DOMAIN o /\ (o \o new)[i] = o[i]
         \/ i - Len(o) \in DOMAIN new /\ (o \o new)[i] = new[i - Len(o)] /\ i > Len(o)
<1> DEFINE x == o \o new
<1>1. /\ Len(o) \in Nat /\ DOMAIN o = 1 .. Len(o)
      /\ Len(new) \in Nat /\ DOMAIN new = 1 .. Len(new)
  BY LenProperties
<1>2. /\ x \in Seq(S) /\ Len(x) = Len(o) + Len(new)
      /\ \A k \in 1 .. Len(o) + Len(new) :
            x[k] = IF k <= Len(o) THEN o[k] ELSE new[k - Len(o)]
  BY ConcatProperties
<1>3. DOMAIN x = 1 .. Len(o) + Len(new)
  BY <1>2, LenProperties
<1>4. i \in DOMAIN x
  OBVIOUS
<1> HIDE DEF x
<1>5. i \in 1 .. Len(o) + Len(new)
  BY <1>3, <1>4
<1>6. x[i] = IF i <= Len(o) THEN o[i] ELSE new[i - Len(o)]
  BY <1>2, <1>5
<1>7. CASE i <= Len(o)
  <2>1. i \in 1 .. Len(o)
    BY <1>1, <1>5, <1>7
  <2>2. x[i] = o[i]
    BY <1>6, <1>7, Zenon
  <2>3. i \in DOMAIN o
    BY <1>1, <2>1, Zenon
  <2> QED  BY <2>2, <2>3, Zenon DEF x
<1>8. CASE ~(i <= Len(o))
  <2>1. i - Len(o) \in 1 .. Len(new) /\ i > Len(o)
    BY <1>1, <1>5, <1>8
  <2>2. x[i] = new[i - Len(o)]
    BY <1>6, <1>8, Zenon
  <2>3. i - Len(o) \in DOMAIN new
    BY <1>1, <2>1, Zenon
  <2> QED  BY <2>1, <2>2, <2>3, Zenon DEF x
<1> QED  BY <1>7, <1>8

\* And what is in the output stays there.
LEMMA EntryStays ==
  ASSUME NEW S, NEW o \in Seq(S), NEW new \in Seq(S)
  PROVE  /\ o \o new \in Seq(S) /\ Len(o \o new) = Len(o) + Len(new)
         /\ \A i \in DOMAIN o : i \in DOMAIN (o \o new) /\ (o \o new)[i] = o[i]
         /\ \A j \in DOMAIN new : Len(o) + j \in DOMAIN (o \o new) /\ (o \o new)[Len(o) + j] = new[j]
<1> DEFINE x == o \o new
<1>1. /\ Len(o) \in Nat /\ DOMAIN o = 1 .. Len(o)
      /\ Len(new) \in Nat /\ DOMAIN new = 1 .. Len(new)
  BY LenProperties
<1>2. /\ x \in Seq(S) /\ Len(x) = Len(o) + Len(new)
      /\ \A k \in 1 .. Len(o) + Len(new) :
            x[k] = IF k <= Len(o) THEN o[k] ELSE new[k - Len(o)]
  BY ConcatProperties
<1>3. DOMAIN x = 1 .. Len(o) + Len(new)
  BY <1>2, LenProperties
<1> HIDE DEF x
<1>4. /\ \A i \in DOMAIN o : i \in DOMAIN x /\ x[i] = o[i]
      /\ \A j \in DOMAIN new : Len(o) + j \in DOMAIN x /\ x[Len(o) + j] = new[j]
  BY <1>1, <1>2, <1>3
<1> QED  BY <1>2, <1>4 DEF x

\* A packet that a turn inserts is one of the secondary, in front of the twin of
\* the packet that is due.
LEMMA FilledFromSecondary ==
  ASSUME EngineInv, FeedInv, NEW i \in Nat, NEW rs, Fills(i, rs), NEW k \in 1 .. Len(rs)
  PROVE  /\ i \in 1 .. Len(carried[0])
         /\ \E l \in 1 .. Len(carried[1]) : \E j \in 1 .. l - 1 :
              rs[k].pkt = carried[1][j] /\ Twins(carried[0][i], carried[1][l])
<1>1. PICK l \in 1 .. Len(carried[1]) :
        /\ anchor.p + 1 \in 1 .. i - 1 /\ i \in 1 .. Len(carried[0])
        /\ anchor.s + 1 \in 1 .. l - 1
        /\ Twins(carried[0][i], carried[1][l])
        /\ FillsPlaces(i, l, rs) \/ FillsCounter(i, l, rs)
  BY DEF Fills
<1>2. anchor.p \in Nat /\ anchor.s \in Nat
  BY DEF EngineInv, TypeOK, Anchor
<1> DEFINE a == anchor.p
           b == anchor.s
<1>3. a \in Nat /\ b \in Nat /\ a + 1 \in 1 .. i - 1 /\ l \in Int
  BY <1>1, <1>2
<1>4. CASE FillsPlaces(i, l, rs)
  <2>1. PICK off \in Int : \A m \in 1 .. Len(rs) :
          /\ off + m \in (b + 1) + (i - (a + 1)) .. l - 1
          /\ rs[m].pkt = carried[1][off + m]
    BY <1>4 DEF FillsPlaces
  <2> DEFINE j == off + k
  <2>2. j \in (b + 1) + (i - (a + 1)) .. l - 1 /\ rs[k].pkt = carried[1][j]
    BY <2>1
  <2> HIDE DEF a, b, j
  <2>3. j \in 1 .. l - 1
    BY <1>3, <2>2
  <2> QED  BY <1>1, <2>2, <2>3
<1>5. CASE FillsCounter(i, l, rs)
  <2>1. PICK j \in b + 2 .. l - 1 : rs[k].pkt = carried[1][j]
    BY <1>5 DEF FillsCounter
  <2> HIDE DEF b
  <2>2. j \in 1 .. l - 1
    BY <1>3
  <2> QED  BY <1>1, <2>1, <2>2
<1> QED  BY <1>1, <1>4, <1>5

\* The j-th packet a turn sends is one it inserts.
Inserted(j) ==
  /\ ~TurnPacket.pkt.tei /\ TurnDecision.kind = "insert"
  /\ j \in 1 .. Len(TurnDecision.rs) /\ TurnSent[j] = TurnDecision.rs[j]
  /\ Fills(TurnPacket.idx + 1, TurnDecision.rs)

\* What a turn sends: inserted packets and then the one that is due, or its copy.
LEMMA TurnCases ==
  ASSUME EngineInv, FeedInv, AlignInv, QueueArrived, queue[0] # << >>,
         NEW j \in 1 .. Len(TurnSent)
  PROVE  \/ TurnVia[j] = "primary" /\ j = Len(TurnSent) /\ TurnSent[j] = TurnPacket
         \/ TurnVia[j] = "tei" /\ j = Len(TurnSent) /\ Replaced(TurnDecision, TurnPacket)
         \/ TurnVia[j] = "recovery" /\ Inserted(j)
<1> DEFINE p == TurnPacket
           d == TurnDecision
           rs == TurnSent
<1>1. /\ p \in Record /\ d \in Decision /\ (Replaced(d, p) => Len(d.rs) = 1)
      /\ rs = Sent(d, p) /\ rs \in Seq(Record)
  BY FrontDecision DEF TurnPacket, TurnDecision, TurnSent
<1>2. d.rs \in Seq(Record) /\ Len(d.rs) \in Nat
  BY <1>1, LenProperties DEF Decision
<1>3. TurnVia[j] = IF Replaced(d, p) THEN "tei" ELSE IF j <= Len(d.rs) THEN "recovery" ELSE "primary"
  BY DEF TurnVia, SentVia, TurnSent
<1>j. j \in 1 .. Len(rs)
  OBVIOUS
<1>v. View \in EngineView /\ d = Decide(View, p)
  BY ViewType DEF TurnDecision
<1>t. p = TurnPacket /\ d = TurnDecision /\ rs = TurnSent
  OBVIOUS
<1> HIDE DEF p, d, rs
<1>4. CASE Replaced(d, p)
  <2>1. rs = d.rs
    BY <1>1, <1>4 DEF Sent
  <2>2. Len(rs) = 1
    BY <1>1, <1>4, <2>1
  <2>3. j = Len(rs)
    BY <1>j, <2>2
  <2> QED  BY <1>3, <1>4, <1>t, <2>3
<1>5. CASE ~Replaced(d, p)
  <2>1. rs = Append(d.rs, p)
    BY <1>1, <1>5 DEF Sent
  <2>2. /\ Len(rs) = Len(d.rs) + 1 /\ rs[Len(d.rs) + 1] = p
        /\ \A k \in 1 .. Len(d.rs) : rs[k] = d.rs[k]
    BY <1>1, <1>2, <2>1, AppendProperties
  <2>3. CASE j <= Len(d.rs)
    <3>1. j \in 1 .. Len(d.rs)
      BY <1>2, <1>j, <2>2, <2>3
    <3>2. d.kind = "insert"
      <4>1. d.rs # << >>
        BY <3>1, EmptySeq
      <4> QED  BY <1>1, <1>v, <4>1, RejectsAreEmpty
    <3>3. ~p.pkt.tei
      BY <1>5, <3>2 DEF Replaced
    <3>4. Fills(p.idx + 1, d.rs)
      BY <1>t, <3>2, <3>3, TurnFills
    <3>5. rs[j] = d.rs[j]
      BY <2>2, <3>1
    <3> QED  BY <1>3, <1>5, <2>3, <1>t, <3>1, <3>2, <3>3, <3>4, <3>5 DEF Inserted
  <2>4. CASE ~(j <= Len(d.rs))
    <3>1. j = Len(rs) /\ j = Len(d.rs) + 1
      BY <1>2, <1>j, <2>2, <2>4
    <3> QED  BY <1>3, <1>5, <1>t, <2>2, <2>4, <3>1
  <2> QED  BY <2>3, <2>4
<1> QED  BY <1>4, <1>5

\* And all of it is known.
LEMMA TurnEntry ==
  ASSUME EngineInv, FeedInv, AlignInv, QueueArrived, queue[0] # << >>,
         NEW n \in 0 .. Len(TurnSent), NEW j \in 1 .. n
  PROVE  /\ j \in 1 .. Len(TurnSent)
         /\ TurnEntries(n)[j] = [rec |-> TurnSent[j], via |-> TurnVia[j], slot |-> TurnPacket.idx]
         /\ EntryKnown(carried, TurnEntries(n)[j])
<1> DEFINE p == TurnPacket
           d == TurnDecision
           i == p.idx + 1
           e == [rec |-> TurnSent[j], via |-> TurnVia[j], slot |-> p.idx]
<1>1. /\ p \in Record /\ p.idx \in Nat /\ i \in 1 .. Len(carried[0]) /\ p.pkt = carried[0][i]
  BY FrontPlace
<1>2. Len(TurnSent) \in Nat
  BY FrontDecision DEF TurnPacket, TurnDecision, TurnSent
<1>3. j \in 1 .. Len(TurnSent)
  BY <1>2
<1>4. TurnEntries(n)[j] = e
  BY DEF TurnEntries, Entries
<1>5. e.rec = TurnSent[j] /\ e.via = TurnVia[j] /\ e.slot = p.idx /\ e.slot + 1 = i
  OBVIOUS
<1>t. p = TurnPacket /\ d = TurnDecision /\ i = p.idx + 1
  OBVIOUS
<1> HIDE DEF e, p, d, i
<1>6. ASSUME TurnVia[j] = "primary" /\ TurnSent[j] = TurnPacket
      PROVE  EntryKnown(carried, e)
  <2>1. e.via = "primary" /\ e.rec.pkt = carried[0][e.slot + 1] /\ e.slot + 1 \in 1 .. Len(carried[0])
    BY <1>1, <1>5, <1>6, <1>t
  <2> HIDE DEF e
  <2> QED  BY <2>1 DEF EntryKnown
<1>7. ASSUME TurnVia[j] = "tei" /\ j = Len(TurnSent) /\ Replaced(d, p)
      PROVE  EntryKnown(carried, e)
  <2>1. p.pkt.tei /\ d.kind = "insert" /\ d = Decide(View, p)
    BY <1>7 DEF Replaced, d, p, TurnDecision
  <2>2. PICK c \in {View.h[1][k] : k \in DOMAIN View.h[1]} :
           /\ d.rs = <<c>>
           /\ ~IsNull(p) /\ p.pkt.payload /\ ~IsNull(c) /\ c.pkt.payload
           /\ c.pkt.pid = p.pkt.pid /\ c.pkt.cc = p.pkt.cc
           /\ \E a \in packet_history_find_index(View.h[0], p.idx + 1),
                 b \in packet_history_find_index(View.h[1], c.idx + 1) :
                   records_are_non_null_exact_anchor(a, b)
    BY <2>1, CopyIsFollowed
  <2>3. PICK a \in packet_history_find_index(View.h[0], p.idx + 1),
             b \in packet_history_find_index(View.h[1], c.idx + 1) :
               records_are_non_null_exact_anchor(a, b)
    BY <2>2
  <2>4. View.h = history
    BY DEF View
  <2>5. /\ c \in {history[1][k] : k \in DOMAIN history[1]}
        /\ a \in {history[0][k] : k \in DOMAIN history[0]} /\ a.idx = p.idx + 1
        /\ b \in {history[1][k] : k \in DOMAIN history[1]} /\ b.idx = c.idx + 1
    BY <2>2, <2>3, <2>4 DEF packet_history_find_index
  <2>6. /\ c.idx + 1 \in 1 .. Len(carried[1]) /\ c.pkt = carried[1][c.idx + 1]
        /\ a.idx + 1 \in 1 .. Len(carried[0]) /\ a.pkt = carried[0][a.idx + 1]
        /\ b.idx + 1 \in 1 .. Len(carried[1]) /\ b.pkt = carried[1][b.idx + 1]
    BY <2>5, HistoryPlace DEF Stream
  <2> DEFINE m == c.idx + 1
  <2>7. /\ i + 1 \in 1 .. Len(carried[0]) /\ a.pkt = carried[0][i + 1]
        /\ m + 1 \in 1 .. Len(carried[1]) /\ b.pkt = carried[1][m + 1]
    BY <1>t, <2>5, <2>6
  <2>8. Twins(carried[0][i + 1], carried[1][m + 1])
    BY <2>3, <2>7, TwinRecords
  <2>9. CopyOf(carried, i, m)
    <3>1. c.pkt = carried[1][m] /\ p.pkt = carried[0][i] /\ m \in 1 .. Len(carried[1])
      BY <1>1, <2>6
    <3> HIDE DEF m
    <3> QED  BY <2>1, <2>2, <2>7, <2>8, <3>1 DEF CopyOf, IsNull
  <2>10. TurnSent[j] = c
    <3>1. TurnSent = <<c>>
      BY <1>7, <2>2 DEF TurnSent, Sent, d, p
    <3> QED  BY <1>7, <3>1
  <2>11. e.rec.pkt = carried[1][m] /\ m \in 1 .. Len(carried[1])
    BY <1>5, <2>6, <2>10
  <2> HIDE DEF m
  <2>12. /\ e.via = "tei" /\ e.slot + 1 \in 1 .. Len(carried[0])
         /\ CopyOf(carried, e.slot + 1, m)
    BY <1>1, <1>5, <1>7, <2>9
  <2> QED  BY <2>11, <2>12 DEF EntryKnown
<1>8. ASSUME TurnVia[j] = "recovery" /\ Inserted(j)
      PROVE  EntryKnown(carried, e)
  <2>1. /\ j \in 1 .. Len(d.rs) /\ TurnSent[j] = d.rs[j] /\ Fills(i, d.rs)
    BY <1>8, <1>t DEF Inserted
  <2>2. i \in Nat
    BY <1>1, <1>t
  <2>3. \E l \in 1 .. Len(carried[1]) : \E m \in 1 .. l - 1 :
          d.rs[j].pkt = carried[1][m] /\ Twins(carried[0][i], carried[1][l])
    BY <2>1, <2>2, FilledFromSecondary
  <2>4. /\ e.via = "recovery" /\ e.slot + 1 \in 1 .. Len(carried[0])
        /\ \E l \in 1 .. Len(carried[1]) : \E m \in 1 .. l - 1 :
             e.rec.pkt = carried[1][m] /\ Twins(carried[0][e.slot + 1], carried[1][l])
    BY <1>1, <1>5, <1>8, <2>1, <2>3
  <2> QED  BY <2>4 DEF EntryKnown
<1>9. EntryKnown(carried, e)
  BY <1>3, <1>6, <1>7, <1>8, <1>t, TurnCases
<1> QED  BY <1>3, <1>4, <1>9 DEF e, p

\* The packets of the feeds stay where they are when one more arrives.
LEMMA ArrivalExtends ==
  ASSUME FeedInv, NEW s \in Stream, NEW pkt \in Packet, Arrival(s, pkt)
  PROVE  /\ carried' \in [Stream -> Seq(Packet)]
         /\ \A t \in Stream : \A i \in 1 .. Len(carried[t]) :
              i \in 1 .. Len(carried'[t]) /\ carried'[t][i] = carried[t][i]
<1>1. carried \in [Stream -> Seq(Packet)] /\ carried' = [carried EXCEPT ![s] = Append(@, pkt)]
  BY DEF FeedInv, Arrival, Arrive
<1>2. ASSUME NEW t \in Stream
      PROVE  carried[t] \in Seq(Packet) /\ carried'[t] \in {carried[t], Append(carried[t], pkt)}
  BY <1>1
<1>3. \A q \in Seq(Packet) : Append(q, pkt) \in Seq(Packet)
  BY AppendProperties
<1>4. carried' \in [Stream -> Seq(Packet)]
  BY <1>1, <1>3
<1>5. ASSUME NEW t \in Stream, NEW i \in 1 .. Len(carried[t])
      PROVE  i \in 1 .. Len(carried'[t]) /\ carried'[t][i] = carried[t][i]
  <2>1. DOMAIN carried[t] = 1 .. Len(carried[t]) /\ DOMAIN carried'[t] = 1 .. Len(carried'[t])
    BY <1>1, <1>4, LenProperties
  <2> QED  BY <1>2, <2>1, ArrivedStays
<1> QED  BY <1>4, <1>5

LEMMA TurnEntriesType ==
  ASSUME EngineInv, FeedInv, QueueArrived, queue[0] # << >>, NEW n \in 0 .. Len(TurnSent)
  PROVE  /\ TurnEntries(n) \in Seq(Output) /\ Len(TurnEntries(n)) = n
         /\ DOMAIN TurnEntries(n) = 1 .. n
<1> DEFINE rs == TurnSent
           via == TurnVia
           slot == TurnPacket.idx
<1>1. rs \in Seq(Record) /\ via \in [1 .. Len(rs) -> Via] /\ slot \in Nat /\ n \in 0 .. Len(rs)
  BY FrontDecision, FrontPlace DEF TurnSent, TurnVia, TurnPacket, TurnDecision
<1>2. TurnEntries(n) = Entries(rs, via, slot, n)
  BY DEF TurnEntries
<1> HIDE DEF rs, via, slot
<1>3. /\ Entries(rs, via, slot, n) \in Seq(Output)
      /\ Len(Entries(rs, via, slot, n)) = n
      /\ DOMAIN Entries(rs, via, slot, n) = 1 .. n
      /\ \A j \in 1 .. n : /\ Entries(rs, via, slot, n)[j].via = via[j]
                           /\ Entries(rs, via, slot, n)[j].slot = slot
  BY <1>1, EntriesType, ZenonT(60)
<1> QED  BY <1>2, <1>3, Zenon

LEMMA EntriesKnownStep ==
  ASSUME EngineInv, FeedInv, AlignInv, QueueArrived, EntriesKnown, [NetNext]_all_vars
  PROVE  EntriesKnown'
<1>0. out \in Seq(Output) /\ carried \in [Stream -> Seq(Packet)]
  BY DEF EngineInv, TypeOK, FeedInv
<1>1. ASSUME NEW s \in Stream, NEW pkt \in Packet, Arrival(s, pkt)
      PROVE  EntriesKnown'
  <2>1. out' = out
    BY <1>1 DEF Arrival, Arrive, PushPacket
  <2>2. /\ carried' \in [Stream -> Seq(Packet)]
        /\ \A t \in Stream : \A i \in 1 .. Len(carried[t]) :
              i \in 1 .. Len(carried'[t]) /\ carried'[t][i] = carried[t][i]
    BY <1>1, ArrivalExtends
  <2> DEFINE c == carried'
  <2>3. \A k \in DOMAIN out : EntryKnown(carried, out[k])
    BY DEF EntriesKnown
  <2>4. \A k \in DOMAIN out : EntryKnown(c, out[k])
    <3> HIDE DEF c
    <3>1. /\ c \in [Stream -> Seq(Packet)]
          /\ \A t \in Stream : \A i \in 1 .. Len(carried[t]) :
                i \in 1 .. Len(c[t]) /\ c[t][i] = carried[t][i]
      BY <2>2 DEF c
    <3> QED  BY <1>0, <2>3, <3>1, KnownStays
  <2> QED  BY <2>1, <2>4 DEF EntriesKnown
<1>2. ASSUME NEW n \in Nat, Turn(n)
      PROVE  EntriesKnown'
  <2>1. /\ queue[0] # << >> /\ n \in 0 .. Len(TurnSent) /\ out' = out \o TurnEntries(n)
        /\ carried' = carried
    BY <1>2 DEF Turn
  <2>2. TurnEntries(n) \in Seq(Output) /\ DOMAIN TurnEntries(n) = 1 .. n
    BY <2>1, TurnEntriesType
  <2>3. \A j \in 1 .. n : EntryKnown(carried, TurnEntries(n)[j])
    BY <2>1, TurnEntry
  <2> DEFINE new == TurnEntries(n)
             x == out'
  <2>4. \A k \in DOMAIN x : EntryKnown(carried, x[k])
    <3>1. new \in Seq(Output) /\ DOMAIN new = 1 .. n /\ x = out \o new
          /\ \A j \in 1 .. n : EntryKnown(carried, new[j])
      BY <2>1, <2>2, <2>3
    <3> HIDE DEF new, x
    <3> TAKE k \in DOMAIN x
    <3>2. \/ k \in DOMAIN out /\ x[k] = out[k]
          \/ k - Len(out) \in DOMAIN new /\ x[k] = new[k - Len(out)]
      BY <1>0, <3>1, EntryOf
    <3> QED  BY <3>1, <3>2 DEF EntriesKnown
  <2> QED  BY <2>1, <2>4 DEF EntriesKnown
<1>3. ASSUME SecondaryStep, UNCHANGED net_vars
      PROVE  EntriesKnown'
  <2> DEFINE r == Head(queue[1])
             new == Entries(<<r>>, <<"outage">>, r.idx, 1)
             x == out'
  <2>1. queue[1] # << >> /\ OutputRecords(<<r>>, <<"outage">>, r.idx) /\ carried' = carried
    BY <1>3 DEF SecondaryStep, net_vars
  <2>2. r \in Record
    BY <2>1, HeadTailProperties DEF EngineInv, TypeOK, Stream
  <2>3. x = out \o new
    BY <2>1 DEF OutputRecords, Entries
  <2>4. new \in Seq(Output) /\ \A j \in DOMAIN new : EntryKnown(carried, new[j])
    <3>1. /\ <<r>> \in Seq(Record) /\ Len(<<r>>) = 1 /\ <<"outage">> \in [1 .. 1 -> Via]
          /\ r.idx \in Nat
      BY <2>2 DEF Record, Via
    <3>2. new = <<[rec |-> r, via |-> "outage", slot |-> r.idx]>>
      BY DEF Entries
    <3> DEFINE e == [rec |-> r, via |-> "outage", slot |-> r.idx]
    <3>3. e \in Output
      BY <2>2, <3>1 DEF Output, Via
    <3>4. r.idx + 1 \in 1 .. Len(carried[1]) /\ r.pkt = carried[1][r.idx + 1]
      BY <2>1, SecondaryPlace
    <3>5. /\ e.via = "outage" /\ e.slot + 1 \in 1 .. Len(carried[1])
          /\ e.rec.pkt = carried[1][e.slot + 1]
      BY <3>4
    <3> HIDE DEF e
    <3>6. EntryKnown(carried, e)
      BY <3>5 DEF EntryKnown
    <3>7. new = <<e>> /\ DOMAIN <<e>> = {1} /\ <<e>>[1] = e /\ <<e>> \in Seq(Output)
      <4>1. new = <<e>>
        BY <3>2 DEF e
      <4> HIDE DEF new
      <4> QED  BY <3>3, <4>1
    <3> HIDE DEF new
    <3> QED  BY <3>6, <3>7
  <2> HIDE DEF r, new, x
  <2>5. \A k \in DOMAIN x : EntryKnown(carried, x[k])
    <3> TAKE k \in DOMAIN x
    <3>1. \/ k \in DOMAIN out /\ x[k] = out[k]
          \/ k - Len(out) \in DOMAIN new /\ x[k] = new[k - Len(out)]
      BY <1>0, <2>3, <2>4, EntryOf
    <3>2. CASE k \in DOMAIN out /\ x[k] = out[k]
      BY <3>2 DEF EntriesKnown
    <3>3. CASE k - Len(out) \in DOMAIN new /\ x[k] = new[k - Len(out)]
      BY <2>4, <3>3
    <3> QED  BY <3>1, <3>2, <3>3
  <2> QED  BY <2>1, <2>5 DEF EntriesKnown, x
<1>4. ASSUME Quiet
      PROVE  EntriesKnown'
  BY <1>4 DEF Quiet, EntriesKnown
<1> QED  BY <1>1, <1>2, <1>3, <1>4, NetSteps

LEMMA EntriesKnownInvariant == NetSpec => []EntriesKnown
<1>1. NetInit => EntriesKnown
  BY EmptySeq DEF NetInit, Init, EntriesKnown
<1>2. EngineInv /\ FeedInv /\ AlignInv /\ QueueArrived /\ EntriesKnown /\ [NetNext]_all_vars
        => EntriesKnown'
  BY EntriesKnownStep
<1>3. NetSpec => []EngineInv
  BY FeedsImplementEngine, EngineInvariant, PTL
<1> QED  BY <1>1, <1>2, <1>3, FeedInvariant, AlignInvariant, PlacedInvariant, PTL DEF NetSpec

-----------------------------------------------------------------------------
(***************************************************************************)
(* What the output stands for, as long as it never left the primary; and   *)
(* what the counters of the output are, wherever it comes from.            *)
(***************************************************************************)
\* As long as output never left the primary, all that was sent stands for packets
\* of the primary that have left its queue.
OutputIsPast ==
  NeverFailedOver =>
    \A k \in DOMAIN out : out[k].via # "outage" /\ (pc # "failed" => out[k].slot < Front(0))

LastOf(o, cc, pid) ==
  \/ cc = NoCC /\ \A k \in DOMAIN o : Content(o[k]) => o[k].rec.pkt.pid # pid
  \/ \E i \in DOMAIN o :
       /\ Content(o[i]) /\ o[i].rec.pkt.pid = pid /\ o[i].rec.pkt.cc = cc
       /\ \A k \in DOMAIN o : Content(o[k]) /\ o[k].rec.pkt.pid = pid => k <= i

\* The counter kept for a PID is that of its last packet sent.
CounterIsLast == pc # "failed" => \A pid \in Pid : LastOf(out, out_cc[pid], pid)

LEMMA LastOfSent ==
  ASSUME NEW o \in Seq(Output), NEW new \in Seq(Output), NEW rs \in Seq(Record),
         DOMAIN new = DOMAIN rs, \A j \in DOMAIN rs : new[j].rec = rs[j],
         NEW cc, NEW pid, LastOf(o, cc[pid], pid)
  PROVE  LastOf(o \o new, LastCC(cc, rs, pid), pid)
<1> DEFINE x == o \o new
           seen == {j \in DOMAIN rs : ~IsNull(rs[j]) /\ rs[j].pkt.pid = pid}
           last == CHOOSE j \in seen : \A k \in seen : k <= j
           Of(e) == Content(e) /\ e.rec.pkt.pid = pid
<1>1. /\ Len(o) \in Nat /\ DOMAIN o = 1 .. Len(o) /\ Len(rs) \in Nat /\ DOMAIN rs = 1 .. Len(rs)
  BY LenProperties
<1>2. /\ \A i \in DOMAIN o : i \in DOMAIN x /\ x[i] = o[i]
      /\ \A j \in DOMAIN new : Len(o) + j \in DOMAIN x /\ x[Len(o) + j] = new[j]
  BY EntryStays
<1>3. \A i \in DOMAIN x : \/ i \in DOMAIN o /\ x[i] = o[i]
                          \/ i - Len(o) \in DOMAIN new /\ x[i] = new[i - Len(o)] /\ i > Len(o)
  BY EntryOf
<1>4. \A j \in DOMAIN new : Of(new[j]) <=> j \in seen
  BY DEF Content, IsNull
<1>5. LastCC(cc, rs, pid) = IF seen = {} THEN cc[pid] ELSE rs[last].pkt.cc
  BY DEF LastCC
<1>6. /\ LastOf(o, cc[pid], pid) <=>
           \/ cc[pid] = NoCC /\ \A k \in DOMAIN o : ~Of(o[k])
           \/ \E i \in DOMAIN o : /\ Of(o[i]) /\ o[i].rec.pkt.cc = cc[pid]
                                  /\ \A k \in DOMAIN o : Of(o[k]) => k <= i
      /\ \A z : LastOf(x, z, pid) <=>
           \/ z = NoCC /\ \A k \in DOMAIN x : ~Of(x[k])
           \/ \E i \in DOMAIN x : /\ Of(x[i]) /\ x[i].rec.pkt.cc = z
                                  /\ \A k \in DOMAIN x : Of(x[k]) => k <= i
  BY Zenon DEF LastOf
<1>s. seen \in SUBSET (0 .. Len(rs))
  BY <1>1
<1>t. last = CHOOSE j \in seen : \A k \in seen : k <= j
  OBVIOUS
<1>d. \A j \in seen : j \in DOMAIN rs
  OBVIOUS
<1>x. x = o \o new
  OBVIOUS
<1> HIDE DEF x, seen, last, Of
<1>7. CASE seen = {}
  <2>1. \A k \in DOMAIN x : Of(x[k]) => k \in DOMAIN o /\ x[k] = o[k]
    BY <1>3, <1>4, <1>7
  <2>2. LastCC(cc, rs, pid) = cc[pid]
    BY <1>5, <1>7
  <2>3. CASE cc[pid] = NoCC /\ \A k \in DOMAIN o : ~Of(o[k])
    <3>1. \A k \in DOMAIN x : ~Of(x[k])
      BY <2>1, <2>3
    <3> QED  BY <1>6, <1>x, <2>2, <2>3, <3>1
  <2>4. ASSUME NEW i \in DOMAIN o, Of(o[i]), o[i].rec.pkt.cc = cc[pid],
               \A k \in DOMAIN o : Of(o[k]) => k <= i
        PROVE  LastOf(x, cc[pid], pid)
    <3>1. i \in DOMAIN x /\ Of(x[i]) /\ x[i].rec.pkt.cc = cc[pid]
      BY <1>2, <2>4
    <3>2. \A k \in DOMAIN x : Of(x[k]) => k <= i
      BY <2>1, <2>4
    <3> QED  BY <1>6, <3>1, <3>2
  <2> QED  BY <1>6, <1>x, <2>2, <2>3, <2>4
<1>8. CASE seen # {}
  <2>1. last \in seen /\ \A k \in seen : k <= last
    <3>1. \E j \in seen : \A k \in seen : k <= j
      BY <1>s, <1>1, <1>8, MaxOfNaturals
    <3> QED  BY <1>t, <3>1
  <2>2. last \in DOMAIN rs /\ last \in DOMAIN new
    BY <1>d, <2>1
  <2> DEFINE i == Len(o) + last
  <2>3. i \in DOMAIN x /\ x[i] = new[last] /\ Of(x[i])
    BY <1>2, <1>4, <2>1, <2>2
  <2>4. x[i].rec.pkt.cc = rs[last].pkt.cc
    BY <2>2, <2>3
  <2>5. ASSUME NEW k \in DOMAIN x, Of(x[k])
        PROVE  k <= i
    <3>1. CASE k \in DOMAIN o
      BY <1>1, <2>2, <3>1
    <3>2. CASE k - Len(o) \in DOMAIN new /\ x[k] = new[k - Len(o)] /\ k > Len(o)
      <4> DEFINE j == k - Len(o)
      <4>1. j \in DOMAIN new /\ Of(new[j])
        BY <2>5, <3>2
      <4>2. j \in seen
        BY <1>4, <4>1
      <4>3. j <= last
        BY <2>1, <4>2
      <4>4. k \in Int
        <5>1. x \in Seq(Output)
          BY <1>x, EntryStays
        <5>2. DOMAIN x = 1 .. Len(x)
          BY <5>1, LenProperties
        <5> QED  BY <5>2
      <4>5. last \in Int
        BY <1>1, <2>2
      <4> QED  BY <1>1, <4>3, <4>4, <4>5
    <3> QED  BY <1>3, <3>1, <3>2
  <2>6. LastCC(cc, rs, pid) = rs[last].pkt.cc
    BY <1>5, <1>8
  <2> HIDE DEF i
  <2> QED  BY <1>6, <1>x, <2>3, <2>4, <2>5, <2>6
<1> QED  BY <1>7, <1>8

LEMMA PastStep ==
  ASSUME EngineInv, EngineInv', FeedInv, AlignInv, QueueArrived, PrimaryActive, OutputIsPast,
         [NetNext]_all_vars
  PROVE  OutputIsPast'
<1> SUFFICES ASSUME NeverFailedOver'
             PROVE  \A k \in DOMAIN out' : /\ out'[k].via # "outage"
                                           /\ pc' # "failed" => out'[k].slot < Front(0)'
  BY DEF OutputIsPast
<1>0. out \in Seq(Output) /\ Front(0) \in Nat /\ \A k \in DOMAIN out : out[k].slot \in Nat
  BY FrontType, SlotType DEF EngineInv, TypeOK
<1>1. /\ NeverFailedOver
      /\ \/ \E s \in Stream, pkt \in Packet : Arrival(s, pkt)
         \/ \E n \in Nat : Turn(n)
         \/ Quiet
  BY StayingSteps
<1>2. \A k \in DOMAIN out : out[k].via # "outage" /\ (pc # "failed" => out[k].slot < Front(0))
  BY <1>1 DEF OutputIsPast
<1>3. ASSUME out' = out, pc = "failed" => pc' = "failed", Front(0)' \in Int, Front(0) <= Front(0)'
      PROVE  \A k \in DOMAIN out' : /\ out'[k].via # "outage"
                                    /\ pc' # "failed" => out'[k].slot < Front(0)'
  <2>1. pc' # "failed" => pc # "failed"
    BY <1>3
  <2>2. ASSUME NEW k \in DOMAIN out
        PROVE  out[k].via # "outage" /\ (pc' # "failed" => out[k].slot < Front(0)')
    <3> DEFINE f == Front(0)
               g == Front(0)'
               z == out[k].slot
    <3>1. /\ z \in Nat /\ f \in Nat /\ g \in Int /\ f <= g
          /\ out[k].via # "outage" /\ (pc # "failed" => z < f)
      BY <1>0, <1>2, <1>3
    <3> HIDE DEF f, g, z
    <3>2. pc' # "failed" => z < g
      BY <2>1, <3>1
    <3> QED  BY <3>1, <3>2 DEF z, g
  <2> QED  BY <1>3, <2>2
<1>4. ASSUME NEW s \in Stream, NEW pkt \in Packet, Arrival(s, pkt)
      PROVE  /\ out' = out /\ (pc = "failed" => pc' = "failed")
             /\ Front(0)' \in Int /\ Front(0) <= Front(0)'
  <2>1. PushPacket(s, pkt)
    BY <1>4 DEF Arrival, Arrive
  <2>2. out' = out /\ (pc = "failed" => pc' = "failed")
    BY <2>1 DEF PushPacket
  <2>3. PICK n \in {0, 1} : Front(0)' = Front(0) + n
    BY <2>1, PushCounts
  <2> DEFINE f == Front(0)
             g == Front(0)'
  <2>4. f \in Nat /\ g = f + n
    BY <1>0, <2>3
  <2> HIDE DEF f, g
  <2>5. g \in Int /\ f <= g
    BY <2>4
  <2> QED  BY <2>2, <2>5 DEF f, g
<1>5. ASSUME Quiet
      PROVE  /\ out' = out /\ (pc = "failed" => pc' = "failed")
             /\ Front(0)' \in Int /\ Front(0) <= Front(0)'
  <2>1. /\ out' = out /\ (pc = "failed" => pc' = "failed")
        /\ Len(queue'[0]) <= Len(queue[0]) /\ next_index' = next_index
    BY <1>5 DEF Quiet, Stream
  <2>2. Len(queue'[0]) \in Nat /\ Len(queue[0]) \in Nat /\ next_index[0] \in Nat
    <3>1. queue'[0] \in Seq(Record) /\ queue[0] \in Seq(Record) /\ next_index[0] \in Nat
      BY DEF EngineInv, TypeOK, Stream
    <3> QED  BY <3>1, LenProperties
  <2> QED  BY <2>1, <2>2 DEF Front
<1>6. ASSUME NEW n \in Nat, Turn(n)
      PROVE  \A k \in DOMAIN out' : /\ out'[k].via # "outage"
                                    /\ pc' # "failed" => out'[k].slot < Front(0)'
  <2> DEFINE new == TurnEntries(n)
             x == out'
  <2>1. /\ queue[0] # << >> /\ n \in 0 .. Len(TurnSent) /\ x = out \o new /\ pc = "primary"
        /\ pc' # "failed" => Front(0)' = Front(0) + 1
    BY <1>6 DEF Turn
  <2>2. new \in Seq(Output) /\ DOMAIN new = 1 .. n
    BY <2>1, TurnEntriesType
  <2>3. \A j \in 1 .. n : new[j].via # "outage" /\ new[j].slot = Front(0)
    <3> TAKE j \in 1 .. n
    <3>1. /\ j \in 1 .. Len(TurnSent)
          /\ new[j] = [rec |-> TurnSent[j], via |-> TurnVia[j], slot |-> TurnPacket.idx]
      BY <2>1, TurnEntry
    <3>2. TurnVia[j] # "outage"
      BY <2>1, <3>1, TurnCases
    <3>3. TurnPacket.idx = Front(0)
      BY <2>1, FrontPlace
    <3> HIDE DEF new
    <3> QED  BY <3>1, <3>2, <3>3
  <2> HIDE DEF new, x
  <2>5. ASSUME NEW k \in DOMAIN x
        PROVE  x[k].via # "outage" /\ (pc' # "failed" => x[k].slot < Front(0)')
    <3> DEFINE f == Front(0)
               g == Front(0)'
               z == x[k].slot
    <3>1. \/ k \in DOMAIN out /\ x[k] = out[k]
          \/ k - Len(out) \in DOMAIN new /\ x[k] = new[k - Len(out)]
      BY <1>0, <2>1, <2>2, EntryOf
    <3>2. x[k].via # "outage" /\ (z = f \/ (z \in Nat /\ z < f))
      <4>1. CASE k \in DOMAIN out /\ x[k] = out[k]
        BY <1>0, <1>2, <2>1, <4>1
      <4>2. CASE k - Len(out) \in DOMAIN new /\ x[k] = new[k - Len(out)]
        <5> DEFINE j == k - Len(out)
        <5>1. j \in 1 .. n /\ x[k] = new[j]
          BY <2>2, <4>2
        <5> HIDE DEF j
        <5>2. new[j].via # "outage" /\ new[j].slot = Front(0)
          BY <2>3, <5>1
        <5>3. x[k].via # "outage" /\ x[k].slot = Front(0)
          BY <5>1, <5>2
        <5>4. z = f
          BY <5>3
        <5> HIDE DEF z, f
        <5> QED  BY <5>3, <5>4
      <4> QED  BY <3>1, <4>1, <4>2
    <3>3. f \in Nat /\ (pc' # "failed" => g = f + 1)
      BY <1>0, <2>1
    <3> HIDE DEF f, g, z
    <3>4. pc' # "failed" => z < g
      BY <3>2, <3>3
    <3> QED  BY <3>2, <3>4 DEF z, g
  <2> QED  BY <2>5 DEF x
<1>7. CASE \E s \in Stream, pkt \in Packet : Arrival(s, pkt)
  BY <1>3, <1>4, <1>7
<1>8. CASE Quiet
  BY <1>3, <1>5, <1>8
<1> QED  BY <1>1, <1>6, <1>7, <1>8

LEMMA CounterStep ==
  ASSUME EngineInv, FeedInv, AlignInv, QueueArrived, CounterIsLast, [NetNext]_all_vars
  PROVE  CounterIsLast'
<1> SUFFICES ASSUME pc' # "failed"
             PROVE  \A pid \in Pid : LastOf(out', out_cc'[pid], pid)
  BY DEF CounterIsLast
<1>0. out \in Seq(Output)
  BY DEF EngineInv, TypeOK
<1>1. ASSUME out' = out, out_cc' = out_cc, pc # "failed"
      PROVE  \A pid \in Pid : LastOf(out', out_cc'[pid], pid)
  BY <1>1 DEF CounterIsLast
<1>2. ASSUME NEW rs \in Seq(Record), NEW new \in Seq(Output), pc # "failed",
             DOMAIN new = DOMAIN rs, \A j \in DOMAIN rs : new[j].rec = rs[j], out' = out \o new,
             out_cc' = [pid \in Pid |-> LastCC(out_cc, rs, pid)], NEW pid \in Pid
      PROVE  LastOf(out', out_cc'[pid], pid)
  <2>1. LastOf(out, out_cc[pid], pid)
    BY <1>2 DEF CounterIsLast
  <2>2. LastOf(out \o new, LastCC(out_cc, rs, pid), pid)
    BY <1>0, <1>2, <2>1, LastOfSent
  <2> QED  BY <1>2, <2>2
<1>3. CASE \E s \in Stream, pkt \in Packet : Arrival(s, pkt)
  <2>1. out' = out /\ out_cc' = out_cc /\ pc # "failed"
    BY <1>3 DEF Arrival, Arrive, PushPacket
  <2> QED  BY <1>1, <2>1
<1>4. ASSUME NEW n \in Nat, Turn(n)
      PROVE  \A pid \in Pid : LastOf(out', out_cc'[pid], pid)
  <2> DEFINE new == TurnEntries(n)
  <2>1. /\ queue[0] # << >> /\ n \in 0 .. Len(TurnSent) /\ out' = out \o new /\ pc = "primary"
        /\ n = Len(TurnSent) /\ out_cc' = [pid \in Pid |-> LastCC(out_cc, TurnSent, pid)]
    BY <1>4 DEF Turn
  <2>2. new \in Seq(Output) /\ DOMAIN new = 1 .. n
    BY <2>1, TurnEntriesType
  <2>3. TurnSent \in Seq(Record)
    BY <2>1, FrontDecision DEF TurnPacket, TurnDecision, TurnSent
  <2>4. DOMAIN TurnSent = 1 .. n
    BY <2>1, <2>3, LenProperties
  <2>5. \A j \in 1 .. n : new[j].rec = TurnSent[j]
    <3> TAKE j \in 1 .. n
    <3>1. new[j] = [rec |-> TurnSent[j], via |-> TurnVia[j], slot |-> TurnPacket.idx]
      BY <2>1, TurnEntry
    <3> QED  BY <3>1
  <2> HIDE DEF new
  <2> QED  BY <1>2, <2>1, <2>2, <2>3, <2>4, <2>5
<1>5. CASE SecondaryStep /\ UNCHANGED net_vars
  <2> DEFINE r == Head(queue[1])
             rs == <<r>>
             e == [rec |-> r, via |-> "outage", slot |-> r.idx]
  <2>1. queue[1] # << >> /\ pc # "failed" /\ OutputRecords(rs, <<"outage">>, r.idx)
    BY <1>5 DEF SecondaryStep
  <2>2. r \in Record /\ r.idx \in Nat
    BY <2>1, SecondaryPlace
  <2>3. out' = out \o <<e>> /\ out_cc' = [pid \in Pid |-> LastCC(out_cc, rs, pid)]
    BY <2>1 DEF OutputRecords
  <2>4. e \in Output /\ e.rec = r
    BY <2>2 DEF Output, Via
  <2> HIDE DEF e, r
  <2>5. rs \in Seq(Record) /\ <<e>> \in Seq(Output) /\ DOMAIN <<e>> = DOMAIN rs
    BY <2>2, <2>4
  <2>6. \A j \in DOMAIN rs : <<e>>[j].rec = rs[j]
    BY <2>4
  <2> HIDE DEF rs
  <2> QED  BY <1>2, <2>1, <2>3, <2>5, <2>6
<1>6. CASE Quiet
  <2>1. out' = out /\ out_cc' = out_cc /\ pc # "failed"
    BY <1>6 DEF Quiet
  <2> QED  BY <1>1, <2>1
<1> QED  BY <1>3, <1>4, <1>5, <1>6, NetSteps

LEMMA PastInvariant == NetSpec => [](OutputIsPast /\ CounterIsLast)
<1>1. NetInit => OutputIsPast /\ CounterIsLast
  <2> SUFFICES ASSUME NetInit PROVE OutputIsPast /\ CounterIsLast
    OBVIOUS
  <2>1. out = << >> /\ DOMAIN out = {} /\ out_cc = [pid \in Pid |-> NoCC]
    BY EmptySeq DEF NetInit, Init
  <2> QED  BY <2>1 DEF OutputIsPast, CounterIsLast, LastOf
<1>2. EngineInv /\ EngineInv' /\ FeedInv /\ AlignInv /\ QueueArrived /\ PrimaryActive
        /\ (OutputIsPast /\ CounterIsLast) /\ [NetNext]_all_vars
        => (OutputIsPast /\ CounterIsLast)'
  BY PastStep, CounterStep
<1>3. NetSpec => []EngineInv
  BY FeedsImplementEngine, EngineInvariant, PTL
<1> QED  BY <1>1, <1>2, <1>3, FeedInvariant, AlignInvariant, PlacedInvariant,
            PrimaryActiveInvariant, PTL DEF NetSpec

-----------------------------------------------------------------------------
(***************************************************************************)
(* Damaged packets.  A copy is sent for a damaged packet because it has    *)
(* the same PID and the same counter and the packets behind the two are    *)
(* equal; the bytes cannot be compared.  What follows says when that is    *)
(* enough.                                                                 *)
(***************************************************************************)

\* The broadcast counts as a multiplexer does: from a packet of a PID to a later
\* one the counter grows by the packets of that PID with a payload.
CountersRunOn ==
  \A sc \in Scenarios : \A k, l \in DOMAIN sc.source :
    k <= l /\ sc.source[k].pid = sc.source[l].pid /\ sc.source[k].pid # NullPid
    => sc.source[l].cc
         = (sc.source[k].cc + Payloads(sc.source, k, l, sc.source[k].pid)) % CCMod

\* Where a damaged packet is followed by another, neither feed has lost a whole
\* turn of the damaged packet's counter directly in front of that other packet.
\* In the code a turn is 16 packets and a burst that recovery accepts is at most 15.
ShortBursts ==
  \A i \in 1 .. Len(carried[0]) - 1 : carried[0][i].tei =>
    \A s \in Stream : \A j \in 1 .. Len(carried[s]) - 1 :
      carried[s][j + 1].pos = carried[0][i + 1].pos =>
        Payloads(Source, carried[s][j].pos, carried[s][j + 1].pos - 1, carried[0][i].pid) < CCMod

\* Between the last anchor and the packet that is due, the broadcast has less than
\* a turn of that packet's counter.
FreshAnchor ==
  pc = "primary" /\ queue[0] # << >> /\ anchor.valid =>
    LET p == TurnPacket.pkt
    IN  p.pid # NullPid =>
          Payloads(Source, carried[0][anchor.p + 1].pos, p.pos - 1, p.pid) < CCMod

\* The primary's delay queue was never full.
NoOverflow == stats["primary_delay_overflows"] = 0

LEMMA CounterAt ==
  ASSUME CountersRunOn, FeedInv, NEW k \in 1 .. Len(Source), NEW l \in 1 .. Len(Source), k <= l,
         Source[k].pid = Source[l].pid, Source[k].pid # NullPid
  PROVE  Source[l].cc = (Source[k].cc + Payloads(Source, k, l, Source[k].pid)) % CCMod
<1>1. scenario \in Scenarios /\ Source \in Seq(Packet)
  BY SourceType DEF FeedInv
<1>2. k \in DOMAIN Source /\ l \in DOMAIN Source
  BY <1>1, LenProperties
<1> QED  BY <1>1, <1>2 DEF CountersRunOn, Source

\* Two packets of a PID with one counter are the same, unless a whole round of the
\* counter lies between them.
LEMMA SameOrRound ==
  ASSUME CountersRunOn, FeedInv, NEW k \in 1 .. Len(Source), NEW l \in 1 .. Len(Source), k < l,
         Source[k].pid = Source[l].pid, Source[k].pid # NullPid,
         Source[k].cc = Source[l].cc, Source[l].payload
  PROVE  Payloads(Source, k, l, Source[k].pid) >= CCMod
<1> DEFINE n == Payloads(Source, k, l, Source[k].pid)
           m == Payloads(Source, k, l - 1, Source[k].pid)
           a == Source[k].cc
<1>1. CCMod \in Nat /\ CCMod >= 2
  BY RecordAssumption
<1>2. a \in CC
  <2>1. Source \in Seq(Packet) /\ Len(Source) \in Nat
    BY SourceType
  <2>2. Source[k] \in Packet
    BY <2>1, ElementOfSeq
  <2> QED  BY <2>2 DEF Packet
<1>3. k \in Int /\ l \in Int /\ l - 1 \in Int
  OBVIOUS
<1>4. n \in Nat /\ m \in Nat
  BY <1>3, CountedFinite
<1>5. n = m + 1
  BY <1>3, CountedLast
<1>6. a = (a + n) % CCMod
  <2>1. k <= l
    BY <1>3
  <2> QED  BY <2>1, CounterAt
<1> HIDE DEF n, m, a
<1>7. (a + 0) % CCMod = a
  BY <1>1, <1>2 DEF CC
<1>8. n = 0 \/ n >= 0 + CCMod \/ 0 >= n + CCMod
  <2>1. (a + n) % CCMod = (a + 0) % CCMod
    BY <1>6, <1>7
  <2> QED  BY <1>2, <1>4, <2>1, SameCounter
<1>9. n >= CCMod
  BY <1>1, <1>4, <1>5, <1>8
<1> QED  BY <1>9 DEF n

LEMMA TwinPlace ==
  ASSUME DistinctContent, FeedInv, Placed, NEW s \in Stream, NEW t \in Stream,
         NEW i \in 1 .. Len(carried[s]), NEW j \in 1 .. Len(carried[t]),
         Twins(carried[s][i], carried[t][j])
  PROVE  /\ carried[s][i].pos = carried[t][j].pos
         /\ carried[s][i].pid # NullPid /\ carried[t][j].pid # NullPid
<1>1. /\ SameContent(OfPacket(carried[s][i]), OfPacket(carried[t][j]))
      /\ carried[s][i].pid # NullPid /\ carried[t][j].pid # NullPid
  BY DEF Twins, records_are_non_null_exact_anchor, records_exact_non_error_match, IsNull, OfPacket
<1> QED  BY <1>1, SamePlace

\* The copy that replaces a damaged packet is that packet.
LEMMA CopyPlace ==
  ASSUME DistinctContent, CountersRunOn, FeedInv, Placed, ShortBursts,
         NEW i \in 1 .. Len(carried[0]), NEW j \in 1 .. Len(carried[1]), CopyOf(carried, i, j)
  PROVE  carried[0][i].pos = carried[1][j].pos
<1> DEFINE p == carried[0][i]
           c == carried[1][j]
           y == carried[0][i + 1].pos
           z == carried[1][j + 1].pos
           x == p.pos
           w == c.pos
           pid == p.pid
<1>1. /\ i + 1 \in 1 .. Len(carried[0]) /\ j + 1 \in 1 .. Len(carried[1])
      /\ Twins(carried[0][i + 1], carried[1][j + 1])
      /\ p.tei /\ p.pid # NullPid /\ p.payload /\ c.payload /\ p.pid = c.pid /\ p.cc = c.cc
  BY DEF CopyOf
<1>2. y = z
  BY <1>1, TwinPlace DEF Stream
<1>3. /\ p \in Packet /\ x \in 1 .. Len(Source) /\ w \in 1 .. Len(Source)
      /\ y \in 1 .. Len(Source) /\ z \in 1 .. Len(Source)
      /\ p.pid = Source[x].pid /\ p.cc = Source[x].cc /\ p.payload = Source[x].payload
      /\ c.pid = Source[w].pid /\ c.cc = Source[w].cc /\ c.payload = Source[w].payload
  BY <1>1, PlaceOf DEF Stream
<1>4. x < y /\ w < z
  <2>1. i < i + 1 /\ j < j + 1
    OBVIOUS
  <2> QED  BY <1>1, <2>1, PlacesIncrease DEF Stream
<1>5. pid \in Pid \ {NullPid}
  BY <1>1, <1>3 DEF Packet
<1>6. /\ Payloads(Source, x, y - 1, pid) < CCMod
      /\ Payloads(Source, w, z - 1, pid) < CCMod
  <2>1. Len(carried[0]) \in Nat /\ Len(carried[1]) \in Nat
    BY LenProperties DEF FeedInv, Stream
  <2>2. i \in 1 .. Len(carried[0]) - 1 /\ j \in 1 .. Len(carried[1]) - 1
    BY <1>1, <2>1
  <2>3. /\ carried[0][i].tei /\ 0 \in Stream /\ 1 \in Stream
        /\ carried[1][j + 1].pos = carried[0][i + 1].pos
    BY <1>1, <1>2 DEF Stream
  <2> QED  BY <2>2, <2>3 DEF ShortBursts
<1>7. Source[x].pid = pid /\ Source[w].pid = pid /\ Source[x].cc = Source[w].cc
      /\ Source[x].payload /\ Source[w].payload
  BY <1>1, <1>3
<1>8. CCMod \in Nat
  BY RecordAssumption
<1>9. Len(Source) \in Nat
  BY SourceType
<1> HIDE DEF x, y, z, w, pid, p, c
<1>10. x \in Int /\ y \in Int /\ w \in Int /\ y - 1 \in Int
  BY <1>3, <1>9
<1>11. ASSUME x < w PROVE FALSE
  <2>1. Payloads(Source, x, w, pid) >= CCMod
    BY <1>3, <1>5, <1>7, <1>11, SameOrRound
  <2>2. w <= y - 1 /\ x <= x
    BY <1>2, <1>4, <1>10
  <2>3. Payloads(Source, x, w, pid) <= Payloads(Source, x, y - 1, pid)
    BY <1>10, <2>2, CountedMonotone
  <2>4. Payloads(Source, x, w, pid) \in Nat /\ Payloads(Source, x, y - 1, pid) \in Nat
    BY <1>10, CountedFinite
  <2> QED  BY <1>6, <1>8, <2>1, <2>3, <2>4
<1>12. ASSUME w < x PROVE FALSE
  <2>1. Payloads(Source, w, x, pid) >= CCMod
    BY <1>3, <1>5, <1>7, <1>12, SameOrRound
  <2>2. x <= y - 1 /\ w <= w
    BY <1>4, <1>10
  <2>3. Payloads(Source, w, x, pid) <= Payloads(Source, w, y - 1, pid)
    BY <1>10, <2>2, CountedMonotone
  <2>4. Payloads(Source, w, x, pid) \in Nat /\ Payloads(Source, w, y - 1, pid) \in Nat
    BY <1>10, CountedFinite
  <2> QED  BY <1>2, <1>6, <1>8, <2>1, <2>3, <2>4
<1>13. x = w
  BY <1>10, <1>11, <1>12
<1> QED  BY <1>13 DEF x, w, p, c

(***************************************************************************)
(* TeiReplacementIsSamePacket, for every broadcast whose content differs   *)
(* and whose counters run on: what try_recover_primary_tei_packet sends in *)
(* place of a damaged packet is that packet, whatever either feed loses    *)
(* elsewhere and however far off the stored offset is, as long as no feed  *)
(* lost a whole turn of the counter next to the damaged packet.  The       *)
(* offset is only where the search begins; what decides is the pair of     *)
(* equal packets behind.                                                   *)
(***************************************************************************)
THEOREM ReplacementIsSamePacket ==
  ASSUME DistinctContent, CountersRunOn
  PROVE  NetSpec => [](ShortBursts => TeiReplacementIsSamePacket)
<1>1. FeedInv /\ Placed /\ EntriesKnown /\ EngineInv => (ShortBursts => TeiReplacementIsSamePacket)
  <2> SUFFICES ASSUME FeedInv, Placed, EntriesKnown, EngineInv, ShortBursts,
                      NEW k \in DOMAIN out, out[k].via = "tei"
               PROVE  PosOf(out[k]) = carried[0][out[k].slot + 1].pos
    BY DEF TeiReplacementIsSamePacket
  <2>1. EntryKnown(carried, out[k])
    BY DEF EntriesKnown
  <2>2. out[k].slot + 1 \in 1 .. Len(carried[0])
    BY <2>1 DEF EntryKnown
  <2>3. PICK j \in 1 .. Len(carried[1]) :
          out[k].rec.pkt = carried[1][j] /\ CopyOf(carried, out[k].slot + 1, j)
    BY <2>1 DEF EntryKnown
  <2>4. carried[0][out[k].slot + 1].pos = carried[1][j].pos
    BY <2>2, <2>3, CopyPlace
  <2> QED  BY <2>3, <2>4 DEF PosOf
<1>2. NetSpec => []EngineInv
  BY FeedsImplementEngine, EngineInvariant, PTL
<1> QED  BY <1>1, <1>2, FeedInvariant, PlacedInvariant, EntriesKnownInvariant, PTL

-----------------------------------------------------------------------------
(***************************************************************************)
(* The order of the output.  An entry belongs at a place of the broadcast, *)
(* at or before that of the primary packet in its slot; what is inserted   *)
(* belongs behind all that was sent of its PID.                            *)
(***************************************************************************)
\* Where an entry of the output belongs in the broadcast.
LEMMA KnownPlace ==
  ASSUME DistinctContent, CountersRunOn, FeedInv, Placed, ShortBursts,
         NEW e, EntryKnown(carried, e), e.via \in {"primary", "tei", "recovery"}
  PROVE  /\ e.slot + 1 \in 1 .. Len(carried[0])
         /\ PosOf(e) \in 1 .. Len(Source) /\ PosOf(e) \in Nat
         /\ carried[0][e.slot + 1].pos \in Nat
         /\ e.rec.pkt.pid = Source[PosOf(e)].pid /\ e.rec.pkt.cc = Source[PosOf(e)].cc
         /\ e.via \in {"primary", "tei"} => PosOf(e) = carried[0][e.slot + 1].pos
         /\ e.via = "recovery" => PosOf(e) < carried[0][e.slot + 1].pos
         /\ PosOf(e) <= carried[0][e.slot + 1].pos
         /\ Content(e) => carried[0][e.slot + 1].pid # NullPid
<1> DEFINE i == e.slot + 1
           P == carried[0][i].pos
           x == PosOf(e)
<1>1. i \in 1 .. Len(carried[0])
  BY DEF EntryKnown
<1>2. P \in 1 .. Len(Source)
  BY <1>1, PlaceOf DEF Stream
<1>3. Len(Source) \in Nat
  BY SourceType
<1>4. CASE e.via = "primary"
  <2>1. e.rec.pkt = carried[0][i]
    BY <1>4 DEF EntryKnown
  <2>2. x = P /\ e.rec.pkt.pid = Source[x].pid /\ e.rec.pkt.cc = Source[x].cc
    BY <1>1, <2>1, PlaceOf DEF Stream, PosOf
  <2>3. Content(e) => carried[0][i].pid # NullPid
    BY <2>1 DEF Content, IsNull
  <2> HIDE DEF x, P, i
  <2>4. x \in 1 .. Len(Source) /\ x \in Nat /\ P \in Nat /\ x <= P
    BY <1>2, <1>3, <2>2
  <2> QED  BY <1>1, <1>4, <2>2, <2>3, <2>4 DEF x, P, i
<1>5. CASE e.via = "tei"
  <2>1. PICK j \in 1 .. Len(carried[1]) : e.rec.pkt = carried[1][j] /\ CopyOf(carried, i, j)
    BY <1>5 DEF EntryKnown
  <2>2. x = P
    BY <1>1, <2>1, CopyPlace DEF PosOf
  <2>3. e.rec.pkt.pid = Source[x].pid /\ e.rec.pkt.cc = Source[x].cc
    BY <2>1, PlaceOf DEF Stream, PosOf
  <2>4. carried[0][i].pid # NullPid
    BY <2>1 DEF CopyOf
  <2> HIDE DEF x, P, i
  <2>5. x \in 1 .. Len(Source) /\ x \in Nat /\ P \in Nat /\ x <= P
    BY <1>2, <1>3, <2>2
  <2> QED  BY <1>1, <1>5, <2>2, <2>3, <2>4, <2>5 DEF x, P, i
<1>6. CASE e.via = "recovery"
  <2>1. PICK l \in 1 .. Len(carried[1]) : \E m \in 1 .. l - 1 :
               e.rec.pkt = carried[1][m] /\ Twins(carried[0][i], carried[1][l])
    BY <1>6 DEF EntryKnown
  <2>2. PICK j \in 1 .. l - 1 : e.rec.pkt = carried[1][j] /\ Twins(carried[0][i], carried[1][l])
    BY <2>1
  <2>3. Len(carried[1]) \in Nat
    BY LenProperties DEF FeedInv, Stream
  <2>4. j \in 1 .. Len(carried[1]) /\ j < l
    BY <2>3
  <2>5. P = carried[1][l].pos /\ carried[0][i].pid # NullPid
    BY <1>1, <2>2, TwinPlace DEF Stream
  <2>6. x < P
    BY <2>2, <2>4, <2>5, PlacesIncrease DEF Stream, PosOf
  <2>7. x \in 1 .. Len(Source) /\ e.rec.pkt.pid = Source[x].pid /\ e.rec.pkt.cc = Source[x].cc
    BY <2>2, <2>4, PlaceOf DEF Stream, PosOf
  <2> HIDE DEF x, P, i
  <2>8. x \in Nat /\ P \in Nat /\ x <= P
    BY <1>2, <1>3, <2>6, <2>7
  <2> QED  BY <1>1, <1>6, <2>5, <2>6, <2>7, <2>8 DEF x, P, i
<1> QED  BY <1>4, <1>5, <1>6

\* The places of anchor, inserted packets and the packet that is due.
LEMMA GapPlaces ==
  ASSUME DistinctContent, EngineInv, FeedInv, Placed, NEW i \in Nat, NEW rs, Fills(i, rs)
  PROVE  /\ anchor.valid /\ anchor.p \in Nat /\ anchor.p + 1 < i
         /\ anchor.p + 1 \in 1 .. Len(carried[0]) /\ i \in 1 .. Len(carried[0])
         /\ carried[0][i].pid # NullPid
         /\ \A k \in 1 .. Len(rs) :
              /\ rs[k].pkt.pos \in 1 .. Len(Source) /\ rs[k].pkt.pos \in Nat
              /\ rs[k].pkt.pid = Source[rs[k].pkt.pos].pid
              /\ carried[0][anchor.p + 1].pos < rs[k].pkt.pos
              /\ rs[k].pkt.pos < carried[0][i].pos
<1> DEFINE a == anchor.p + 1
           b == anchor.s + 1
           A == carried[0][a].pos
           P == carried[0][i].pos
<1>1. PICK l \in 1 .. Len(carried[1]) :
        /\ anchor.valid
        /\ a \in 1 .. i - 1 /\ i \in 1 .. Len(carried[0])
        /\ b \in 1 .. l - 1
        /\ Twins(carried[0][a], carried[1][b])
        /\ Twins(carried[0][i], carried[1][l])
        /\ FillsPlaces(i, l, rs) \/ FillsCounter(i, l, rs)
  BY DEF Fills
<1>2. anchor.p \in Nat /\ anchor.s \in Nat
  BY DEF EngineInv, TypeOK, Anchor
<1>3. Len(carried[0]) \in Nat /\ Len(carried[1]) \in Nat /\ Len(Source) \in Nat
  BY LenProperties, SourceType DEF FeedInv, Stream
<1>a. a \in Nat /\ b \in Nat
  BY <1>2
<1>e. a = anchor.p + 1 /\ b = anchor.s + 1
  OBVIOUS
<1> HIDE DEF a, b
<1>4. a < i /\ a \in 1 .. Len(carried[0]) /\ b \in 1 .. Len(carried[1]) /\ b < l
  BY <1>1, <1>3, <1>a
<1>5. A = carried[1][b].pos
  BY <1>1, <1>4, TwinPlace DEF Stream
<1>6. P = carried[1][l].pos /\ carried[0][i].pid # NullPid
  BY <1>1, TwinPlace DEF Stream
<1>7. ASSUME NEW k \in 1 .. Len(rs)
      PROVE  \E j \in b + 1 .. l - 1 : rs[k].pkt = carried[1][j]
  <2>1. CASE FillsPlaces(i, l, rs)
    <3>1. PICK off \in Int : \A m \in 1 .. Len(rs) :
            /\ off + m \in b + (i - a) .. l - 1
            /\ rs[m].pkt = carried[1][off + m]
      BY <1>e, <2>1 DEF FillsPlaces
    <3>2. off + k \in b + (i - a) .. l - 1 /\ rs[k].pkt = carried[1][off + k]
      BY <3>1
    <3>3. off + k \in b + 1 .. l - 1
      BY <1>4, <1>a, <3>2
    <3> QED  BY <3>2, <3>3
  <2>2. CASE FillsCounter(i, l, rs)
    <3>1. PICK j \in anchor.s + 2 .. l - 1 : rs[k].pkt = carried[1][j]
      BY <2>2 DEF FillsCounter
    <3> DEFINE z == anchor.s
    <3>2. z \in Nat /\ b = z + 1 /\ j \in z + 2 .. l - 1
      BY <1>2, <1>e
    <3> HIDE DEF z
    <3>3. j \in b + 1 .. l - 1
      BY <3>2
    <3> QED  BY <3>1, <3>3
  <2> QED  BY <1>1, <2>1, <2>2
<1>8. ASSUME NEW k \in 1 .. Len(rs)
      PROVE  /\ rs[k].pkt.pos \in 1 .. Len(Source) /\ rs[k].pkt.pos \in Nat
             /\ rs[k].pkt.pid = Source[rs[k].pkt.pos].pid
             /\ A < rs[k].pkt.pos /\ rs[k].pkt.pos < P
  <2>1. PICK j \in b + 1 .. l - 1 : rs[k].pkt = carried[1][j]
    BY <1>7
  <2>2. j \in 1 .. Len(carried[1]) /\ b < j /\ j < l
    BY <1>3, <1>a
  <2>3. carried[1][b].pos < carried[1][j].pos /\ carried[1][j].pos < carried[1][l].pos
    BY <1>4, <2>2, PlacesIncrease DEF Stream
  <2>4. carried[1][j].pos \in 1 .. Len(Source) /\ carried[1][j].pid = Source[carried[1][j].pos].pid
    BY <2>2, PlaceOf DEF Stream
  <2>5. rs[k].pkt.pos \in Nat
    BY <1>3, <2>1, <2>4
  <2> QED  BY <1>5, <1>6, <2>1, <2>3, <2>4, <2>5
<1> QED  BY <1>1, <1>2, <1>4, <1>6, <1>8, <1>e

LEMMA PlaceInGap ==
  ASSUME NEW a \in Nat, NEW b \in Nat, NEW i \in Int, NEW j \in Int, NEW h \in Nat,
         b + (i - a) <= j, a < h, h < i
  PROVE  /\ h - a \in 1 .. i - a - 1 /\ a + (h - a) = h /\ b + (h - a) < j /\ h - a \in Int
OBVIOUS

\* A gap of the same length on both sides: all that was sent before it lies in
\* front of what is inserted, which is in order.
LEMMA PlacesBehind ==
  ASSUME DistinctContent, CountersRunOn, EngineInv, FeedInv, Placed, ShortBursts,
         NEW i \in 1 .. Len(carried[0]), NEW l \in 1 .. Len(carried[1]), NEW rs,
         anchor.p + 1 \in 1 .. i - 1, anchor.s + 1 \in 1 .. l - 1,
         Twins(carried[0][anchor.p + 1], carried[1][anchor.s + 1]),
         FillsPlaces(i, l, rs), NEW k \in 1 .. Len(rs)
  PROVE  /\ \A e : /\ EntryKnown(carried, e) /\ e.via \in {"primary", "tei", "recovery"}
                   /\ e.slot \in Nat /\ e.slot + 1 < i /\ Content(e)
                   => PosOf(e) < rs[k].pkt.pos
         /\ \A m \in 1 .. Len(rs) : k < m => rs[k].pkt.pos < rs[m].pkt.pos
<1> DEFINE a == anchor.p + 1
           b == anchor.s + 1
<1>2. anchor.p \in Nat /\ anchor.s \in Nat
  BY DEF EngineInv, TypeOK, Anchor
<1>3. Len(carried[0]) \in Nat /\ Len(carried[1]) \in Nat
  BY LenProperties DEF FeedInv, Stream
<1>4. a \in Nat /\ b \in Nat /\ a \in 1 .. i - 1 /\ b \in 1 .. l - 1
  BY <1>2
<1>5. Twins(carried[0][a], carried[1][b])
  OBVIOUS
<1>6. /\ \A m \in 1 .. i - a - 1 :
           /\ a + m \in 1 .. Len(carried[0]) /\ b + m \in 1 .. Len(carried[1])
           /\ Equal(carried[0][a + m], carried[1][b + m])
      /\ \E off \in Int : \A m \in 1 .. Len(rs) :
           /\ off + m \in b + (i - a) .. l - 1
           /\ rs[m].pkt = carried[1][off + m]
  BY DEF FillsPlaces
<1> HIDE DEF a, b
<1>7. PICK off \in Int : \A m \in 1 .. Len(rs) :
           /\ off + m \in b + (i - a) .. l - 1
           /\ rs[m].pkt = carried[1][off + m]
  BY <1>6
<1> DEFINE j == off + k
<1>8. j \in b + (i - a) .. l - 1 /\ rs[k].pkt = carried[1][j]
  BY <1>7
<1> HIDE DEF j
<1>9. /\ a \in 1 .. Len(carried[0]) /\ b \in 1 .. Len(carried[1])
      /\ j \in 1 .. Len(carried[1]) /\ b < j /\ a < i
  BY <1>3, <1>4, <1>8
<1>10. ASSUME NEW e, EntryKnown(carried, e), e.via \in {"primary", "tei", "recovery"},
              e.slot \in Nat, e.slot + 1 < i, Content(e)
       PROVE  PosOf(e) < rs[k].pkt.pos
  <2> DEFINE h == e.slot + 1
  <2>1. /\ h \in 1 .. Len(carried[0]) /\ PosOf(e) \in Nat /\ carried[0][h].pos \in Nat
        /\ PosOf(e) <= carried[0][h].pos /\ carried[0][h].pid # NullPid
    BY <1>10, KnownPlace
  <2>2. h \in Nat /\ h < i
    BY ONLY <1>10
  <2> HIDE DEF h
  <2>3. carried[1][j].pos \in Nat
    <3>1. carried[1][j] \in Packet
      BY <1>9, PlaceOf DEF Stream
    <3> QED  BY <3>1 DEF Packet
  <2>4. ASSUME NEW c \in 1 .. Len(carried[1]), c < j, carried[0][h].pos <= carried[1][c].pos
        PROVE  PosOf(e) < rs[k].pkt.pos
    <3>1. carried[1][c].pos < carried[1][j].pos
      BY <1>9, <2>4, PlacesIncrease DEF Stream
    <3>2. carried[1][c].pos \in Nat
      <4>1. carried[1][c] \in Packet
        BY PlaceOf DEF Stream
      <4> QED  BY <4>1 DEF Packet
    <3> DEFINE u == PosOf(e)
               v == carried[0][h].pos
               w == carried[1][c].pos
               z == carried[1][j].pos
    <3>3. u \in Nat /\ v \in Nat /\ w \in Nat /\ z \in Nat /\ u <= v /\ v <= w /\ w < z
      BY <2>1, <2>3, <2>4, <3>1, <3>2
    <3> HIDE DEF u, v, w, z
    <3>4. u < z
      BY <3>3
    <3> QED  BY <1>8, <3>4 DEF u, z
  <2>5. CASE h <= a
    <3>1. carried[0][h].pos <= carried[0][a].pos
      BY <1>9, <2>1, <2>5, PlacesIncrease DEF Stream
    <3>2. carried[0][a].pos = carried[1][b].pos
      BY <1>5, <1>9, TwinPlace DEF Stream
    <3> QED  BY <1>9, <2>4, <3>1, <3>2
  <2>6. CASE h > a
    <3> DEFINE m == h - a
    <3>1. m \in 1 .. i - a - 1 /\ a + m = h /\ b + m < j /\ m \in Int
      <4>1. j \in Int /\ b + (i - a) <= j /\ i \in Int
        BY <1>4, <1>8
      <4>2. a \in Nat /\ b \in Nat /\ h \in Nat /\ a < h /\ h < i
        BY <1>4, <2>2, <2>6
      <4> QED  BY ONLY <4>1, <4>2, PlaceInGap
    <3> HIDE DEF m
    <3>2. b + m \in 1 .. Len(carried[1]) /\ Equal(carried[0][h], carried[1][b + m])
      BY <1>6, <3>1
    <3> DEFINE c == b + m
    <3>3. SameContent(OfPacket(carried[0][h]), OfPacket(carried[1][c]))
      BY <3>2 DEF Equal, records_exact_non_error_match
    <3>4. c \in 1 .. Len(carried[1]) /\ c < j
      BY <3>1, <3>2
    <3> HIDE DEF c
    <3>5. carried[0][h].pos = carried[1][c].pos
      BY <2>1, <3>3, <3>4, SamePlace DEF Stream
    <3>6. carried[0][h].pos <= carried[1][c].pos
      BY <2>1, <3>5
    <3> QED  BY <2>4, <3>4, <3>6
  <2> QED  BY <1>4, <2>2, <2>5, <2>6
<1>11. ASSUME NEW m \in 1 .. Len(rs), k < m
       PROVE  rs[k].pkt.pos < rs[m].pkt.pos
  <2> DEFINE c == off + m
  <2>1. c \in b + (i - a) .. l - 1 /\ rs[m].pkt = carried[1][c]
    BY <1>7
  <2>2. j < c
    BY <1>11 DEF j
  <2> HIDE DEF c
  <2>3. c \in 1 .. Len(carried[1])
    BY <1>3, <1>4, <2>1
  <2> QED  BY <1>8, <1>9, <2>1, <2>2, <2>3, PlacesIncrease DEF Stream
<1> QED  BY <1>10, <1>11

LEMMA LastCounted ==
  ASSUME NEW a \in Int, NEW b \in Int, NEW pid, a < b, Source[b].pid = pid, Source[b].payload
  PROVE  Payloads(Source, a, b, pid) = Payloads(Source, a, b - 1, pid) + 1
BY CountedLast

LEMMA FirstCounted ==
  ASSUME NEW a \in Int, NEW b \in Int, NEW pid, a <= b, Source[a].pid = pid, Source[a].payload
  PROVE  Payloads(Source, a - 1, b, pid) = Payloads(Source, a, b, pid) + 1
BY CountedFirst

\* A gap in the counter of a PID behind place y, where the output stands: as many
\* packets are missing as the counter says, or whole rounds more.
LEMMA CounterReach ==
  ASSUME CountersRunOn, FeedInv, Placed, NEW i \in 1 .. Len(carried[0]), NEW l, NEW rs \in Seq(Record),
         FillsCounter(i, l, rs), carried[0][i].pid # NullPid,
         NEW y \in 1 .. Len(Source), Source[y].pid = carried[0][i].pid,
         Source[y].cc = out_cc[carried[0][i].pid], y < carried[0][i].pos
  PROVE  Payloads(Source, y, carried[0][i].pos, carried[0][i].pid) >= Len(rs) + 1
<1> DEFINE x == carried[0][i]
           P == x.pos
           prev == out_cc[x.pid]
           n == Len(rs)
           pid == x.pid
           C == Payloads(Source, y, P, pid)
           D == Payloads(Source, y, P - 1, pid)
<1>1. x.payload /\ n + 1 <= CCMod /\ (prev + n + 1) % CCMod = x.cc
  BY DEF FillsCounter
<1>2. /\ P \in 1 .. Len(Source) /\ x.pid = Source[P].pid /\ x.cc = Source[P].cc
      /\ x.payload = Source[P].payload
  BY PlaceOf DEF Stream
<1>3. Source[y] \in Packet /\ Len(Source) \in Nat
  BY SourceType, ElementOfSeq
<1>4. prev \in CC /\ n \in Nat /\ CCMod \in Nat /\ CCMod >= 2
  BY <1>3, LenProperties, RecordAssumption DEF Packet
<1>5. Source[P].cc = (prev + C) % CCMod
  <2>1. y <= P
    BY <1>2, <1>3
  <2> QED  BY <1>2, <2>1, CounterAt
<1>6. y \in Int /\ P \in Int /\ P - 1 \in Int
  BY <1>2, <1>3
<1>7. C \in Nat /\ D \in Nat /\ C = D + 1
  <2>1. C \in Nat /\ D \in Nat
    BY <1>6, CountedFinite
  <2>2. C = D + 1
    <3>1. y < P /\ Source[P].pid = pid /\ Source[P].payload
      BY <1>1, <1>2
    <3> HIDE DEF P, pid
    <3>2. Payloads(Source, y, P, pid) = Payloads(Source, y, P - 1, pid) + 1
      BY ONLY <1>6, <3>1, LastCounted, Zenon
    <3> QED  BY <3>2
  <2> QED  BY <2>1, <2>2
<1>8. (prev + (n + 1)) % CCMod = (prev + C) % CCMod
  <2>1. prev + n + 1 = prev + (n + 1)
    <3> HIDE DEF prev, n
    <3> QED  BY <1>4 DEF CC
  <2> QED  BY <1>1, <1>2, <1>5, <2>1
<1> HIDE DEF n, C, D, prev
<1>9. n + 1 = C \/ n + 1 >= C + CCMod \/ C >= n + 1 + CCMod
  <2>1. n + 1 \in Nat
    BY <1>4
  <2> QED  BY <1>4, <1>7, <1>8, <2>1, SameCounter
<1>10. C >= n + 1
  BY <1>1, <1>4, <1>7, <1>9
<1> QED  BY <1>10 DEF C, n

\* An anchor from which no counter comes round tells each inserted packet's place.
LEMMA CounterPlaces ==
  ASSUME CountersRunOn, FeedInv, Placed,
         NEW i \in 1 .. Len(carried[0]), NEW l \in 1 .. Len(carried[1]), NEW rs \in Seq(Record),
         FillsCounter(i, l, rs), carried[0][i].pid # NullPid, anchor.s \in Nat,
         out_cc[carried[0][i].pid] \in CC, NEW A \in Nat,
         Payloads(Source, A, carried[0][i].pos - 1, carried[0][i].pid) < CCMod,
         NEW k \in 1 .. Len(rs), A < rs[k].pkt.pos, rs[k].pkt.pos < carried[0][i].pos
  PROVE  Payloads(Source, rs[k].pkt.pos, carried[0][i].pos, carried[0][i].pid) = Len(rs) + 1 - k
<1> DEFINE x == carried[0][i]
           P == x.pos
           pid == x.pid
           prev == out_cc[pid]
           n == Len(rs)
           r == rs[k].pkt.pos
           E == Payloads(Source, r, P, pid)
           F == Payloads(Source, r, P - 1, pid)
           G == Payloads(Source, r - 1, P - 1, pid)
           H == Payloads(Source, A, P - 1, pid)
<1>1. x.payload /\ n + 1 <= CCMod /\ (prev + n + 1) % CCMod = x.cc
  BY DEF FillsCounter
<1>2. /\ P \in 1 .. Len(Source) /\ pid = Source[P].pid /\ x.cc = Source[P].cc
      /\ Source[P].payload
  BY <1>1, PlaceOf DEF Stream
<1>3. Len(Source) \in Nat /\ Len(carried[1]) \in Nat
  BY SourceType, LenProperties DEF FeedInv, Stream
<1>4. prev \in CC /\ n \in Nat /\ CCMod \in Nat /\ CCMod >= 2 /\ pid # NullPid
  BY LenProperties, RecordAssumption
<1>5. PICK j \in anchor.s + 2 .. l - 1 :
           /\ rs[k].pkt = carried[1][j]
           /\ carried[1][j].pid = pid /\ carried[1][j].payload
           /\ carried[1][j].cc = (prev + k) % CCMod
  BY DEF FillsCounter
<1>6. j \in 1 .. Len(carried[1])
  <2> DEFINE z == anchor.s
  <2>1. z \in Nat /\ j \in z + 2 .. l - 1 /\ l \in 1 .. Len(carried[1])
    OBVIOUS
  <2> DEFINE w == Len(carried[1])
  <2>2. w \in Nat /\ l \in 1 .. w
    BY <1>3
  <2> HIDE DEF z, w
  <2>3. j \in 1 .. w
    BY ONLY <2>1, <2>2
  <2> QED  BY <2>3 DEF w
<1>7. /\ r \in 1 .. Len(Source) /\ pid = Source[r].pid /\ Source[r].cc = (prev + k) % CCMod
      /\ Source[r].payload
  <2> DEFINE q == carried[1][j]
  <2>1. /\ q.pos \in 1 .. Len(Source) /\ q.pid = Source[q.pos].pid /\ q.cc = Source[q.pos].cc
        /\ q.payload = Source[q.pos].payload
    BY <1>6, PlaceOf DEF Stream
  <2>2. rs[k].pkt = q /\ q.pid = pid /\ q.payload /\ q.cc = (prev + k) % CCMod
    BY <1>5
  <2> HIDE DEF q, pid, prev
  <2> QED  BY ONLY <2>1, <2>2 DEF r
<1>8. A < r /\ r < P /\ H < CCMod
  OBVIOUS
<1>k. k \in 1 .. n
  OBVIOUS
<1>e. /\ E = Payloads(Source, r, P, pid) /\ F = Payloads(Source, r, P - 1, pid)
      /\ G = Payloads(Source, r - 1, P - 1, pid) /\ H = Payloads(Source, A, P - 1, pid)
  OBVIOUS
<1> HIDE DEF x, P, pid, prev, n, r, E, F, G, H
<1>9. r \in Int /\ P \in Int /\ P - 1 \in Int /\ r - 1 \in Int /\ A \in Int /\ r <= P - 1 /\ A <= r - 1
  <2>1. P \in 1 .. Len(Source) /\ r \in 1 .. Len(Source) /\ A < r /\ r < P
    BY <1>2, <1>7, <1>8
  <2>2. P \in Nat /\ r \in Nat /\ A \in Nat
    BY <1>3, <2>1
  <2> QED  BY ONLY <2>1, <2>2
<1>10. E \in Nat /\ F \in Nat /\ G \in Nat /\ H \in Nat
  BY <1>9, <1>e, CountedFinite
<1>11. E = F + 1
  <2>1. Source[P].pid = pid /\ Source[P].payload /\ r < P
    BY <1>2, <1>8
  <2>2. Payloads(Source, r, P, pid) = Payloads(Source, r, P - 1, pid) + 1
    BY ONLY <1>9, <2>1, LastCounted, Zenon
  <2> QED  BY <1>e, <2>2
<1>12. G = F + 1
  BY ONLY <1>7, <1>9, <1>e, FirstCounted, Zenon
<1>13. G <= H
  <2>1. P - 1 <= P - 1
    BY <1>9
  <2> QED  BY <1>9, <1>e, <2>1, CountedMonotone
<1>14. Source[P].cc = (Source[r].cc + E) % CCMod
  <2>1. r <= P
    BY <1>8, <1>9
  <2> QED  BY <1>2, <1>4, <1>7, <1>e, <2>1, CounterAt
<1>15. /\ prev + k \in Nat /\ prev + n + 1 \in Nat
  BY <1>4, <1>k DEF CC
<1>16. (((prev + k) % CCMod) + E) % CCMod = (prev + n + 1) % CCMod
  BY <1>1, <1>2, <1>7, <1>14
<1>17. \/ (prev + k) + E = prev + n + 1
       \/ (prev + k) + E >= prev + n + 1 + CCMod
       \/ prev + n + 1 >= (prev + k) + E + CCMod
  <2> DEFINE u == prev + k
             z == prev + n + 1
  <2>1. u \in Nat /\ z \in Nat /\ ((u % CCMod) + E) % CCMod = z % CCMod
    BY <1>15, <1>16
  <2> HIDE DEF u, z
  <2>2. u + E = z \/ u + E >= z + CCMod \/ z >= u + E + CCMod
    BY <1>4, <1>10, <2>1, SumOfCounters
  <2> QED  BY <2>2 DEF u, z
<1>18. E = n + 1 - k
  <2>1. prev \in Nat
    BY <1>4 DEF CC
  <2>2. k \in Nat /\ k >= 1 /\ k <= n
    BY <1>k, <1>4
  <2>3. E >= 1 /\ E < CCMod
    BY <1>4, <1>8, <1>10, <1>11, <1>12, <1>13
  <2>4. n + 1 <= CCMod
    BY <1>1
  <2>5. E \in Nat /\ n \in Nat /\ CCMod \in Nat
    BY <1>4, <1>10
  <2> QED  BY <1>17, <2>1, <2>2, <2>3, <2>4, <2>5
<1> QED  BY <1>18, <1>e DEF r, P, pid, x, n

\* What is inserted lies behind place y and is in order.
LEMMA CounterBehind ==
  ASSUME CountersRunOn, FeedInv, Placed, EngineInv, NEW rs \in Seq(Record),
         NEW i \in 1 .. Len(carried[0]), NEW l \in 1 .. Len(carried[1]),
         FillsCounter(i, l, rs), carried[0][i].pid # NullPid, NEW A \in Nat,
         Payloads(Source, A, carried[0][i].pos - 1, carried[0][i].pid) < CCMod,
         NEW y \in 1 .. Len(Source), Source[y].pid = carried[0][i].pid,
         Source[y].cc = out_cc[carried[0][i].pid], y < carried[0][i].pos,
         \A k \in 1 .. Len(rs) : /\ rs[k].pkt.pos \in Nat
                                 /\ A < rs[k].pkt.pos /\ rs[k].pkt.pos < carried[0][i].pos,
         NEW k \in 1 .. Len(rs)
  PROVE  /\ y < rs[k].pkt.pos
         /\ \A m \in 1 .. Len(rs) : k < m => rs[k].pkt.pos < rs[m].pkt.pos
<1> DEFINE P == carried[0][i].pos
           pid == carried[0][i].pid
           n == Len(rs)
           C(z) == Payloads(Source, z, P, pid)
           at(m) == rs[m].pkt.pos
<1>1. n \in Nat /\ Len(Source) \in Nat
  BY LenProperties, SourceType
<1>2. C(y) >= n + 1
  BY CounterReach
<1>3. out_cc[pid] \in CC
  <2>1. Source[y] \in Packet
    BY SourceType, ElementOfSeq
  <2> QED  BY <2>1 DEF Packet
<1>4. anchor.s \in Nat
  BY DEF EngineInv, TypeOK, Anchor
<1>5. ASSUME NEW m \in 1 .. n
      PROVE  C(at(m)) = n + 1 - m /\ at(m) \in Int
  <2>1. A < rs[m].pkt.pos /\ rs[m].pkt.pos < carried[0][i].pos /\ rs[m].pkt.pos \in Nat
    OBVIOUS
  <2>2. C(at(m)) = n + 1 - m
    BY <1>3, <1>4, <2>1, CounterPlaces
  <2> QED  BY <2>1, <2>2
<1>6. P \in Int
  <2>1. carried[0][i] \in Packet
    BY PlaceOf DEF Stream
  <2> QED  BY <2>1 DEF Packet
<1>7. ASSUME NEW u \in Int, NEW v \in Int, u <= v
      PROVE  C(v) <= C(u) /\ C(u) \in Nat /\ C(v) \in Nat
  <2> HIDE DEF P, pid
  <2>1. P <= P
    BY <1>6
  <2> QED  BY <1>6, <1>7, <2>1, CountedMonotone, CountedFinite
<1>k. k \in 1 .. n
  OBVIOUS
<1>y. y \in Int
  BY <1>1
<1> HIDE DEF C, at, n
<1>8. y < at(k)
  <2> SUFFICES ASSUME ~(y < at(k)) PROVE FALSE
    OBVIOUS
  <2>1. at(k) \in Int /\ C(at(k)) = n + 1 - k
    BY <1>5, <1>k
  <2>2. at(k) <= y
    BY <1>y, <2>1
  <2>3. C(y) <= C(at(k)) /\ C(y) \in Nat /\ C(at(k)) \in Nat
    BY <1>7, <1>y, <2>1, <2>2
  <2> QED  BY <1>1, <1>2, <1>k, <2>1, <2>3
<1>9. ASSUME NEW m \in 1 .. n, k < m
      PROVE  at(k) < at(m)
  <2> SUFFICES ASSUME ~(at(k) < at(m)) PROVE FALSE
    OBVIOUS
  <2>1. at(k) \in Int /\ C(at(k)) = n + 1 - k /\ at(m) \in Int /\ C(at(m)) = n + 1 - m
    BY <1>5, <1>k
  <2>2. at(m) <= at(k)
    BY <2>1
  <2>3. C(at(k)) <= C(at(m)) /\ C(at(k)) \in Nat /\ C(at(m)) \in Nat
    BY <1>7, <2>1, <2>2
  <2> QED  BY <1>1, <1>9, <1>k, <2>1, <2>3
<1> QED  BY <1>8, <1>9 DEF at, n

LEMMA PastEntry ==
  ASSUME EngineInv, EntriesKnown, OutputIsPast, NeverFailedOver, pc # "failed", NEW k \in DOMAIN out
  PROVE  /\ EntryKnown(carried, out[k]) /\ out[k].via \in {"primary", "tei", "recovery"}
         /\ out[k].slot \in Nat /\ Front(0) \in Nat /\ out[k].slot < Front(0)
         /\ out[k].slot + 1 < Front(0) + 1
<1>1. out[k] \in Output
  BY LenProperties, ElementOfSeq DEF EngineInv, TypeOK
<1>2. out[k].slot \in Nat /\ out[k].slot < Front(0) /\ out[k].via # "outage"
  BY <1>1 DEF OutputIsPast, Output
<1>3. Front(0) \in Nat
  BY FrontType
<1>4. out[k].via \in {"primary", "tei", "recovery"}
  BY <1>1, <1>2 DEF Output, Via
<1> DEFINE z == out[k].slot
           f == Front(0)
<1>5. z \in Nat /\ f \in Nat /\ z < f
  BY <1>2, <1>3
<1> HIDE DEF z, f
<1>6. z + 1 < f + 1
  BY <1>5
<1> QED  BY <1>2, <1>3, <1>4, <1>6 DEF EntriesKnown, z, f

\* All that was sent lies in front of the packet that is due.
LEMMA PastPlace ==
  ASSUME DistinctContent, CountersRunOn, EngineInv, FeedInv, QueueArrived, Placed, ShortBursts,
         EntriesKnown, OutputIsPast, NeverFailedOver, pc # "failed", queue[0] # << >>,
         NEW k \in DOMAIN out
  PROVE  PosOf(out[k]) \in Nat /\ PosOf(out[k]) < TurnPacket.pkt.pos
<1> DEFINE h == out[k].slot + 1
           i == TurnPacket.idx + 1
           u == PosOf(out[k])
           v == carried[0][h].pos
           w == carried[0][i].pos
<1>1. /\ EntryKnown(carried, out[k]) /\ out[k].via \in {"primary", "tei", "recovery"}
      /\ h < Front(0) + 1
  BY PastEntry
<1>2. /\ h \in 1 .. Len(carried[0]) /\ u \in Nat /\ v \in Nat /\ u <= v
  BY <1>1, KnownPlace
<1>3. i \in 1 .. Len(carried[0]) /\ TurnPacket.pkt = carried[0][i] /\ h < i
  BY <1>1, FrontPlace
<1> HIDE DEF h, i
<1>4. v < w
  BY <1>2, <1>3, PlacesIncrease DEF Stream
<1>5. w \in Nat
  <2>1. carried[0][i] \in Packet
    BY <1>3, PlaceOf DEF Stream
  <2> QED  BY <2>1 DEF Packet
<1> HIDE DEF u, v, w
<1>6. u < w
  BY <1>2, <1>4, <1>5
<1> QED  BY <1>2, <1>3, <1>6 DEF u, w

\* The place where the output of a PID stands.
LEMMA LastPlace ==
  ASSUME DistinctContent, CountersRunOn, EngineInv, FeedInv, Placed, ShortBursts,
         EntriesKnown, OutputIsPast, CounterIsLast, NeverFailedOver, pc # "failed",
         NEW pid \in Pid, out_cc[pid] # NoCC
  PROVE  \E h \in DOMAIN out :
           /\ PosOf(out[h]) \in 1 .. Len(Source)
           /\ Source[PosOf(out[h])].pid = pid /\ Source[PosOf(out[h])].cc = out_cc[pid]
           /\ Content(out[h]) /\ out[h].rec.pkt.pid = pid
           /\ \A k \in DOMAIN out : Content(out[k]) /\ out[k].rec.pkt.pid = pid => k <= h
<1>1. LastOf(out, out_cc[pid], pid)
  BY DEF CounterIsLast
<1>2. PICK h \in DOMAIN out :
        /\ Content(out[h]) /\ out[h].rec.pkt.pid = pid /\ out[h].rec.pkt.cc = out_cc[pid]
        /\ \A k \in DOMAIN out : Content(out[k]) /\ out[k].rec.pkt.pid = pid => k <= h
  BY <1>1 DEF LastOf
<1>3. EntryKnown(carried, out[h]) /\ out[h].via \in {"primary", "tei", "recovery"}
  BY PastEntry
<1>4. /\ PosOf(out[h]) \in 1 .. Len(Source)
      /\ out[h].rec.pkt.pid = Source[PosOf(out[h])].pid
      /\ out[h].rec.pkt.cc = Source[PosOf(out[h])].cc
  BY <1>3, KnownPlace
<1> QED  BY <1>2, <1>4

LEMMA InsertedBehind ==
  ASSUME DistinctContent, CountersRunOn, EngineInv, FeedInv, AlignInv, QueueArrived, Placed,
         ShortBursts, FreshAnchor, EntriesKnown, OutputIsPast, CounterIsLast, PidOrder,
         NeverFailedOver, pc = "primary", queue[0] # << >>, NEW k, Inserted(k)
  PROVE  /\ \A o \in DOMAIN out :
              Content(out[o]) /\ out[o].rec.pkt.pid = TurnDecision.rs[k].pkt.pid
              => PosOf(out[o]) < TurnDecision.rs[k].pkt.pos
         /\ \A m \in 1 .. Len(TurnDecision.rs) :
              k < m => TurnDecision.rs[k].pkt.pos < TurnDecision.rs[m].pkt.pos
<1> DEFINE i == TurnPacket.idx + 1
           rs == TurnDecision.rs
           A == carried[0][anchor.p + 1].pos
           P == carried[0][i].pos
           pid == carried[0][i].pid
<1>1. /\ i \in 1 .. Len(carried[0]) /\ TurnPacket.pkt = carried[0][i] /\ i \in Nat
      /\ TurnPacket.idx = Front(0)
  BY FrontPlace
<1>2. k \in 1 .. Len(rs) /\ Fills(i, rs)
  BY DEF Inserted
<1>3. rs \in Seq(Record)
  BY FrontDecision DEF TurnDecision, TurnPacket, Decision
<1>p. pc # "failed"
  OBVIOUS
<1>4. /\ anchor.valid /\ anchor.p \in Nat /\ anchor.p + 1 < i
      /\ anchor.p + 1 \in 1 .. Len(carried[0]) /\ pid # NullPid
      /\ \A m \in 1 .. Len(rs) :
           /\ rs[m].pkt.pos \in Nat /\ A < rs[m].pkt.pos /\ rs[m].pkt.pos < P
  BY <1>1, <1>2, GapPlaces
<1>f. Payloads(Source, A, P - 1, pid) < CCMod
  BY <1>1, <1>4 DEF FreshAnchor
<1>i. i = Front(0) + 1
  BY <1>1
<1>5. PICK l \in 1 .. Len(carried[1]) :
        /\ anchor.p + 1 \in 1 .. i - 1
        /\ anchor.s + 1 \in 1 .. l - 1
        /\ Twins(carried[0][anchor.p + 1], carried[1][anchor.s + 1])
        /\ FillsPlaces(i, l, rs) \/ FillsCounter(i, l, rs)
  BY <1>2 DEF Fills
<1>h. rs = TurnDecision.rs
  OBVIOUS
<1>z. P = TurnPacket.pkt.pos
  BY <1>1
<1> HIDE DEF i, rs
<1>6. CASE FillsPlaces(i, l, rs)
  <2>1. ASSUME NEW o \in DOMAIN out, Content(out[o])
        PROVE  PosOf(out[o]) < rs[k].pkt.pos
    <3>1. /\ EntryKnown(carried, out[o]) /\ out[o].via \in {"primary", "tei", "recovery"}
          /\ out[o].slot \in Nat /\ out[o].slot + 1 < i
      BY <1>p, <1>i, PastEntry
    <3> QED  BY <1>1, <1>2, <1>5, <1>6, <2>1, <3>1, PlacesBehind
  <2>2. \A m \in 1 .. Len(rs) : k < m => rs[k].pkt.pos < rs[m].pkt.pos
    BY <1>1, <1>2, <1>5, <1>6, PlacesBehind
  <2> QED  BY <1>h, <2>1, <2>2
<1>7. CASE FillsCounter(i, l, rs)
  <2>1. pid \in Pid /\ A \in Nat
    <3>1. carried[0][i] \in Packet /\ carried[0][anchor.p + 1] \in Packet
      BY <1>1, <1>4, PlaceOf DEF Stream
    <3> QED  BY <3>1 DEF Packet
  <2>2. out_cc[pid] # NoCC /\ rs[k].pkt.pid = pid
    BY <1>2, <1>7 DEF FillsCounter
  <2>3. PICK h \in DOMAIN out :
           /\ PosOf(out[h]) \in 1 .. Len(Source)
           /\ Source[PosOf(out[h])].pid = pid /\ Source[PosOf(out[h])].cc = out_cc[pid]
           /\ Content(out[h]) /\ out[h].rec.pkt.pid = pid
           /\ \A o \in DOMAIN out : Content(out[o]) /\ out[o].rec.pkt.pid = pid => o <= h
    BY <1>p, <2>1, <2>2, LastPlace
  <2> DEFINE y == PosOf(out[h])
  <2>4. y < P /\ y \in Nat
    BY <1>p, <1>z, PastPlace
  <2>5. /\ y \in 1 .. Len(Source) /\ Source[y].pid = pid /\ Source[y].cc = out_cc[pid]
    BY <2>3
  <2>6. /\ y < rs[k].pkt.pos
        /\ \A m \in 1 .. Len(rs) : k < m => rs[k].pkt.pos < rs[m].pkt.pos
    <3> HIDE DEF y
    <3> QED  BY <1>1, <1>2, <1>3, <1>4, <1>7, <1>f, <2>1, <2>4, <2>5, CounterBehind
  <2>7. ASSUME NEW o \in DOMAIN out, Content(out[o]), out[o].rec.pkt.pid = rs[k].pkt.pid
        PROVE  PosOf(out[o]) < rs[k].pkt.pos
    <3>1. o <= h
      BY <2>2, <2>3, <2>7
    <3>2. CASE o = h
      BY <2>6, <3>2
    <3>3. CASE o # h
      <4>1. o < h
        <5>1. DOMAIN out = 1 .. Len(out)
          BY LenProperties DEF EngineInv, TypeOK
        <5> QED  BY <3>1, <3>3, <5>1
      <4>2. PosOf(out[o]) < y
        BY <2>2, <2>3, <2>7, <4>1 DEF PidOrder
      <4>3. PosOf(out[o]) \in Nat
        BY <1>p, PastPlace
      <4>4. rs[k].pkt.pos \in Nat
        BY <1>2, <1>4
      <4> DEFINE u == PosOf(out[o])
                 w == rs[k].pkt.pos
      <4>5. u < y /\ y < w /\ u \in Nat /\ y \in Nat /\ w \in Nat
        BY <2>4, <2>6, <4>2, <4>3, <4>4
      <4> HIDE DEF u, w, y
      <4>6. u < w
        BY <4>5
      <4> QED  BY <4>6 DEF u, w
    <3> QED  BY <3>2, <3>3
  <2> QED  BY <1>h, <2>6, <2>7
<1> QED  BY <1>5, <1>6, <1>7

\* Where a turn's packets belong.
LEMMA TurnPlaces ==
  ASSUME DistinctContent, CountersRunOn, EngineInv, FeedInv, AlignInv, QueueArrived, Placed,
         ShortBursts, queue[0] # << >>, NEW n \in 0 .. Len(TurnSent), NEW j \in 1 .. n
  PROVE  LET e == TurnEntries(n)[j]
         IN  /\ PosOf(e) \in Nat /\ TurnPacket.pkt.pos \in Nat
             /\ e.rec.pkt.pid = Source[PosOf(e)].pid /\ e.slot = TurnPacket.idx
             /\ \/ /\ e.via \in {"primary", "tei"} /\ j = Len(TurnSent)
                   /\ PosOf(e) = TurnPacket.pkt.pos
                \/ /\ e.via = "recovery" /\ Inserted(j) /\ e.rec = TurnDecision.rs[j]
                   /\ PosOf(e) < TurnPacket.pkt.pos
<1> DEFINE e == TurnEntries(n)[j]
<1>1. /\ j \in 1 .. Len(TurnSent)
      /\ e = [rec |-> TurnSent[j], via |-> TurnVia[j], slot |-> TurnPacket.idx]
      /\ EntryKnown(carried, e)
  BY TurnEntry
<1>2. TurnPacket.pkt = carried[0][TurnPacket.idx + 1]
  BY FrontPlace
<1> HIDE DEF e
<1>3. e.rec = TurnSent[j] /\ e.via = TurnVia[j] /\ e.slot = TurnPacket.idx
  BY <1>1
<1>4. \/ e.via = "primary" /\ j = Len(TurnSent)
      \/ e.via = "tei" /\ j = Len(TurnSent)
      \/ e.via = "recovery" /\ Inserted(j) /\ e.rec = TurnDecision.rs[j]
  BY <1>1, <1>3, TurnCases DEF Inserted
<1>5. e.via \in {"primary", "tei", "recovery"}
  BY <1>4
<1>6. /\ PosOf(e) \in Nat /\ carried[0][e.slot + 1].pos \in Nat
      /\ e.rec.pkt.pid = Source[PosOf(e)].pid
      /\ e.via \in {"primary", "tei"} => PosOf(e) = carried[0][e.slot + 1].pos
      /\ e.via = "recovery" => PosOf(e) < carried[0][e.slot + 1].pos
  BY <1>1, <1>5, KnownPlace
<1>7. carried[0][e.slot + 1].pos = TurnPacket.pkt.pos
  BY <1>2, <1>3
<1>8. /\ PosOf(e) \in Nat /\ TurnPacket.pkt.pos \in Nat
      /\ e.rec.pkt.pid = Source[PosOf(e)].pid /\ e.slot = TurnPacket.idx
      /\ e.via \in {"primary", "tei"} => PosOf(e) = TurnPacket.pkt.pos
      /\ e.via = "recovery" => PosOf(e) < TurnPacket.pkt.pos
  BY <1>3, <1>6, <1>7
<1> QED  BY <1>4, <1>8 DEF e

LEMMA OrderTurn ==
  ASSUME DistinctContent, CountersRunOn, EngineInv, FeedInv, AlignInv, QueueArrived, Placed,
         ShortBursts, FreshAnchor, EntriesKnown, OutputIsPast, CounterIsLast, PidOrder,
         NeverFailedOver, NEW n \in Nat, Turn(n)
  PROVE  PidOrder'
<1> DEFINE new == TurnEntries(n)
           x == out'
           P == TurnPacket.pkt.pos
           b == Len(out)
<1>1. /\ queue[0] # << >> /\ n \in 0 .. Len(TurnSent) /\ x = out \o new /\ pc = "primary"
      /\ pc # "failed"
  BY DEF Turn
<1>2. new \in Seq(Output) /\ DOMAIN new = 1 .. n
  BY <1>1, TurnEntriesType
<1>3. ASSUME NEW j \in 1 .. n
      PROVE  /\ PosOf(new[j]) \in Nat /\ P \in Nat
             /\ \/ /\ j = Len(TurnSent) /\ PosOf(new[j]) = P
                \/ /\ Inserted(j) /\ new[j].rec = TurnDecision.rs[j] /\ PosOf(new[j]) < P
  BY <1>1, TurnPlaces
<1>4. out \in Seq(Output) /\ DOMAIN out = 1 .. b /\ b \in Nat
  BY LenProperties DEF EngineInv, TypeOK
<1>5. \A i \in DOMAIN out : PosOf(out[i]) \in Nat /\ PosOf(out[i]) < P
  BY <1>1, PastPlace
<1>6. ASSUME NEW j \in 1 .. n, Inserted(j)
      PROVE  /\ \A o \in DOMAIN out :
                  Content(out[o]) /\ out[o].rec.pkt.pid = TurnDecision.rs[j].pkt.pid
                  => PosOf(out[o]) < TurnDecision.rs[j].pkt.pos
             /\ \A m \in 1 .. Len(TurnDecision.rs) :
                  j < m => TurnDecision.rs[j].pkt.pos < TurnDecision.rs[m].pkt.pos
  BY <1>1, <1>6, InsertedBehind
<1>7. Len(TurnSent) \in Nat
  BY <1>1, FrontDecision DEF TurnPacket, TurnDecision, TurnSent
<1>8. \A i, j \in DOMAIN out : i < j /\ Content(out[i]) /\ Content(out[j])
         /\ out[i].rec.pkt.pid = out[j].rec.pkt.pid => PosOf(out[i]) < PosOf(out[j])
  BY DEF PidOrder
<1> HIDE DEF new, x, P, b
<1>9. ASSUME NEW i \in DOMAIN out, NEW j \in 1 .. n, Content(out[i]),
             out[i].rec.pkt.pid = new[j].rec.pkt.pid
      PROVE  PosOf(out[i]) < PosOf(new[j])
  <2>1. CASE PosOf(new[j]) = P
    BY <1>5, <2>1
  <2>2. CASE Inserted(j) /\ new[j].rec = TurnDecision.rs[j]
    <3>1. out[i].rec.pkt.pid = TurnDecision.rs[j].pkt.pid
      BY <1>9, <2>2
    <3>2. PosOf(out[i]) < TurnDecision.rs[j].pkt.pos
      BY <1>6, <1>9, <2>2, <3>1
    <3> QED  BY <2>2, <3>2 DEF PosOf
  <2> QED  BY <1>3, <2>1, <2>2
<1>10. ASSUME NEW i \in 1 .. n, NEW j \in 1 .. n, i < j
       PROVE  PosOf(new[i]) < PosOf(new[j])
  <2>1. i # Len(TurnSent)
    BY <1>1, <1>7, <1>10
  <2>2. Inserted(i) /\ new[i].rec = TurnDecision.rs[i] /\ PosOf(new[i]) < P
    BY <1>3, <2>1
  <2>3. CASE PosOf(new[j]) = P
    BY <2>2, <2>3
  <2>4. CASE Inserted(j) /\ new[j].rec = TurnDecision.rs[j]
    <3>1. j \in 1 .. Len(TurnDecision.rs)
      BY <2>4 DEF Inserted
    <3>2. TurnDecision.rs[i].pkt.pos < TurnDecision.rs[j].pkt.pos
      BY <1>6, <1>10, <2>2, <3>1
    <3> QED  BY <2>2, <2>4, <3>2 DEF PosOf
  <2> QED  BY <1>3, <2>3, <2>4
<1>11. ASSUME NEW i \in DOMAIN x, NEW j \in DOMAIN x, i < j, Content(x[i]), Content(x[j]),
              x[i].rec.pkt.pid = x[j].rec.pkt.pid
       PROVE  PosOf(x[i]) < PosOf(x[j])
  <2>1. /\ (i \in DOMAIN out /\ x[i] = out[i]) \/
              (i - b \in DOMAIN new /\ x[i] = new[i - b] /\ i > b)
        /\ (j \in DOMAIN out /\ x[j] = out[j]) \/
              (j - b \in DOMAIN new /\ x[j] = new[j - b] /\ j > b)
    BY <1>1, <1>2, <1>4, EntryOf DEF b
  <2>2. CASE i \in DOMAIN out /\ x[i] = out[i] /\ j \in DOMAIN out /\ x[j] = out[j]
    BY <1>8, <1>11, <2>2
  <2>3. CASE i \in DOMAIN out /\ x[i] = out[i] /\ j - b \in DOMAIN new /\ x[j] = new[j - b]
    <3> DEFINE m == j - b
    <3>1. m \in 1 .. n /\ x[j] = new[m]
      BY <1>2, <2>3
    <3> HIDE DEF m
    <3>2. Content(out[i]) /\ out[i].rec.pkt.pid = new[m].rec.pkt.pid
      BY <1>11, <2>3, <3>1
    <3>3. PosOf(out[i]) < PosOf(new[m])
      BY <1>9, <2>3, <3>1, <3>2
    <3> QED  BY <2>3, <3>1, <3>3
  <2>4. CASE i - b \in DOMAIN new /\ x[i] = new[i - b] /\ i > b
    <3>0. x \in Seq(Output)
      BY <1>1, <1>2, <1>4, EntryStays
    <3>1. i \in Int /\ j \in Int
      <4>1. DOMAIN x = 1 .. Len(x)
        BY <3>0, LenProperties
      <4> QED  BY <4>1
    <3>2. ~(j \in DOMAIN out)
      BY <1>4, <1>11, <2>4, <3>1
    <3>3. j - b \in DOMAIN new /\ x[j] = new[j - b]
      BY <2>1, <3>2
    <3> DEFINE m == j - b
               o == i - b
    <3>4. m \in 1 .. n /\ o \in 1 .. n /\ x[j] = new[m] /\ x[i] = new[o]
      BY <1>2, <2>4, <3>3
    <3>5. o < m
      BY <1>4, <1>11, <3>1
    <3> HIDE DEF m, o
    <3>6. PosOf(new[o]) < PosOf(new[m])
      BY <1>10, <3>4, <3>5
    <3> QED  BY <3>4, <3>6
  <2> QED  BY <2>1, <2>2, <2>3, <2>4
<1> QED  BY <1>11 DEF PidOrder, x, Content, PosOf, IsNull

LEMMA OrderStep ==
  ASSUME DistinctContent, CountersRunOn, EngineInv, FeedInv, AlignInv, QueueArrived, Placed,
         ShortBursts, FreshAnchor, EntriesKnown, OutputIsPast, CounterIsLast, PrimaryActive,
         PidOrder, [NetNext]_all_vars
  PROVE  PidOrder'
<1>1. CASE ~NeverFailedOver'
  BY <1>1 DEF PidOrder
<1>2. CASE NeverFailedOver'
  <2>1. /\ NeverFailedOver
        /\ \/ \E s \in Stream, pkt \in Packet : Arrival(s, pkt)
           \/ \E n \in Nat : Turn(n)
           \/ Quiet
    BY <1>2, StayingSteps
  <2>2. ASSUME out' = out PROVE PidOrder'
    BY <2>1, <2>2 DEF PidOrder, Content, PosOf, IsNull
  <2>3. CASE \E s \in Stream, pkt \in Packet : Arrival(s, pkt)
    BY <2>2, <2>3 DEF Arrival, Arrive, PushPacket
  <2>4. CASE \E n \in Nat : Turn(n)
    BY <2>1, <2>4, OrderTurn
  <2>5. CASE Quiet
    BY <2>2, <2>5 DEF Quiet
  <2> QED  BY <2>1, <2>3, <2>4, <2>5
<1> QED  BY <1>1, <1>2

(***************************************************************************)
(* PidOrder, for every broadcast whose content differs and whose counters  *)
(* run on, and for all losses on both feeds: recovery_engine_drain never   *)
(* sends the content of a PID out of order and never twice.  The counter   *)
(* of a PID says how many packets are missing only up to whole turns of    *)
(* it, so that no turn may lie between the last anchor and the packet that *)
(* is due; the run stale_anchor shows what happens otherwise.              *)
(***************************************************************************)
THEOREM OutputKeepsOrder ==
  ASSUME DistinctContent, CountersRunOn
  PROVE  NetSpec /\ []ShortBursts /\ []FreshAnchor => []PidOrder
<1>1. NetInit => PidOrder
  BY EmptySeq DEF NetInit, Init, PidOrder
<1>2. EngineInv /\ FeedInv /\ AlignInv /\ QueueArrived /\ Placed /\ ShortBursts /\ FreshAnchor
        /\ EntriesKnown /\ OutputIsPast /\ CounterIsLast /\ PrimaryActive /\ PidOrder
        /\ [NetNext]_all_vars
        => PidOrder'
  BY OrderStep
<1>3. NetSpec => []EngineInv
  BY FeedsImplementEngine, EngineInvariant, PTL
<1> QED  BY <1>1, <1>2, <1>3, FeedInvariant, AlignInvariant, PlacedInvariant,
            EntriesKnownInvariant, PastInvariant, PrimaryActiveInvariant, PTL DEF NetSpec

-----------------------------------------------------------------------------
(***************************************************************************)
(* What is inserted was missing.                                           *)
(***************************************************************************)
\* With no packet pushed out of the primary queue, all that left it was sent.
LEMMA NothingLost ==
  ASSUME AccountInv, NoOverflow, NeverFailedOver, pc # "failed", NEW h \in 0 .. Front(0) - 1
  PROVE  \E k \in DOMAIN out : out[k].via \in {"primary", "tei"} /\ out[k].slot = h
<1>1. /\ IsFiniteSet(Lost(Front(0), out))
      /\ Cardinality(Lost(Front(0), out)) = 0
  BY DEF AccountInv, NoOverflow
<1>2. Lost(Front(0), out) = {}
  BY <1>1, FS_EmptySet
<1>3. ASSUME \A k \in DOMAIN out : ~(out[k].via \in {"primary", "tei"} /\ out[k].slot = h)
      PROVE  h \in Lost(Front(0), out)
  BY <1>3 DEF Lost
<1> QED  BY <1>2, <1>3

\* What a turn inserts, the primary has not delivered.
LEMMA InsertedMissing ==
  ASSUME DistinctContent, CountersRunOn, EngineInv, FeedInv, AlignInv, QueueArrived, Placed,
         ShortBursts, FreshAnchor, EntriesKnown, OutputIsPast, CounterIsLast, PidOrder,
         AccountInv, NoOverflow, NeverFailedOver, pc = "primary", queue[0] # << >>,
         NEW k, Inserted(k), TurnDecision.rs[k].pkt.pid # NullPid,
         NEW h \in 1 .. Len(carried[0])
  PROVE  carried[0][h].pos # TurnDecision.rs[k].pkt.pos
<1> DEFINE i == TurnPacket.idx + 1
           rs == TurnDecision.rs
           f == Front(0)
<1>1. /\ i \in 1 .. Len(carried[0]) /\ i \in Nat /\ i = f + 1
  BY FrontPlace
<1>2. k \in 1 .. Len(rs) /\ Fills(i, rs)
  BY DEF Inserted
<1>3. /\ rs[k].pkt.pos \in Nat /\ rs[k].pkt.pid = Source[rs[k].pkt.pos].pid
      /\ rs[k].pkt.pos < carried[0][i].pos
  <2> HIDE DEF i, rs, f
  <2>1. DistinctContent /\ EngineInv /\ FeedInv /\ Placed /\ i \in Nat /\ Fills(i, rs)
    BY <1>1, <1>2
  <2> QED  BY ONLY <1>2, <2>1, GapPlaces
<1>4. f \in Nat
  BY FrontType
<1>5. Len(carried[0]) \in Nat
  BY LenProperties DEF FeedInv, Stream
<1>6. carried[0][h].pos \in Nat /\ carried[0][i].pos \in Nat
  <2>1. carried[0][h] \in Packet /\ carried[0][i] \in Packet
    BY <1>1, PlaceOf DEF Stream
  <2> QED  BY <2>1 DEF Packet
<1>7. CASE i <= h
  <2>1. carried[0][i].pos <= carried[0][h].pos
    BY <1>1, <1>7, PlacesIncrease DEF Stream
  <2> DEFINE u == carried[0][i].pos
             v == carried[0][h].pos
             w == rs[k].pkt.pos
  <2>2. w < u /\ u <= v /\ w \in Nat /\ u \in Nat /\ v \in Nat
    BY <1>3, <1>6, <2>1
  <2> HIDE DEF u, v, w
  <2>3. v # w
    BY <2>2
  <2> QED  BY <2>3 DEF v, w
<1>8. CASE h < i
  <2>1. h - 1 \in 0 .. f - 1
    <3> HIDE DEF f
    <3> QED  BY <1>1, <1>4, <1>5, <1>8
  <2>2. PICK o \in DOMAIN out : out[o].via \in {"primary", "tei"} /\ out[o].slot = h - 1
    BY <2>1, NothingLost
  <2>3. EntryKnown(carried, out[o]) /\ out[o].slot + 1 = h
    BY <2>2 DEF EntriesKnown
  <2>4. PosOf(out[o]) = carried[0][h].pos /\ out[o].rec.pkt.pid = Source[PosOf(out[o])].pid
    BY <2>2, <2>3, KnownPlace
  <2> SUFFICES ASSUME carried[0][h].pos = rs[k].pkt.pos PROVE FALSE
    OBVIOUS
  <2>5. out[o].rec.pkt.pid = rs[k].pkt.pid /\ PosOf(out[o]) = rs[k].pkt.pos
    BY <1>3, <2>4
  <2>6. Content(out[o])
    BY <2>5 DEF Content, IsNull
  <2>7. PosOf(out[o]) < rs[k].pkt.pos
    BY <2>5, <2>6, InsertedBehind
  <2> DEFINE w == rs[k].pkt.pos
  <2>8. w < w /\ w \in Nat
    BY <1>3, <2>5, <2>7
  <2> HIDE DEF w
  <2> QED  BY <2>8
<1> QED  BY <1>1, <1>5, <1>7, <1>8

LEMMA GapsStep ==
  ASSUME DistinctContent, CountersRunOn, EngineInv, FeedInv, FeedInv', AlignInv, QueueArrived,
         Placed, Placed', ShortBursts, FreshAnchor, EntriesKnown, OutputIsPast, CounterIsLast,
         PrimaryActive, PidOrder, AccountInv, NoOverflow, RecoveryFillsGaps, [NetNext]_all_vars
  PROVE  RecoveryFillsGaps'
<1> SUFFICES ASSUME NeverFailedOver', NEW k \in DOMAIN out', out'[k].via = "recovery",
                    Content(out'[k]), NEW h \in DOMAIN carried'[0]
             PROVE  carried'[0][h].pos # PosOf(out'[k])
  BY DEF RecoveryFillsGaps, Content, PosOf, IsNull
<1>1. /\ NeverFailedOver
      /\ \/ \E s \in Stream, pkt \in Packet : Arrival(s, pkt)
         \/ \E n \in Nat : Turn(n)
         \/ Quiet
  BY StayingSteps
<1>2. \A o \in DOMAIN out : out[o].via = "recovery" /\ Content(out[o]) =>
        \A i \in DOMAIN carried[0] : carried[0][i].pos # PosOf(out[o])
  BY <1>1 DEF RecoveryFillsGaps
<1>3. /\ carried[0] \in Seq(Packet) /\ DOMAIN carried[0] = 1 .. Len(carried[0])
      /\ carried'[0] \in Seq(Packet) /\ DOMAIN carried'[0] = 1 .. Len(carried'[0])
      /\ Len(carried[0]) \in Nat /\ Len(carried'[0]) \in Nat
  BY LenProperties DEF FeedInv, Stream
<1>4. CASE Quiet
  BY <1>2, <1>4 DEF Quiet
<1>5. ASSUME NEW s \in Stream, NEW pkt \in Packet, Arrival(s, pkt)
      PROVE  carried'[0][h].pos # PosOf(out'[k])
  <2>1. out' = out
    BY <1>5 DEF Arrival, Arrive, PushPacket
  <2>2. \A i \in 1 .. Len(carried[0]) : i \in 1 .. Len(carried'[0]) /\ carried'[0][i] = carried[0][i]
    BY <1>5, ArrivalExtends DEF Stream
  <2>3. CASE h \in 1 .. Len(carried[0])
    BY <1>2, <1>3, <2>1, <2>2, <2>3
  <2>4. CASE ~(h \in 1 .. Len(carried[0]))
    <3> DEFINE i == out[k].slot + 1
               x == PosOf(out[k])
    <3>1. EntryKnown(carried, out[k]) /\ out[k].via = "recovery"
      BY <2>1 DEF EntriesKnown
    <3>2. /\ i \in 1 .. Len(carried[0]) /\ x \in Nat /\ carried[0][i].pos \in Nat
          /\ x < carried[0][i].pos
      BY <3>1, KnownPlace
    <3> HIDE DEF i, x
    <3>3. i \in 1 .. Len(carried'[0]) /\ carried'[0][i] = carried[0][i]
      BY <2>2, <3>2
    <3>4. h \in 1 .. Len(carried'[0]) /\ i <= h
      BY <1>3, <2>4, <3>2
    <3>5. carried'[0][i].pos <= carried'[0][h].pos
      <4> DEFINE q == carried'[0]
      <4>1. InPlace(q, upto'[0], Source')
        BY DEF Placed, Stream
      <4>2. q[i].pos + (h - i) <= q[h].pos
        BY <3>3, <3>4, <4>1 DEF InPlace
      <4>3. q[i] \in Packet /\ q[h] \in Packet
        BY <1>3, <3>3, <3>4, ElementOfSeq
      <4>4. q[i].pos \in Nat /\ q[h].pos \in Nat
        BY <4>3 DEF Packet
      <4> DEFINE u == q[i].pos
                 v == q[h].pos
      <4>5. u + (h - i) <= v /\ u \in Nat /\ v \in Nat
        BY <4>2, <4>4
      <4>6. h \in Int /\ i \in Int
        BY <3>3, <3>4
      <4> HIDE DEF u, v
      <4>7. u <= v
        BY <3>4, <4>5, <4>6
      <4> QED  BY <4>7 DEF u, v
    <3> DEFINE u == carried'[0][i].pos
               v == carried'[0][h].pos
    <3>6. carried'[0][h] \in Packet
      BY <1>3, <3>4, ElementOfSeq
    <3>7. x < u /\ u <= v /\ x \in Nat /\ u \in Nat /\ v \in Nat
      BY <3>2, <3>3, <3>5, <3>6 DEF Packet
    <3> HIDE DEF u, v
    <3>8. v # x
      BY <3>7
    <3> QED  BY <2>1, <3>8 DEF v, x
  <2> QED  BY <2>3, <2>4
<1>6. ASSUME NEW n \in Nat, Turn(n)
      PROVE  carried'[0][h].pos # PosOf(out'[k])
  <2> DEFINE new == TurnEntries(n)
             x == out'
             m == k - Len(out)
  <2>1. /\ queue[0] # << >> /\ n \in 0 .. Len(TurnSent) /\ x = out \o new /\ pc = "primary"
        /\ carried' = carried
    BY <1>6 DEF Turn
  <2>2. new \in Seq(Output) /\ DOMAIN new = 1 .. n
    BY <2>1, TurnEntriesType
  <2>3. out \in Seq(Output)
    BY DEF EngineInv, TypeOK
  <2>4. \A j \in 1 .. n : new[j].via = "recovery" => Inserted(j) /\ new[j].rec = TurnDecision.rs[j]
    <3> TAKE j \in 1 .. n
    <3> QED  BY <2>1, TurnPlaces
  <2>5. k \in DOMAIN x /\ x[k].via = "recovery" /\ Content(x[k])
    OBVIOUS
  <2> HIDE DEF new, x, m
  <2>6. \/ k \in DOMAIN out /\ x[k] = out[k]
        \/ m \in DOMAIN new /\ x[k] = new[m]
    BY <2>1, <2>2, <2>3, <2>5, EntryOf DEF m
  <2>7. CASE k \in DOMAIN out /\ x[k] = out[k]
    <3>1. carried[0][h].pos # PosOf(out[k])
      BY <1>2, <2>1, <2>5, <2>7
    <3> QED  BY <2>1, <2>7, <3>1 DEF x
  <2>8. CASE m \in DOMAIN new /\ x[k] = new[m]
    <3>1. m \in 1 .. n /\ new[m].via = "recovery" /\ Content(new[m])
      BY <2>2, <2>5, <2>8
    <3>2. Inserted(m) /\ new[m].rec = TurnDecision.rs[m]
      BY <2>4, <3>1
    <3>3. TurnDecision.rs[m].pkt.pid # NullPid
      BY <3>1, <3>2 DEF Content, IsNull
    <3>4. h \in 1 .. Len(carried[0])
      BY <1>3, <2>1
    <3>5. carried[0][h].pos # TurnDecision.rs[m].pkt.pos
      BY <1>1, <2>1, <3>2, <3>3, <3>4, InsertedMissing
    <3>6. carried[0][h].pos # PosOf(x[k])
      BY <2>8, <3>2, <3>5 DEF PosOf
    <3> QED  BY <2>1, <3>6 DEF x
  <2> QED  BY <2>6, <2>7, <2>8
<1> QED  BY <1>1, <1>4, <1>5, <1>6

(***************************************************************************)
(* RecoveryFillsGaps, under the same conditions: what recovery inserts,    *)
(* the primary has not delivered and does not deliver later.  It needs     *)
(* that all the primary delivered before the packet that is due was sent:  *)
(* a packet that a full queue pushed out, or that a drain discarded,       *)
(* counts as missing for recovery_engine_drain and may be inserted from    *)
(* the secondary.                                                          *)
(***************************************************************************)
THEOREM InsertedIsMissing ==
  ASSUME DistinctContent, CountersRunOn
  PROVE  NetSpec /\ []ShortBursts /\ []FreshAnchor /\ []NoneDiscarded /\ []NoOverflow
           => []RecoveryFillsGaps
<1>1. NetInit => RecoveryFillsGaps
  BY EmptySeq DEF NetInit, Init, RecoveryFillsGaps
<1>2. EngineInv /\ FeedInv /\ FeedInv' /\ AlignInv /\ QueueArrived /\ Placed /\ Placed'
        /\ ShortBursts /\ FreshAnchor /\ EntriesKnown /\ OutputIsPast /\ CounterIsLast
        /\ PrimaryActive /\ PidOrder /\ AccountInv /\ NoOverflow /\ RecoveryFillsGaps
        /\ [NetNext]_all_vars
        => RecoveryFillsGaps'
  BY GapsStep
<1>3. NetSpec => []EngineInv
  BY FeedsImplementEngine, EngineInvariant, PTL
<1>4. NetSpec /\ []ShortBursts /\ []FreshAnchor => []PidOrder
  BY OutputKeepsOrder
<1> QED  BY <1>1, <1>2, <1>3, <1>4, AccountInvariant, FeedInvariant, AlignInvariant, PlacedInvariant,
            EntriesKnownInvariant, PastInvariant, PrimaryActiveInvariant, PTL DEF NetSpec

-----------------------------------------------------------------------------
(***************************************************************************)
(* A feed that has lost nothing, and an output that misses nothing.        *)
(***************************************************************************)
\* The place of a packet is its index in a feed that has lost nothing, counted from 1.
LEMMA IndexIsPlace ==
  ASSUME FeedInv, Placed, NEW s \in Stream, upto[s] = Len(carried[s]),
         NEW i \in 1 .. Len(carried[s])
  PROVE  carried[s][i].pos = i
<1>1. InPlace(carried[s], upto[s], Source)
  BY DEF Placed
<1>2. carried[s][i].pos \in i .. Len(carried[s]) - (Len(carried[s]) - i)
  BY <1>1 DEF InPlace
<1> DEFINE x == carried[s][i].pos
           n == Len(carried[s])
<1>3. n \in Nat
  BY LenProperties DEF FeedInv
<1>4. x \in i .. n - (n - i) /\ i \in 1 .. n
  BY <1>2
<1> HIDE DEF x, n
<1>5. x = i
  BY <1>3, <1>4
<1> QED  BY <1>5 DEF x

\* What is known of an entry stands in the broadcast.
LEMMA EntryInSource ==
  ASSUME FeedInv, Placed, NEW e, e.via \in Via, EntryKnown(carried, e)
  PROVE  /\ PosOf(e) \in 1 .. Len(Source)
         /\ e.rec.pkt.pid = Source[PosOf(e)].pid /\ e.rec.pkt.cc = Source[PosOf(e)].cc
<1>1. \E s \in Stream : \E i \in 1 .. Len(carried[s]) : e.rec.pkt = carried[s][i]
  <2>0. 0 \in Stream /\ 1 \in Stream
    BY DEF Stream
  <2>1. CASE e.via = "primary"
    BY <2>0, <2>1 DEF EntryKnown
  <2>2. CASE e.via = "tei"
    BY <2>0, <2>2 DEF EntryKnown
  <2>3. CASE e.via = "outage"
    BY <2>0, <2>3 DEF EntryKnown
  <2>4. CASE e.via = "recovery"
    <3>1. PICK l \in 1 .. Len(carried[1]) : \E j \in 1 .. l - 1 : e.rec.pkt = carried[1][j]
      BY <2>4 DEF EntryKnown
    <3>2. PICK j \in 1 .. l - 1 : e.rec.pkt = carried[1][j]
      BY <3>1
    <3>3. j \in 1 .. Len(carried[1])
      <4>1. Len(carried[1]) \in Nat
        BY LenProperties DEF FeedInv, Stream
      <4> QED  BY <4>1
    <3> QED  BY <2>0, <3>2, <3>3
  <2> QED  BY <2>1, <2>2, <2>3, <2>4 DEF Via
<1>2. PICK s \in Stream : \E i \in 1 .. Len(carried[s]) : e.rec.pkt = carried[s][i]
  BY <1>1
<1>3. PICK i \in 1 .. Len(carried[s]) : e.rec.pkt = carried[s][i]
  BY <1>2
<1>4. /\ carried[s][i].pos \in 1 .. Len(Source)
      /\ carried[s][i].pid = Source[carried[s][i].pos].pid
      /\ carried[s][i].cc = Source[carried[s][i].pos].cc
  BY PlaceOf
<1> QED  BY <1>3, <1>4 DEF PosOf

(***************************************************************************)
(* Behind an exact output, nothing is inserted in front of the packet of a *)
(* complete primary that is due next.                                      *)
(***************************************************************************)
LEMMA ExactNoGap ==
  ASSUME DistinctContent, CountersRunOn, EngineInv, FeedInv, AlignInv, QueueArrived, Placed,
         EntriesKnown, CounterIsLast, upto[0] = Len(carried[0]),
         pc = "primary", queue[0] # << >>, Exact(out), Len(out) = Front(0), NEW k, Inserted(k)
  PROVE  FALSE
<1> DEFINE i == TurnPacket.idx + 1
           rs == TurnDecision.rs
           a == anchor.p + 1
           b == anchor.s + 1
           pid == carried[0][i].pid
<1>1. /\ i \in 1 .. Len(carried[0]) /\ i \in Nat /\ i = Front(0) + 1
  BY FrontPlace
<1>2. k \in 1 .. Len(rs) /\ Fills(i, rs)
  BY DEF Inserted
<1>3. rs \in Seq(Record)
  BY FrontDecision DEF TurnDecision, TurnPacket, Decision
<1>4. /\ a \in 1 .. Len(carried[0]) /\ pid # NullPid /\ a < i /\ a \in Nat
  BY <1>1, <1>2, GapPlaces
<1>5. Len(out) = Front(0) /\ \A z \in DOMAIN out : PosOf(out[z]) = z
  BY DEF Exact
<1>6. PICK l \in 1 .. Len(carried[1]) :
        /\ b \in 1 .. l - 1
        /\ Twins(carried[0][a], carried[1][b])
        /\ Twins(carried[0][i], carried[1][l])
        /\ FillsPlaces(i, l, rs) \/ FillsCounter(i, l, rs)
  BY <1>2 DEF Fills
<1>7. carried[0][a].pos = a /\ carried[0][i].pos = i
  BY <1>1, <1>4, IndexIsPlace DEF Stream
<1>8. Len(out) \in Nat /\ DOMAIN out = 1 .. Len(out) /\ Len(carried[1]) \in Nat
  BY LenProperties DEF EngineInv, TypeOK, FeedInv, Stream
<1>9. CASE FillsPlaces(i, l, rs)
  <2>1. l - b > i - a
    BY <1>9 DEF FillsPlaces
  <2> HIDE DEF a, b, i
  <2>2. b \in 1 .. Len(carried[1]) /\ b <= l
    BY <1>6, <1>8
  <2>3. carried[1][b].pos = a /\ carried[1][l].pos = i
    BY <1>1, <1>4, <1>6, <1>7, <2>2, TwinPlace DEF Stream
  <2>4. carried[1][b].pos + (l - b) <= carried[1][l].pos
    BY <2>2, PlacesIncrease DEF Stream
  <2>5. a + (l - b) <= i
    BY <2>3, <2>4
  <2>6. b \in Int /\ l \in Int /\ a \in Int /\ i \in Int
    BY <1>1, <1>4, <2>2
  <2> QED  BY <2>1, <2>5, <2>6
<1>10. CASE FillsCounter(i, l, rs)
  <2>1. pid \in Pid
    <3>1. carried[0][i] \in Packet
      BY <1>1, PlaceOf DEF Stream
    <3> QED  BY <3>1 DEF Packet
  <2>2. out_cc[pid] # NoCC
    BY <1>10 DEF FillsCounter
  <2>3. PICK h \in DOMAIN out :
           /\ Content(out[h]) /\ out[h].rec.pkt.pid = pid /\ out[h].rec.pkt.cc = out_cc[pid]
           /\ \A o \in DOMAIN out : Content(out[o]) /\ out[o].rec.pkt.pid = pid => o <= h
    <3>1. LastOf(out, out_cc[pid], pid)
      BY <2>1 DEF CounterIsLast
    <3> HIDE DEF pid
    <3> QED  BY <2>2, <3>1 DEF LastOf
  <2>e. \A z \in DOMAIN out :
          /\ z \in 1 .. Len(Source)
          /\ out[z].rec.pkt.pid = Source[z].pid /\ out[z].rec.pkt.cc = Source[z].cc
    <3> TAKE z \in DOMAIN out
    <3>1. out[z] \in Output
      BY LenProperties, ElementOfSeq DEF EngineInv, TypeOK
    <3>2. out[z].via \in Via /\ EntryKnown(carried, out[z])
      BY <3>1 DEF Output, EntriesKnown
    <3>3. PosOf(out[z]) = z
      BY <1>5
    <3> QED  BY <3>2, <3>3, EntryInSource
  <2>5. h \in 1 .. Len(Source) /\ Source[h].pid = pid /\ Source[h].cc = out_cc[pid]
    BY <2>3, <2>e
  <2> DEFINE P == carried[0][i].pos
             n == Len(rs)
             C == Payloads(Source, h, P, pid)
             D == Payloads(Source, h, P - 1, pid)
  <2>6. P = i /\ h \in Nat /\ h < i /\ P - 1 = Len(out)
    <3> HIDE DEF i
    <3>1. h \in 1 .. Len(out) /\ i = Len(out) + 1 /\ carried[0][i].pos = i
      BY <1>1, <1>5, <1>7, <1>8
    <3> QED  BY <1>8, <3>1
  <2>7. C >= n + 1
    <3> HIDE DEF i
    <3>1. h < carried[0][i].pos
      BY <2>6
    <3> QED  BY <1>1, <1>3, <1>4, <1>10, <2>5, <3>1, CounterReach
  <2>8. n \in Nat /\ n >= 1
    <3>1. n \in Nat
      BY <1>3, LenProperties
    <3> HIDE DEF n
    <3>2. k \in 1 .. n
      BY <1>2 DEF n
    <3> QED  BY <3>1, <3>2
  <2>9. Source[P].pid = pid /\ Source[P].payload
    BY <1>1, <1>10, PlaceOf DEF FillsCounter, Stream
  <2>10. P \in Int /\ h \in Int /\ h < P /\ P - 1 \in Int
    <3> HIDE DEF P, i
    <3> QED  BY <1>1, <2>6
  <2> HIDE DEF P, pid, i, rs, n
  <2>11. C = D + 1 /\ C \in Nat /\ D \in Nat
    <3>1. Payloads(Source, h, P, pid) = Payloads(Source, h, P - 1, pid) + 1
      BY ONLY <2>9, <2>10, LastCounted, Zenon
    <3>2. C \in Nat /\ D \in Nat
      BY <2>10, CountedFinite
    <3> QED  BY <3>1, <3>2
  <2>12. D # 0
    <3> HIDE DEF C, D
    <3> QED  BY <2>7, <2>8, <2>11
  <2>13. PICK z \in Counted(Source, h, P - 1, pid) : TRUE
    <3>1. Counted(Source, h, P - 1, pid) # {}
      BY <2>12, FS_EmptySet DEF Payloads
    <3> QED  BY <3>1
  <2>14. z \in h + 1 .. P - 1 /\ Source[z].pid = pid
    BY <2>13 DEF Counted
  <2>15. z \in DOMAIN out /\ ~(z <= h)
    BY <1>8, <2>6, <2>14
  <2>16. out[z].rec.pkt.pid = pid
    BY <2>14, <2>15, <2>e
  <2>17. Content(out[z])
    BY <1>4, <2>16 DEF Content, IsNull, pid
  <2> QED  BY <2>3, <2>15, <2>16, <2>17
<1> QED  BY <1>6, <1>9, <1>10

-----------------------------------------------------------------------------
(***************************************************************************)
(* A primary that has lost nothing: its n-th packet is the n-th of the     *)
(* broadcast, and the n-th entry of the output stands for it.              *)
(***************************************************************************)
\* As long as the primary has lost nothing and output has not left it.
Healthy == NeverFailedOver /\ upto[0] = Len(carried[0])

HealthyInv ==
  Healthy => \A k \in DOMAIN out : out[k].via \in {"primary", "tei"} /\ out[k].slot = k - 1

\* The output is then as long as what has left the queue.
LEMMA HealthyLength ==
  ASSUME EngineInv, EntriesKnown, OutputIsPast, AccountInv, NoOverflow, HealthyInv, Healthy,
         pc # "failed"
  PROVE  Len(out) = Front(0)
<1> DEFINE f == Front(0)
           n == Len(out)
<1>1. f \in Nat /\ n \in Nat /\ DOMAIN out = 1 .. n
  BY FrontType, LenProperties DEF EngineInv, TypeOK
<1>2. NeverFailedOver /\ \A k \in DOMAIN out : out[k].slot = k - 1
  BY DEF Healthy, HealthyInv
<1>3. \A k \in DOMAIN out : out[k].slot < f
  BY <1>2, PastEntry
<1>4. \A h \in 0 .. f - 1 : \E k \in DOMAIN out : out[k].slot = h
  BY <1>2, NothingLost
<1> HIDE DEF f, n
<1>5. n <= f
  <2>1. CASE n = 0
    BY <1>1, <2>1
  <2>2. CASE n # 0
    <3>1. n \in DOMAIN out
      BY <1>1, <2>2
    <3>2. out[n].slot = n - 1 /\ out[n].slot < f
      BY <1>2, <1>3, <3>1
    <3> QED  BY <1>1, <3>2
  <2> QED  BY <2>1, <2>2
<1>6. f <= n
  <2>1. CASE f = 0
    BY <1>1, <2>1
  <2>2. CASE f # 0
    <3>1. f - 1 \in 0 .. f - 1
      BY <1>1, <2>2
    <3>2. PICK k \in DOMAIN out : out[k].slot = f - 1
      BY <1>4, <3>1
    <3>3. out[k].slot = k - 1 /\ k \in 1 .. n
      BY <1>1, <1>2
    <3> QED  BY <1>1, <3>2, <3>3
  <2> QED  BY <2>1, <2>2
<1>7. n = f
  BY <1>1, <1>5, <1>6
<1> QED  BY <1>7 DEF n, f

\* An entry of a healthy output.
LEMMA HealthyEntry ==
  ASSUME DistinctContent, CountersRunOn, FeedInv, Placed, ShortBursts, EntriesKnown, HealthyInv,
         Healthy, EngineInv, NEW k \in DOMAIN out
  PROVE  /\ out[k].via \in {"primary", "tei"} /\ PosOf(out[k]) = k
         /\ out[k].rec.pkt.pid = Source[k].pid
<1>1. EntryKnown(carried, out[k]) /\ out[k].via \in {"primary", "tei"} /\ out[k].slot = k - 1
  BY DEF EntriesKnown, HealthyInv
<1>2. k \in Nat
  <2>1. DOMAIN out = 1 .. Len(out)
    BY LenProperties DEF EngineInv, TypeOK
  <2> QED  BY <2>1
<1>3. out[k].slot + 1 = k
  BY <1>1, <1>2
<1>4. /\ k \in 1 .. Len(carried[0]) /\ PosOf(out[k]) = carried[0][k].pos
      /\ out[k].rec.pkt.pid = Source[PosOf(out[k])].pid
  BY <1>1, <1>3, KnownPlace
<1>5. carried[0][k].pos = k
  BY <1>4, IndexIsPlace DEF Healthy, Stream
<1> QED  BY <1>1, <1>4, <1>5

\* Nothing is inserted.
LEMMA HealthyNoGap ==
  ASSUME DistinctContent, CountersRunOn, EngineInv, FeedInv, AlignInv, QueueArrived, Placed,
         ShortBursts, EntriesKnown, OutputIsPast, CounterIsLast, AccountInv, NoOverflow,
         HealthyInv, Healthy, pc = "primary", queue[0] # << >>, NEW k, Inserted(k)
  PROVE  FALSE
<1>1. Exact(out)
  BY HealthyEntry DEF Exact
<1>2. Len(out) = Front(0)
  <2>1. pc # "failed"
    OBVIOUS
  <2> QED  BY <2>1, HealthyLength
<1>3. upto[0] = Len(carried[0])
  BY DEF Healthy
<1> QED  BY <1>1, <1>2, <1>3, ExactNoGap

\* The primary was healthy before, if it is.
LEMMA HealthyBefore ==
  ASSUME EngineInv, FeedInv, Placed, PrimaryActive, [NetNext]_all_vars, Healthy'
  PROVE  /\ Healthy
         /\ out' = out \/ \E n \in Nat : Turn(n)
<1>1. /\ NeverFailedOver
      /\ \/ \E s \in Stream, pkt \in Packet : Arrival(s, pkt)
         \/ \E n \in Nat : Turn(n)
         \/ Quiet
  BY StayingSteps DEF Healthy
<1>2. /\ carried[0] \in Seq(Packet) /\ Len(carried[0]) \in Nat /\ upto[0] \in Nat
      /\ upto \in [Stream -> Nat] /\ carried \in [Stream -> Seq(Packet)]
  BY SourceType, LenProperties DEF FeedInv, Stream
<1>3. Len(carried[0]) <= upto[0] /\ upto'[0] = Len(carried'[0])
  BY DEF Healthy, Placed, InPlace, Stream
<1>4. ASSUME NEW s \in Stream, NEW pkt \in Packet, Arrival(s, pkt)
      PROVE  upto[0] = Len(carried[0]) /\ out' = out
  <2>1. /\ carried' = [carried EXCEPT ![s] = Append(@, pkt)]
        /\ upto' = [upto EXCEPT ![s] = @ + 1] /\ out' = out
    BY <1>4 DEF Arrival, Arrive, PushPacket
  <2>2. Len(Append(carried[0], pkt)) = Len(carried[0]) + 1
    BY <1>2, AppendProperties
  <2>3. CASE s = 0
    BY <1>2, <1>3, <2>1, <2>2, <2>3 DEF Stream
  <2>4. CASE s = 1
    BY <1>2, <1>3, <2>1, <2>4 DEF Stream
  <2> QED  BY <2>1, <2>3, <2>4 DEF Stream
<1>5. ASSUME NEW n \in Nat, Turn(n)
      PROVE  upto[0] = Len(carried[0])
  BY <1>3, <1>5 DEF Turn
<1>6. ASSUME Quiet
      PROVE  upto[0] = Len(carried[0]) /\ out' = out
  <2>1. carried' = carried /\ out' = out /\ upto[0] <= upto'[0]
    BY <1>6 DEF Quiet, Stream
  <2>2. upto'[0] = Len(carried[0])
    BY <1>3, <2>1
  <2> QED  BY <1>2, <1>3, <2>1, <2>2
<1> QED  BY <1>1, <1>4, <1>5, <1>6 DEF Healthy

LEMMA HealthyStep ==
  ASSUME DistinctContent, CountersRunOn, EngineInv, FeedInv, AlignInv, QueueArrived, Placed,
         ShortBursts, EntriesKnown, OutputIsPast, CounterIsLast, PrimaryActive, AccountInv,
         NoOverflow, HealthyInv, [NetNext]_all_vars
  PROVE  HealthyInv'
<1> SUFFICES ASSUME Healthy'
             PROVE  \A k \in DOMAIN out' : out'[k].via \in {"primary", "tei"} /\ out'[k].slot = k - 1
  BY DEF HealthyInv
<1>1. Healthy /\ (out' = out \/ \E n \in Nat : Turn(n))
  BY HealthyBefore
<1>2. \A k \in DOMAIN out : out[k].via \in {"primary", "tei"} /\ out[k].slot = k - 1
  BY <1>1 DEF HealthyInv
<1>3. CASE out' = out
  BY <1>2, <1>3
<1>4. ASSUME NEW n \in Nat, Turn(n), NEW k \in DOMAIN out'
      PROVE  out'[k].via \in {"primary", "tei"} /\ out'[k].slot = k - 1
  <2> DEFINE new == TurnEntries(n)
             x == out'
             b == Len(out)
             m == k - b
  <2>1. /\ queue[0] # << >> /\ n \in 0 .. Len(TurnSent) /\ x = out \o new /\ pc = "primary"
        /\ pc # "failed"
    BY <1>4 DEF Turn
  <2>2. new \in Seq(Output) /\ DOMAIN new = 1 .. n
    BY <2>1, TurnEntriesType
  <2>3. out \in Seq(Output) /\ b \in Nat /\ Len(TurnSent) \in Nat
    BY <2>1, FrontDecision, LenProperties DEF EngineInv, TypeOK, TurnPacket, TurnDecision, TurnSent
  <2>4. b = TurnPacket.idx
    BY <1>1, <2>1, HealthyLength, FrontPlace
  <2>5. \A j \in 1 .. n :
          j = Len(TurnSent) /\ new[j].via \in {"primary", "tei"} /\ new[j].slot = b
    <3> TAKE j \in 1 .. n
    <3>1. ~Inserted(j)
      BY <1>1, <2>1, HealthyNoGap
    <3> QED  BY <2>1, <2>4, <3>1, TurnPlaces
  <2>k. k \in DOMAIN x
    OBVIOUS
  <2> HIDE DEF new, x, b
  <2>6. \/ k \in DOMAIN out /\ x[k] = out[k]
        \/ m \in DOMAIN new /\ x[k] = new[m] /\ k > b
    BY <2>1, <2>2, <2>3, <2>k, EntryOf DEF b
  <2>7. CASE k \in DOMAIN out /\ x[k] = out[k]
    <3>1. x[k].via \in {"primary", "tei"} /\ x[k].slot = k - 1
      BY <1>2, <2>7
    <3> QED  BY <3>1 DEF x
  <2>8. CASE m \in DOMAIN new /\ x[k] = new[m] /\ k > b
    <3>1. m \in 1 .. n
      BY <2>2, <2>8
    <3>2. 1 \in 1 .. n
      BY <3>1
    <3>3. 1 = Len(TurnSent) /\ m = Len(TurnSent)
      BY <2>5, <3>1, <3>2
    <3>4. x[k].via \in {"primary", "tei"} /\ x[k].slot = b
      BY <2>5, <2>8, <3>1
    <3>5. k \in Int
      <4>1. x \in Seq(Output)
        BY <2>1, <2>2, <2>3, EntryStays
      <4>2. DOMAIN x = 1 .. Len(x)
        BY <4>1, LenProperties
      <4> QED  BY <2>k, <4>2
    <3>6. b = k - 1
      BY <2>3, <3>3, <3>5
    <3> QED  BY <3>4, <3>6 DEF x
  <2> QED  BY <2>6, <2>7, <2>8
<1> QED  BY <1>1, <1>3, <1>4

(***************************************************************************)
(* HealthyPrimaryPassesThrough, whatever the secondary loses or damages,   *)
(* but not a whole turn of the counter next to a packet that the primary   *)
(* delivered damaged: as long as the primary loses nothing,                *)
(* recovery_engine_drain sends its packets one by one, each as it is or,   *)
(* where it is damaged, as its copy.  A full queue is excluded, and a      *)
(* drain that discards: the copy moves last_output_stream_index[1], and a  *)
(* packet still queued may then look as if it had been output.             *)
(***************************************************************************)
THEOREM HealthyPrimaryIsPassedOn ==
  ASSUME DistinctContent, CountersRunOn
  PROVE  NetSpec /\ []ShortBursts /\ []NoneDiscarded /\ []NoOverflow
           => []HealthyPrimaryPassesThrough
<1>1. NetInit => HealthyInv
  BY EmptySeq DEF NetInit, Init, HealthyInv
<1>2. EngineInv /\ FeedInv /\ AlignInv /\ QueueArrived /\ Placed /\ ShortBursts /\ EntriesKnown
        /\ OutputIsPast /\ CounterIsLast /\ PrimaryActive /\ AccountInv /\ NoOverflow
        /\ HealthyInv /\ [NetNext]_all_vars
        => HealthyInv'
  BY HealthyStep
<1>3. NetSpec => []EngineInv
  BY FeedsImplementEngine, EngineInvariant, PTL
<1>4. FeedInv /\ Placed /\ ShortBursts /\ EntriesKnown /\ EngineInv /\ HealthyInv
        => HealthyPrimaryPassesThrough
  BY HealthyEntry DEF HealthyPrimaryPassesThrough, Healthy
<1> QED  BY <1>1, <1>2, <1>3, <1>4, AccountInvariant, FeedInvariant, AlignInvariant, PlacedInvariant,
            EntriesKnownInvariant, PastInvariant, PrimaryActiveInvariant, PTL DEF NetSpec

-----------------------------------------------------------------------------
(***************************************************************************)
(* A primary that has damaged nothing either.                              *)
(***************************************************************************)
\* No packet of the primary came damaged.
Undamaged == \A i \in 1 .. Len(carried[0]) : ~carried[0][i].tei

\* Nothing was sent from the secondary, so that no drain discards.
SecondaryUnused == last_output[1] = NoOutput

SoundInv == Healthy /\ Undamaged /\ NoOverflow => AccountInv /\ HealthyInv /\ SecondaryUnused

\* No damaged packet, no copy of one.
LEMMA UndamagedBursts ==
  ASSUME FeedInv, Undamaged
  PROVE  ShortBursts
<1>1. Len(carried[0]) \in Nat
  BY LenProperties DEF FeedInv, Stream
<1>2. \A i \in 1 .. Len(carried[0]) - 1 : i \in 1 .. Len(carried[0])
  BY <1>1
<1> QED  BY <1>2 DEF Undamaged, ShortBursts

\* A queue of which nothing is dropped.
LEMMA UnusedKeepsAll ==
  ASSUME EngineInv, last_output[1] = NoOutput
  PROVE  KeptPrimary = queue[0]
<1> DEFINE q == queue[0]
           kept == {k \in DOMAIN q : ~primary_record_already_output_by_secondary(q[k])}
<1>1. q \in Seq(Record) /\ Len(q) \in Nat /\ DOMAIN q = 1 .. Len(q)
  BY LenProperties DEF EngineInv, TypeOK, Stream
<1>2. kept = DOMAIN q
  BY DEF primary_record_already_output_by_secondary
<1>3. KeptPrimary = IF kept = {} THEN << >> ELSE SubSeq(q, Min(kept), Len(q))
  BY DEF KeptPrimary, DropWhile
<1>4. CASE kept = {}
  <2>1. Len(q) = 0
    BY <1>1, <1>2, <1>4
  <2>2. q = << >>
    BY <1>1, <2>1, EmptySeq
  <2> QED  BY <1>3, <1>4, <2>2
<1>5. CASE kept # {}
  <2> HIDE DEF q, kept
  <2>1. kept = 1 .. Len(q) /\ Len(q) >= 1
    BY <1>1, <1>2, <1>5
  <2>2. Min(kept) \in kept /\ \A y \in kept : Min(kept) <= y
    <3>1. kept \in SUBSET Nat
      BY <2>1
    <3> QED  BY <1>5, <3>1, MinOfNaturals
  <2>3. 1 \in kept /\ Min(kept) \in Nat
    BY <1>1, <2>1, <2>2
  <2>4. Min(kept) = 1
    BY <1>1, <2>1, <2>2, <2>3
  <2>5. SubSeq(q, 1, Len(q)) = q
    BY <1>1, SubSeqFull
  <2> QED  BY <1>3, <1>5, <2>4, <2>5 DEF q
<1> QED  BY <1>4, <1>5

\* What was so before a step that keeps the primary healthy.
LEMMA SoundBefore ==
  ASSUME EngineInv, FeedInv, Placed, PrimaryActive, [NetNext]_all_vars,
         Healthy', Undamaged', NoOverflow'
  PROVE  Healthy /\ Undamaged /\ NoOverflow
<1>1. /\ \/ \E s \in Stream, pkt \in Packet : Arrival(s, pkt)
         \/ \E n \in Nat : Turn(n)
         \/ Quiet
  BY StayingSteps DEF Healthy
<1>2. Healthy
  BY HealthyBefore
<1>3. stats["primary_delay_overflows"] \in Nat
  BY DEF EngineInv, TypeOK, Stats, Counter
<1>4. ASSUME NEW s \in Stream, NEW pkt \in Packet, Arrival(s, pkt)
      PROVE  Undamaged /\ NoOverflow
  <2>1. PICK n \in {0, 1} : stats'["primary_delay_overflows"] = stats["primary_delay_overflows"] + n
    BY <1>4, PushCounts DEF Arrival, Arrive
  <2>2. NoOverflow
    BY <1>3, <2>1 DEF NoOverflow
  <2>3. \A i \in 1 .. Len(carried[0]) : i \in 1 .. Len(carried'[0]) /\ carried'[0][i] = carried[0][i]
    BY <1>4, ArrivalExtends DEF Stream
  <2> QED  BY <2>2, <2>3 DEF Undamaged
<1>5. ASSUME NEW n \in Nat, Turn(n)
      PROVE  Undamaged /\ NoOverflow
  BY <1>5 DEF Turn, Undamaged, NoOverflow
<1>6. ASSUME Quiet
      PROVE  Undamaged /\ NoOverflow
  <2>1. "primary_delay_overflows" \in Counter \ {"source_switches_0"}
    BY DEF Counter
  <2> QED  BY <1>6, <2>1 DEF Quiet, Undamaged, NoOverflow
<1> QED  BY <1>1, <1>2, <1>4, <1>5, <1>6

\* A turn for an undamaged packet of a healthy primary sends that packet alone.
LEMMA SoundTurn ==
  ASSUME DistinctContent, CountersRunOn, EngineInv, FeedInv, AlignInv, QueueArrived, Placed,
         EntriesKnown, OutputIsPast, CounterIsLast, AccountInv, NoOverflow, HealthyInv,
         Healthy, Undamaged, last_output[1] = NoOutput, PrimaryStep
  PROVE  last_output'[1] = NoOutput
<1>1. pc = "primary" /\ queue[0] # << >> /\ last_output' = last_output_after(TurnSent)
  BY DEF PrimaryStep, OutputRecords, TurnSent, TurnDecision, TurnPacket
<1>2. /\ TurnPacket \in Record /\ TurnPacket.src = 0 /\ ~TurnPacket.pkt.tei
  BY <1>1, FrontPlace DEF Undamaged
<1>3. TurnSent \in Seq(Record)
  BY <1>1, FrontDecision DEF TurnSent, TurnDecision, TurnPacket
<1>4. DOMAIN TurnSent = 1 .. Len(TurnSent)
  BY <1>3, LenProperties
<1>5. ASSUME NEW j \in DOMAIN TurnSent
      PROVE  TurnSent[j].src = 0
  <2>1. ~Inserted(j)
    BY <1>1, HealthyNoGap, UndamagedBursts
  <2>2. ~Replaced(TurnDecision, TurnPacket)
    BY <1>2 DEF Replaced
  <2>3. TurnSent[j] = TurnPacket
    BY <1>1, <1>4, <2>1, <2>2, TurnCases
  <2> QED  BY <1>2, <2>3
<1>6. {j \in DOMAIN TurnSent : TurnSent[j].src = 1} = {}
  BY <1>5
<1> QED  BY <1>1, <1>6 DEF last_output_after, Stream

LEMMA SoundStep ==
  ASSUME DistinctContent, CountersRunOn, EngineInv, FeedInv, AlignInv, QueueArrived, Placed,
         EntriesKnown, OutputIsPast, CounterIsLast, PrimaryActive, SoundInv, [NetNext]_all_vars
  PROVE  SoundInv'
<1> SUFFICES ASSUME Healthy', Undamaged', NoOverflow'
             PROVE  AccountInv' /\ HealthyInv' /\ SecondaryUnused'
  BY DEF SoundInv
<1>1. Healthy /\ Undamaged /\ NoOverflow /\ ShortBursts
  BY SoundBefore, UndamagedBursts
<1>2. AccountInv /\ HealthyInv /\ SecondaryUnused
  BY <1>1 DEF SoundInv
<1>3. NoneDiscarded
  BY <1>2, UnusedKeepsAll DEF NoneDiscarded, SecondaryUnused
<1>4. AccountInv'
  BY <1>2, <1>3, AccountStep
<1>5. HealthyInv'
  BY <1>1, <1>2, HealthyStep
<1>6. SecondaryUnused'
  <2>1. ~SecondaryStep
    <3> SUFFICES ASSUME SecondaryStep PROVE FALSE
      OBVIOUS
    <3>1. NeverFailedOver /\ active' = 0
      BY StayingSteps DEF Healthy
    <3> QED  BY <3>1 DEF SecondaryStep
  <2>5. CASE PrimaryStep
    BY <1>1, <1>2, <2>5, SoundTurn DEF SecondaryUnused
  <2>6. CASE ~PrimaryStep
    <3>1. last_output' = last_output
      BY <2>1, <2>6
         DEF NetNext, Deliver, Damage, Arrive, PushPacket, Lose, Drain, MainLoopDrain, Step,
             EngineStep, DrainNotReady, DrainNothing, DrainPrimary, PrimaryNotDue, PrimaryEmpty,
             SecondaryDone, SinkFails, Clock, Tick, Stop, Flush, Failure, Ended, vars, engine_vars, all_vars
    <3> QED  BY <1>2, <3>1 DEF SecondaryUnused
  <2> QED  BY <2>5, <2>6
<1> QED  BY <1>4, <1>5, <1>6

(***************************************************************************)
(* HealthyPrimaryPassesThrough once more, for a primary that loses nothing *)
(* and damages nothing: then nothing is inserted and nothing replaced, no  *)
(* packet of the secondary is ever sent, and                               *)
(* discard_primary_records_already_output_by_secondary finds nothing to    *)
(* discard.  The secondary may lose and damage what it likes and the       *)
(* offset may be anything; only a full delay queue is excluded, and only   *)
(* up to the state that is looked at.                                      *)
(***************************************************************************)
THEOREM UndamagedPrimaryIsPassedOn ==
  ASSUME DistinctContent, CountersRunOn
  PROVE  NetSpec => [](Undamaged /\ NoOverflow => HealthyPrimaryPassesThrough)
<1>1. NetInit => SoundInv
  <2>1. NetInit => HealthyInv /\ SecondaryUnused
    BY EmptySeq DEF NetInit, Init, HealthyInv, SecondaryUnused, Stream
  <2> QED  BY <2>1, AccountInit DEF SoundInv
<1>2. EngineInv /\ FeedInv /\ AlignInv /\ QueueArrived /\ Placed /\ EntriesKnown
        /\ OutputIsPast /\ CounterIsLast /\ PrimaryActive /\ SoundInv /\ [NetNext]_all_vars
        => SoundInv'
  BY SoundStep
<1>3. NetSpec => []EngineInv
  BY FeedsImplementEngine, EngineInvariant, PTL
<1>4. FeedInv /\ Placed /\ EntriesKnown /\ EngineInv /\ SoundInv
        => (Undamaged /\ NoOverflow => HealthyPrimaryPassesThrough)
  BY HealthyEntry, UndamagedBursts DEF HealthyPrimaryPassesThrough, Healthy, SoundInv
<1> QED  BY <1>1, <1>2, <1>3, <1>4, FeedInvariant, AlignInvariant, PlacedInvariant,
            EntriesKnownInvariant, PastInvariant, PrimaryActiveInvariant, PTL DEF NetSpec

-----------------------------------------------------------------------------
(***************************************************************************)
(* Switching between two complete feeds.                                   *)
(***************************************************************************)
\* Neither feed has lost a packet.
Complete == \A s \in Stream : upto[s] = Len(carried[s])

\* A full queue pushes out only what was output, from the one feed or the other.
PushedOutIsOutput ==
  \A s \in Stream :
    Exact(out) /\ next_index'[s] # next_index[s] /\ Len(queue[s]) >= Capacity
    => Front(s) < Len(out)

\* So the feeds are aligned at the offset 0, if they are aligned.
LEMMA NoOffset ==
  ASSUME EngineInv, FeedInv, Placed, Complete, AlignmentIsReal, align.has
  PROVE  align.offset = 0
<1> DEFINE n == align.offset
<1>1. PICK i \in DOMAIN carried[0] :
        /\ i + n \in DOMAIN carried[1]
        /\ carried[0][i].pos = carried[1][i + n].pos
  BY DEF AlignmentIsReal
<1>2. /\ DOMAIN carried[0] = 1 .. Len(carried[0]) /\ DOMAIN carried[1] = 1 .. Len(carried[1])
      /\ n \in Int
  BY LenProperties DEF FeedInv, Stream, EngineInv, TypeOK, Alignment
<1> DEFINE j == i + n
<1>3. /\ upto[0] = Len(carried[0]) /\ upto[1] = Len(carried[1])
      /\ i \in 1 .. Len(carried[0]) /\ j \in 1 .. Len(carried[1])
      /\ carried[0][i].pos = carried[1][j].pos
  BY <1>1, <1>2 DEF Complete, Stream
<1>4. j = i + n /\ i \in Int
  BY <1>3
<1> HIDE DEF j, n
<1>5. carried[0][i].pos = i /\ carried[1][j].pos = j
  BY <1>3, IndexIsPlace DEF Stream
<1>6. n = 0
  BY <1>2, <1>3, <1>4, <1>5
<1> QED  BY <1>6 DEF n

-----------------------------------------------------------------------------
\* The last pair of equal packets, as long as there is one.
AnchorKnown ==
  anchor.valid =>
    /\ anchor.p + 1 \in 1 .. Len(carried[0]) /\ anchor.s + 1 \in 1 .. Len(carried[1])
    /\ Twins(carried[0][anchor.p + 1], carried[1][anchor.s + 1])

LEMMA AnchorOfTurn ==
  ASSUME EngineInv, FeedInv, AlignInv, QueueArrived, queue[0] # << >>, AnchorKnown
  PROVE  LET a == update_primary_anchor(View, TurnPacket)
         IN  \/ a = anchor
             \/ /\ a.p = TurnPacket.idx
                /\ a.p + 1 \in 1 .. Len(carried[0]) /\ a.s + 1 \in 1 .. Len(carried[1])
                /\ Twins(carried[0][a.p + 1], carried[1][a.s + 1])
<1> DEFINE p == TurnPacket
           ms == AnchorMatch(View, p)
           s == CHOOSE r \in ms : TRUE
           a == update_primary_anchor(View, p)
<1>1. /\ p.idx + 1 \in 1 .. Len(carried[0]) /\ p.pkt = carried[0][p.idx + 1]
  BY FrontPlace
<1>2. View.h = history /\ View.anchor = anchor
  BY DEF View
<1>3. ms \subseteq {history[1][k] : k \in DOMAIN history[1]}
  <2>1. find_secondary_boundary_matches(View, p) \subseteq {View.h[1][k] : k \in DOMAIN View.h[1]}
    BY DEF find_secondary_boundary_matches
  <2>2. find_aligned_secondary_record(View, p) \subseteq {View.h[1][k] : k \in DOMAIN View.h[1]}
    BY DEF find_aligned_secondary_record, packet_history_find_index
  <2> QED  BY <1>2, <2>1, <2>2 DEF AnchorMatch
<1>4. CASE ms # {} /\ records_are_non_null_exact_anchor(p, s)
  <2>1. s \in ms
    BY <1>4
  <2>2. a = [valid |-> TRUE, p |-> p.idx, s |-> s.idx]
    BY <1>4 DEF update_primary_anchor
  <2> HIDE DEF s, ms, p
  <2>3. /\ s.idx + 1 \in 1 .. Len(carried[1]) /\ s.pkt = carried[1][s.idx + 1]
    BY <1>3, <2>1, HistoryPlace DEF Stream
  <2>4. Twins(p.pkt, s.pkt)
    BY <1>4, TwinRecords
  <2> HIDE DEF a
  <2>5. a.p = p.idx /\ a.s = s.idx
    BY <2>2
  <2> QED  BY <1>1, <2>3, <2>4, <2>5 DEF a, p
<1>5. CASE ~(ms # {} /\ records_are_non_null_exact_anchor(p, s))
  BY <1>2, <1>5 DEF update_primary_anchor
<1> QED  BY <1>4, <1>5

LEMMA AnchorKnownStep ==
  ASSUME EngineInv, FeedInv, AlignInv, QueueArrived, AnchorKnown, [NetNext]_all_vars
  PROVE  AnchorKnown'
<1>1. ASSUME NEW s \in Stream, NEW pkt \in Packet, Arrival(s, pkt)
      PROVE  AnchorKnown'
  <2>1. anchor' = anchor
    BY <1>1 DEF Arrival, Arrive, PushPacket
  <2>2. \A t \in Stream : \A i \in 1 .. Len(carried[t]) :
          i \in 1 .. Len(carried'[t]) /\ carried'[t][i] = carried[t][i]
    BY <1>1, ArrivalExtends
  <2>3. /\ \A i \in 1 .. Len(carried[0]) : i \in 1 .. Len(carried'[0]) /\ carried'[0][i] = carried[0][i]
        /\ \A i \in 1 .. Len(carried[1]) : i \in 1 .. Len(carried'[1]) /\ carried'[1][i] = carried[1][i]
    BY <2>2 DEF Stream
  <2> QED  BY <2>1, <2>3 DEF AnchorKnown
<1>2. CASE anchor' = anchor /\ carried' = carried
  BY <1>2 DEF AnchorKnown
<1>3. CASE PrimaryStep /\ UNCHANGED net_vars
  <2> DEFINE a == update_primary_anchor(View, TurnPacket)
  <2>1. /\ queue[0] # << >> /\ carried' = carried
        /\ anchor' = anchor \/ anchor' = a
    BY <1>3 DEF PrimaryStep, net_vars, TurnPacket
  <2>2. \/ a = anchor
        \/ /\ a.p + 1 \in 1 .. Len(carried[0]) /\ a.s + 1 \in 1 .. Len(carried[1])
           /\ Twins(carried[0][a.p + 1], carried[1][a.s + 1])
    BY <2>1, AnchorOfTurn
  <2> HIDE DEF a
  <2>3. CASE anchor' = anchor
    BY <1>2, <2>1, <2>3
  <2>4. CASE anchor' # anchor
    BY <2>1, <2>2, <2>4 DEF AnchorKnown
  <2> QED  BY <2>3, <2>4
<1>4. CASE (SecondaryStep \/ SinkFails) /\ UNCHANGED net_vars
  BY <1>2, <1>4 DEF SecondaryStep, SinkFails, net_vars
<1>5. ASSUME NEW s \in Stream, Deliver(s) \/ Damage(s)
      PROVE  \E pkt \in Packet : Arrival(s, pkt)
  <2>1. upto[s] < Len(Source) /\ Source[upto[s] + 1] \in Packet
    BY <1>5, SourceType DEF Deliver, Damage
  <2>2. [Source[upto[s] + 1] EXCEPT !.tei = TRUE] \in Packet
    BY <2>1 DEF Packet
  <2> QED  BY <1>5, <2>1, <2>2 DEF Deliver, Damage, Arrival
<1>6. CASE (\E s \in Stream : Lose(s)) \/ Drain \/ Clock \/ Stop \/ Ended \/ UNCHANGED all_vars
  BY <1>2, <1>6 DEF Lose, Drain, MainLoopDrain, Clock, Tick, Stop, Flush, Ended, net_vars, all_vars,
                    vars, engine_vars
<1>7. CASE Step /\ ~PrimaryStep /\ ~SecondaryStep
  BY <1>2, <1>7 DEF Step, EngineStep, DrainNotReady, DrainNothing, DrainPrimary, PrimaryNotDue,
                    PrimaryEmpty, SecondaryDone, net_vars
<1> QED  BY <1>1, <1>3, <1>4, <1>5, <1>6, <1>7 DEF NetNext, Step, Failure

LEMMA AnchorKnownInvariant == NetSpec => []AnchorKnown
<1>1. NetInit => AnchorKnown
  BY DEF NetInit, Init, AnchorKnown
<1>2. EngineInv /\ FeedInv /\ AlignInv /\ QueueArrived /\ AnchorKnown /\ [NetNext]_all_vars
        => AnchorKnown'
  BY AnchorKnownStep
<1>3. NetSpec => []EngineInv
  BY FeedsImplementEngine, EngineInvariant, PTL
<1> QED  BY <1>1, <1>2, <1>3, FeedInvariant, AlignInvariant, PlacedInvariant, PTL DEF NetSpec

\* With complete feeds the two packets of the anchor have one index.
LEMMA AnchorIndex ==
  ASSUME DistinctContent, EngineInv, FeedInv, Placed, Complete, AnchorKnown, anchor.valid
  PROVE  anchor.p = anchor.s /\ anchor.p \in Nat /\ anchor.s \in Nat
<1> DEFINE a == anchor.p + 1
           b == anchor.s + 1
<1>1. anchor.p \in Nat /\ anchor.s \in Nat
  BY DEF EngineInv, TypeOK, Anchor
<1>2. /\ a \in 1 .. Len(carried[0]) /\ b \in 1 .. Len(carried[1])
      /\ Twins(carried[0][a], carried[1][b])
  BY DEF AnchorKnown
<1>3. a = b => anchor.p = anchor.s
  BY <1>1
<1> HIDE DEF a, b
<1>4. carried[0][a].pos = carried[1][b].pos
  BY <1>2, TwinPlace DEF Stream
<1>5. carried[0][a].pos = a /\ carried[1][b].pos = b
  BY <1>2, IndexIsPlace DEF Complete, Stream
<1> QED  BY <1>1, <1>3, <1>4, <1>5
-----------------------------------------------------------------------------
\* recovery_engine_push_packet moves the front of a queue only by pushing out.
LEMMA FrontsOfPush ==
  ASSUME EngineInv, NEW s \in Stream, NEW pkt \in Packet, PushPacket(s, pkt), NEW t \in Stream
  PROVE  \/ Front(t)' = Front(t)
         \/ /\ Front(t)' = Front(t) + 1
            /\ next_index'[t] # next_index[t] /\ Len(queue[t]) >= Capacity
<1> DEFINE r == [pkt |-> pkt, src |-> s, idx |-> next_index[s], at |-> now]
           q == queue[t]
           n == next_index[t]
<1>1. /\ next_index' = [next_index EXCEPT ![s] = @ + 1]
      /\ queue' = [queue EXCEPT ![s] = QueuePush(@, r)]
  BY DEF PushPacket
<1>2. /\ queue \in [Stream -> Seq(Record)] /\ next_index \in [Stream -> Nat]
      /\ q \in Seq(Record) /\ RowOf(q, n) /\ n \in Nat /\ Len(q) \in Nat
      /\ Capacity \in Nat \ {0} /\ r \in Record
  BY LenProperties, BufferAssumption DEF EngineInv, TypeOK, Rows, Record
<1>3. CASE t # s
  <2>1. queue'[t] = queue[t] /\ next_index'[t] = next_index[t]
    BY <1>1, <1>2, <1>3
  <2> QED  BY <2>1 DEF Front
<1>4. CASE t = s
  <2>1. queue'[t] = QueuePush(q, r) /\ next_index'[t] = n + 1
    BY <1>1, <1>2, <1>4
  <2>2. Front(t)' = (n + 1) - Len(QueuePush(q, r)) /\ Front(t) = n - Len(q)
    BY <2>1 DEF Front
  <2> HIDE DEF r
  <2>3. CASE Len(q) < Capacity
    <3>1. Len(QueuePush(q, r)) = Len(q) + 1
      BY <1>2, <2>3, AppendProperties DEF QueuePush
    <3> HIDE DEF q, n
    <3> QED  BY <1>2, <2>2, <3>1
  <2>4. CASE ~(Len(q) < Capacity)
    <3>1. q # << >>
      BY <1>2, <2>4, EmptySeq
    <3>2. delay_queue_pop(q) \in Seq(Record) /\ Len(delay_queue_pop(q)) = Len(q) - 1
      BY <1>2, <3>1, PoppedRow DEF RowOf
    <3>3. Len(QueuePush(q, r)) = (Len(q) - 1) + 1
      BY <1>2, <2>4, <3>2, AppendProperties DEF QueuePush
    <3>4. next_index'[t] # next_index[t] /\ Len(queue[t]) >= Capacity
      BY <1>2, <2>1, <2>4
    <3> HIDE DEF q, n
    <3>5. Front(t)' = Front(t) + 1
      BY <1>2, <2>2, <3>3
    <3> QED  BY <3>4, <3>5
  <2> QED  BY <2>3, <2>4
<1> QED  BY <1>3, <1>4

\* What is left of a row from its first record on that is to be kept: all that was
\* dropped stood in front of the index b.
LEMMA FrontOfRest ==
  ASSUME NEW n \in Nat, NEW q, RowOf(q, n), NEW kept \in SUBSET DOMAIN q, NEW b \in Int,
         n - Len(q) <= b, \A k \in DOMAIN q \ kept : q[k].idx < b
  PROVE  LET r == IF kept = {} THEN << >> ELSE SubSeq(q, Min(kept), Len(q))
         IN  /\ n - Len(q) <= n - Len(r) /\ n - Len(r) <= b
             /\ r # << >> => \E k \in kept : q[k].idx = n - Len(r)
<1> DEFINE l == Len(q)
           d == n - l
<1>1. q \in Seq(Record) /\ l \in Nat /\ DOMAIN q = 1 .. l
  BY LenProperties DEF RowOf
<1>2. \A k \in 1 .. l : q[k].idx = (d + k) - 1
  <2>1. \A k \in DOMAIN q : q[k].idx = n - l + k - 1
    BY DEF RowOf, Row
  <2> HIDE DEF l
  <2> QED  BY <1>1, <2>1
<1>b. d <= b
  OBVIOUS
<1>3. CASE kept = {}
  <2>1. Len(<< >>) = 0
    OBVIOUS
  <2>2. n <= b
    <3>1. CASE l = 0
      <4> HIDE DEF l
      <4> QED  BY <1>b, <3>1
    <3>2. CASE l # 0
      <4>1. l \in DOMAIN q \ kept
        BY <1>1, <1>3, <3>2
      <4>2. q[l].idx < b
        BY <4>1
      <4>3. q[l].idx = (d + l) - 1
        BY <1>1, <1>2, <4>1
      <4> HIDE DEF l
      <4> QED  BY <1>1, <4>2, <4>3
    <3> QED  BY <3>1, <3>2
  <2>3. n - l <= n - 0 /\ n - 0 <= b
    <3> HIDE DEF l
    <3> QED  BY <1>1, <2>2
  <2> QED  BY <1>3, <2>1, <2>3
<1>4. CASE kept # {}
  <2> DEFINE m == Min(kept)
             r == SubSeq(q, m, l)
  <2>1. kept \in SUBSET Nat /\ \A k \in kept : k \in 1 .. l
    BY <1>1
  <2>2. m \in kept /\ \A k \in kept : m <= k
    BY <1>4, <2>1, MinOfNaturals
  <2>3. m \in 1 .. l
    BY <2>1, <2>2
  <2>4. Len(r) = l - m + 1
    <3> HIDE DEF m, l
    <3> QED  BY <1>1, <2>3, SubSeqProperties DEF l
  <2>5. q[m].idx = (d + m) - 1
    BY <1>2, <2>3
  <2> HIDE DEF m
  <2>6. (d + m) - 1 <= b
    <3>1. CASE m = 1
      <4> HIDE DEF d
      <4>1. d \in Int
        BY <1>1 DEF d
      <4> QED  BY <1>b, <3>1, <4>1
    <3>2. CASE m # 1
      <4> DEFINE j == m - 1
      <4>1. j \in 1 .. l /\ ~(m <= j)
        BY <1>1, <2>3, <3>2
      <4>2. j \in DOMAIN q \ kept
        BY <1>1, <2>2, <4>1
      <4> HIDE DEF j
      <4>3. q[j].idx < b /\ q[j].idx = (d + j) - 1
        BY <1>2, <4>1, <4>2
      <4>4. d \in Int
        BY <1>1
      <4> HIDE DEF d
      <4> QED  BY <2>3, <4>3, <4>4 DEF j
    <3> QED  BY <3>1, <3>2
  <2>7. n - Len(r) = (d + m) - 1 /\ n - l <= n - Len(r)
    <3> HIDE DEF r, l
    <3> QED  BY <1>1, <2>3, <2>4
  <2>8. /\ n - l <= n - Len(r) /\ n - Len(r) <= b
        /\ r # << >> => \E k \in kept : q[k].idx = n - Len(r)
    <3>1. q[m].idx = n - Len(r)
      BY <2>5, <2>7
    <3> HIDE DEF r, l, d
    <3> QED  BY <2>2, <2>6, <2>7, <3>1
  <2> QED  BY <1>4, <2>8 DEF m
<1> QED  BY <1>3, <1>4

-----------------------------------------------------------------------------
(***************************************************************************)
(* Where an exact output stands, in terms of the two queues: no queue has  *)
(* given up a packet that was not output, from the one feed or the other   *)
(* (Front), the last packet output of one feed is the last of all, and a   *)
(* loop that drains an aligned feed finds nothing in its queue that was    *)
(* output already.                                                         *)
(***************************************************************************)
AllBehind == \A s \in Stream : last_output[s] < Front(s) /\ Front(s) <= Len(out)

LastIsKnown == out = << >> \/ \E s \in Stream : last_output[s] = Len(out) - 1

AnchorIsBehind == anchor.valid => anchor.p < Len(out)

LoopIsAhead ==
  /\ pc = "primary" /\ align.has /\ queue[0] # << >> => last_output[1] < Front(0)
  /\ pc = "secondary" /\ align.has /\ queue[1] # << >> => last_output[0] < Front(1)

SeamInv ==
  Exact(out) /\ pc # "failed" => AllBehind /\ LastIsKnown /\ AnchorIsBehind /\ LoopIsAhead

LEMMA SeamTypes ==
  ASSUME EngineInv, NEW s \in Stream
  PROVE  /\ last_output[s] \in Int /\ Front(s) \in Int /\ Len(out) \in Nat
         /\ RowOf(queue[s], next_index[s]) /\ next_index[s] \in Nat /\ Len(queue[s]) \in Nat
<1>1. /\ queue[s] \in Seq(Record) /\ out \in Seq(Output) /\ next_index[s] \in Nat
      /\ last_output[s] \in Nat \cup {NoOutput} /\ RowOf(queue[s], next_index[s])
  BY DEF EngineInv, TypeOK, Rows
<1>2. Len(queue[s]) \in Nat /\ Len(out) \in Nat
  BY <1>1, LenProperties
<1> QED  BY <1>1, <1>2 DEF Front, NoOutput

\* What a return leaves of the primary queue.
LEMMA SeamOfReturn ==
  ASSUME EngineInv, AllBehind, align.has => align.offset = 0
  PROVE  LET f == next_index[0] - Len(KeptPrimary)
         IN  /\ Front(0) <= f /\ f <= Len(out)
             /\ KeptPrimary # << >> /\ align.has => last_output[1] < f
<1> DEFINE q == queue[0]
           n == next_index[0]
           b == Len(out)
           last == last_output[1]
           kept == {j \in DOMAIN q : ~primary_record_already_output_by_secondary(q[j])}
           r == IF kept = {} THEN << >> ELSE SubSeq(q, Min(kept), Len(q))
<1>1. /\ RowOf(q, n) /\ n \in Nat /\ b \in Nat /\ n - Len(q) = Front(0) /\ n - Len(q) <= b
  BY SeamTypes DEF AllBehind, Stream, Front
<1>2. last \in Int /\ last < b /\ last_output[1] = last
  <2>1. last_output[1] < Front(1) /\ Front(1) <= Len(out)
    BY DEF AllBehind, Stream
  <2>2. last_output[1] \in Int /\ Front(1) \in Int
    BY SeamTypes DEF Stream
  <2> DEFINE f == Front(1)
  <2> HIDE DEF f
  <2>3. last < f /\ f <= b /\ f \in Int
    BY <2>1, <2>2 DEF f
  <2> QED  BY <1>1, <2>2, <2>3
<1>3. r = KeptPrimary
  BY DEF KeptPrimary, DropWhile
<1>4. ASSUME NEW k \in DOMAIN q
      PROVE  /\ q[k].idx \in Nat
             /\ k \notin kept => q[k].idx <= last
             /\ k \in kept /\ align.has => last < q[k].idx
  <2>1. q[k] \in Record
    BY <1>1, ElementOfSeq, LenProperties DEF RowOf
  <2> DEFINE i == q[k].idx
  <2>2. i \in Nat
    BY <2>1 DEF Record
  <2>3. k \in kept <=> ~(align.has /\ last # NoOutput /\ i + align.offset \in 0 .. last)
    BY DEF primary_record_already_output_by_secondary
  <2>4. align.has => i + align.offset = i
    BY <2>2
  <2> HIDE DEF i, last, kept
  <2>5. k \in kept <=> ~(align.has /\ last # NoOutput /\ i \in 0 .. last)
    BY <2>3, <2>4
  <2> QED  BY <1>2, <2>2, <2>5 DEF i, NoOutput
<1> HIDE DEF q, n, b, last, kept
<1>5. \A k \in DOMAIN q \ kept : q[k].idx < b
  BY <1>1, <1>2, <1>4
<1>6. kept \in SUBSET DOMAIN q
  BY DEF kept
<1>7. /\ n - Len(q) <= n - Len(r) /\ n - Len(r) <= b
      /\ r # << >> => \E k \in kept : q[k].idx = n - Len(r)
  <2>1. b \in Int /\ n - Len(q) <= b
    BY <1>1
  <2> QED  BY <1>1, <1>5, <1>6, <2>1, FrontOfRest
<1> HIDE DEF r
<1>8. r # << >> /\ align.has => last < n - Len(r)
  BY <1>4, <1>6, <1>7
<1> QED  BY <1>1, <1>2, <1>3, <1>7, <1>8 DEF n, b

\* What a failover leaves of the secondary queue.
LEMMA SeamOfFailover ==
  ASSUME EngineInv, AllBehind, align.has => align.offset = 0,
         anchor.valid => anchor.s \in Nat /\ anchor.s < Len(out)
  PROVE  LET f == next_index[1] - Len(KeptSecondary)
         IN  /\ Front(1) <= f /\ f <= Len(out)
             /\ KeptSecondary # << >> /\ align.has => last_output[0] < f
<1> DEFINE q == queue[1]
           n == next_index[1]
           b == Len(out)
           last == last_output[0]
           cut == SecondaryCutoff
           kept == {j \in DOMAIN q : ~(q[j].idx <= cut)}
           r == IF kept = {} THEN << >> ELSE SubSeq(q, Min(kept), Len(q))
<1>1. /\ RowOf(q, n) /\ n \in Nat /\ b \in Nat /\ n - Len(q) = Front(1) /\ n - Len(q) <= b
  BY SeamTypes DEF AllBehind, Stream, Front
<1>2. last \in Int /\ last < b
  <2>1. last_output[0] < Front(0) /\ Front(0) <= Len(out)
    BY DEF AllBehind, Stream
  <2>2. last_output[0] \in Int /\ Front(0) \in Int
    BY SeamTypes DEF Stream
  <2> DEFINE f == Front(0)
  <2> HIDE DEF f
  <2>3. last < f /\ f <= b /\ f \in Int
    BY <2>1, <2>2 DEF f
  <2> QED  BY <1>1, <2>2, <2>3
<1>3. r = KeptSecondary
  BY DEF KeptSecondary, DropWhile
<1>4. cut \in Int /\ cut < b /\ (align.has => last <= cut \/ last = NoOutput)
  <2> DEFINE byAnchor == IF anchor.valid THEN anchor.s ELSE -1
             byOffset == IF align.has /\ last # NoOutput THEN last + align.offset ELSE -1
  <2>1. cut = IF byOffset > byAnchor THEN byOffset ELSE byAnchor
    BY DEF SecondaryCutoff
  <2>2. byAnchor \in Int /\ byAnchor < b
    BY <1>1
  <2>3. byOffset \in Int /\ byOffset < b /\ (align.has /\ last # NoOutput => byOffset = last)
    BY <1>1, <1>2
  <2> HIDE DEF byAnchor, byOffset, cut, last, b
  <2> QED  BY <1>1, <1>2, <2>1, <2>2, <2>3
<1>5. ASSUME NEW k \in DOMAIN q
      PROVE  /\ q[k].idx \in Nat
             /\ k \notin kept => q[k].idx <= cut
             /\ k \in kept => ~(q[k].idx <= cut)
  <2>1. q[k] \in Record
    BY <1>1, ElementOfSeq, LenProperties DEF RowOf
  <2> QED  BY <2>1 DEF Record
<1> HIDE DEF q, n, b, last, kept, cut
<1>6. \A k \in DOMAIN q \ kept : q[k].idx < b
  BY <1>1, <1>4, <1>5
<1>7. kept \in SUBSET DOMAIN q
  BY DEF kept
<1>8. /\ n - Len(q) <= n - Len(r) /\ n - Len(r) <= b
      /\ r # << >> => \E k \in kept : q[k].idx = n - Len(r)
  <2>1. b \in Int /\ n - Len(q) <= b
    BY <1>1
  <2> QED  BY <1>1, <1>6, <1>7, <2>1, FrontOfRest
<1> HIDE DEF r
<1>9. r # << >> /\ align.has => last < n - Len(r)
  <2> SUFFICES ASSUME r # << >>, align.has
               PROVE  last < n - Len(r)
    OBVIOUS
  <2>1. PICK k \in kept : q[k].idx = n - Len(r)
    BY <1>8
  <2>2. q[k].idx \in Nat /\ ~(q[k].idx <= cut)
    BY <1>5, <1>7, <2>1
  <2>3. CASE last = NoOutput
    BY <2>1, <2>2, <2>3 DEF NoOutput
  <2>4. CASE last <= cut
    BY <1>2, <1>4, <2>1, <2>2, <2>4
  <2> QED  BY <1>4, <2>3, <2>4
<1> QED  BY <1>1, <1>3, <1>8, <1>9 DEF n, b, last
-----------------------------------------------------------------------------
\* A turn that keeps the output exact sends the packet that is due and nothing else.
LEMMA ExactTurn ==
  ASSUME EngineInv, FeedInv, AlignInv, QueueArrived, Placed, Undamaged,
         upto[0] = Len(carried[0]), queue[0] # << >>, Front(0) <= Len(out),
         out' = out \o TurnEntries(Len(TurnSent)), Exact(out')
  PROVE  TurnSent = <<TurnPacket>> /\ Len(out') = Len(out) + 1 /\ out'[Len(out) + 1].rec = TurnPacket
<1> DEFINE p == TurnPacket
           d == TurnDecision
           rs == TurnSent
           m == Len(rs)
           n == Len(out)
           new == TurnEntries(m)
           x == out'
<1>1. /\ p \in Record /\ p.idx \in Nat /\ p.idx = Front(0) /\ p.idx + 1 \in 1 .. Len(carried[0])
      /\ p.pkt = carried[0][p.idx + 1]
  BY FrontPlace
<1>2. ~p.pkt.tei /\ p.pkt.pos = p.idx + 1
  <2> DEFINE i == p.idx + 1
  <2>1. i \in 1 .. Len(carried[0]) /\ p.pkt = carried[0][i]
    BY <1>1
  <2> HIDE DEF i
  <2>2. ~carried[0][i].tei /\ carried[0][i].pos = i
    BY <2>1, IndexIsPlace DEF Undamaged, Stream
  <2> QED  BY <2>1, <2>2 DEF i
<1>3. d \in Decision /\ rs \in Seq(Record) /\ m \in Nat \ {0} /\ rs = Sent(d, p)
  BY FrontDecision DEF TurnDecision, TurnPacket, TurnSent
<1>4. rs = Append(d.rs, p) /\ d.rs \in Seq(Record) /\ Len(d.rs) \in Nat
  BY <1>2, <1>3, LenProperties DEF Sent, Replaced, Decision
<1>5. m = Len(d.rs) + 1 /\ rs[m] = p
  BY <1>1, <1>4, AppendProperties
<1>6. out \in Seq(Output) /\ n \in Nat
  BY LenProperties DEF EngineInv, TypeOK
<1>7. new \in Seq(Output) /\ Len(new) = m /\ DOMAIN new = 1 .. m
  <2>1. m \in 0 .. Len(TurnSent)
    BY <1>3
  <2> QED  BY <2>1, TurnEntriesType
<1>8. new[m].rec = p
  <2>1. m \in 0 .. Len(TurnSent) /\ m \in 1 .. m
    BY <1>3
  <2>2. new[m] = [rec |-> TurnSent[m], via |-> TurnVia[m], slot |-> TurnPacket.idx]
    BY <2>1, TurnEntry
  <2> QED  BY <1>5, <2>2
<1> HIDE DEF p, d, rs, m, n, new, x
<1>9. x = out \o new /\ Exact(x)
  BY DEF x, new, m, rs
<1>10. Len(x) = n + m /\ n + m \in DOMAIN x /\ x[n + m] = new[m]
  <2>1. m \in DOMAIN new
    BY <1>3, <1>7
  <2> DEFINE y == out \o new
  <2>2. Len(y) = Len(out) + Len(new)
    BY <1>6, <1>7, EntryStays
  <2>3. Len(out) + m \in DOMAIN y /\ y[Len(out) + m] = new[m]
    BY <1>6, <1>7, <2>1, EntryStays
  <2> HIDE DEF y
  <2>4. x = y
    BY <1>9 DEF y
  <2> QED  BY <1>7, <2>2, <2>3, <2>4 DEF n
<1>11. p.pkt.pos = n + m
  BY <1>8, <1>9, <1>10 DEF Exact, PosOf
<1>12. m = 1
  <2> DEFINE f == Front(0)
  <2>1. f <= n /\ f \in Nat /\ f + 1 = n + m
    BY <1>1, <1>2, <1>11, FrontType DEF n
  <2> HIDE DEF f
  <2> QED  BY <1>3, <1>6, <2>1
<1>13. rs = <<p>>
  <2>1. Len(d.rs) = 0
    BY <1>4, <1>5, <1>12
  <2>2. d.rs = << >>
    BY <1>4, <2>1, EmptySeq
  <2> QED  BY <1>4, <2>2
<1> QED  BY <1>8, <1>10, <1>12, <1>13 DEF p, rs, n, x

\* The last packet output of each feed, when one packet is sent.
LEMMA LastOfOne ==
  ASSUME NEW r \in Record, NEW s \in Stream
  PROVE  last_output_after(<<r>>)[s] = IF s = r.src THEN r.idx ELSE last_output[s]
<1> DEFINE mine == {j \in DOMAIN <<r>> : <<r>>[j].src = s}
<1>1. DOMAIN <<r>> = {1} /\ <<r>>[1] = r
  OBVIOUS
<1>2. last_output_after(<<r>>)[s] = IF mine = {} THEN last_output[s] ELSE <<r>>[Max(mine)].idx
  BY DEF last_output_after
<1>3. CASE s = r.src
  <2>1. mine = {1}
    BY <1>1, <1>3
  <2>2. Max({1}) = 1
    BY DEF Max
  <2> HIDE DEF mine
  <2> QED  BY <1>1, <1>2, <1>3, <2>1, <2>2
<1>4. CASE s # r.src
  <2>1. mine = {}
    BY <1>1, <1>4
  <2> HIDE DEF mine
  <2> QED  BY <1>2, <1>4, <2>1
<1> QED  BY <1>3, <1>4

(***************************************************************************)
(* The steps keep it: those that send nothing, and those that send one     *)
(* packet of stream z.                                                     *)
(***************************************************************************)
LEMMA SeamOfCut ==
  ASSUME EngineInv, EngineInv', SeamInv, UNCHANGED <<out, last_output, anchor>>, pc # "failed",
         Exact(out) /\ AllBehind =>
           \A s \in Stream : Front(s) <= Front(s)' /\ Front(s)' <= Len(out),
         Exact(out) /\ AllBehind /\ LoopIsAhead => LoopIsAhead'
  PROVE  SeamInv'
<1> SUFFICES ASSUME Exact(out), pc' # "failed"
             PROVE  AllBehind' /\ LastIsKnown' /\ AnchorIsBehind' /\ LoopIsAhead'
  BY DEF SeamInv
<1>1. AllBehind /\ LastIsKnown /\ AnchorIsBehind /\ LoopIsAhead
  BY DEF SeamInv
<1>2. AllBehind'
  <2>1. ASSUME NEW s \in Stream
        PROVE  last_output'[s] < Front(s)' /\ Front(s)' <= Len(out')
    <3> DEFINE l == last_output[s]
               f == Front(s)
               g == Front(s)'
               n == Len(out)
    <3>1. l \in Int /\ f \in Int /\ n \in Nat /\ g \in Int
      <4>1. queue'[s] \in Seq(Record) /\ next_index'[s] \in Nat
        BY DEF EngineInv, TypeOK
      <4>2. Len(queue'[s]) \in Nat
        BY <4>1, LenProperties
      <4> QED  BY <4>1, <4>2, SeamTypes DEF Front
    <3>2. l < f /\ f <= g /\ g <= n
      BY <1>1 DEF AllBehind
    <3>3. last_output'[s] = l /\ Len(out') = n
      OBVIOUS
    <3> HIDE DEF l, f, g, n
    <3>4. l < g /\ g <= n
      BY <3>1, <3>2
    <3> QED  BY <3>3, <3>4 DEF g
  <2> QED  BY <2>1 DEF AllBehind
<1>3. LastIsKnown' /\ AnchorIsBehind'
  BY <1>1 DEF LastIsKnown, AnchorIsBehind
<1> QED  BY <1>1, <1>2, <1>3

LEMMA SeamOfSend ==
  ASSUME EngineInv, SeamInv, pc # "failed", Exact(out), NEW z \in Stream, NEW r \in Record,
         r.src = z, r.idx = Front(z), r.pkt.pos = r.idx + 1, queue[z] # << >>,
         pc = IF z = 0 THEN "primary" ELSE "secondary", pc' \in {pc, "idle"}, align' = align,
         Exact(out'), Len(out') = Len(out) + 1, out'[Len(out) + 1].rec = r,
         DOMAIN out' = 1 .. Len(out'),
         last_output' = last_output_after(<<r>>),
         \A s \in Stream : Front(s)' = IF s = z THEN Front(s) + 1 ELSE Front(s),
         anchor' = anchor \/ anchor'.p = r.idx
  PROVE  SeamInv'
<1> DEFINE n == Len(out)
           x == out'
<1>1. AllBehind /\ LastIsKnown /\ AnchorIsBehind /\ LoopIsAhead
  BY DEF SeamInv
<1>2. n \in Nat /\ r.idx \in Nat /\ Len(x) = n + 1
  BY SeamTypes DEF Record
<1>3. r.idx = n
  <2>1. n + 1 \in DOMAIN x /\ x[n + 1].rec = r /\ Exact(x)
    BY <1>2
  <2> HIDE DEF n, x
  <2>2. r.pkt.pos = n + 1
    BY <2>1 DEF Exact, PosOf
  <2> QED  BY <1>2, <2>2
<1> HIDE DEF n
<1>4. \A s \in Stream : last_output'[s] = IF s = z THEN n ELSE last_output[s]
  BY <1>3, LastOfOne
<1>5. AllBehind'
  <2>1. ASSUME NEW s \in Stream
        PROVE  last_output'[s] < Front(s)' /\ Front(s)' <= Len(x)
    <3> DEFINE l == last_output[s]
               f == Front(s)
               g == Front(s)'
               k == last_output'[s]
    <3>1. l \in Int /\ f \in Int /\ l < f /\ f <= n
      BY <1>1, SeamTypes DEF AllBehind, n
    <3>2. /\ s = z => g = f + 1 /\ k = n /\ f = n
          /\ s # z => g = f /\ k = l
      BY <1>3, <1>4
    <3> HIDE DEF l, f, g, k
    <3>3. k < g /\ g <= n + 1
      BY <1>2, <3>1, <3>2
    <3> QED  BY <1>2, <3>3 DEF k, g
  <2> QED  BY <2>1 DEF AllBehind, x
<1>6. LastIsKnown'
  <2>1. last_output'[z] = Len(x) - 1
    BY <1>2, <1>4
  <2> QED  BY <2>1 DEF LastIsKnown, x
<1>7. AnchorIsBehind'
  <2>1. CASE anchor' = anchor
    <3>1. anchor.valid => anchor.p < n
      BY <1>1 DEF AnchorIsBehind, n
    <3>2. anchor.p \in Nat
      BY DEF EngineInv, TypeOK, Anchor
    <3>3. anchor.valid => anchor.p < Len(x)
      BY <1>2, <3>1, <3>2
    <3> QED  BY <2>1, <3>3 DEF AnchorIsBehind, x
  <2>2. CASE anchor'.p = r.idx
    <3>1. r.idx < Len(x)
      BY <1>2, <1>3
    <3> QED  BY <2>2, <3>1 DEF AnchorIsBehind, x
  <2> QED  BY <2>1, <2>2
<1>8. LoopIsAhead'
  <2>1. CASE z = 0
    <3> DEFINE l == last_output[1]
               f == Front(0)
               g == Front(0)'
    <3>1. pc' # "secondary" /\ (pc' = "primary" => pc = "primary")
      BY <2>1
    <3>2. last_output'[1] = l /\ g = f + 1 /\ f \in Int /\ l \in Int
      BY <1>4, <2>1, SeamTypes DEF Stream
    <3>3. align.has => l < f
      BY <1>1, <2>1 DEF LoopIsAhead
    <3> HIDE DEF l, f, g
    <3>4. align.has => l < g
      BY <3>2, <3>3
    <3> QED  BY <3>1, <3>2, <3>4 DEF LoopIsAhead, g
  <2>2. CASE z = 1
    <3> DEFINE l == last_output[0]
               f == Front(1)
               g == Front(1)'
    <3>1. pc' # "primary" /\ (pc' = "secondary" => pc = "secondary")
      BY <2>2
    <3>2. last_output'[0] = l /\ g = f + 1 /\ f \in Int /\ l \in Int
      BY <1>4, <2>2, SeamTypes DEF Stream
    <3>3. align.has => l < f
      BY <1>1, <2>2 DEF LoopIsAhead
    <3> HIDE DEF l, f, g
    <3>4. align.has => l < g
      BY <3>2, <3>3
    <3> QED  BY <3>1, <3>2, <3>4 DEF LoopIsAhead, g
  <2> QED  BY <2>1, <2>2 DEF Stream
<1> QED  BY <1>5, <1>6, <1>7, <1>8 DEF SeamInv
\* What the steps need to know of the two feeds.
LEMMA SeamFacts ==
  ASSUME DistinctContent, EngineInv, FeedInv, Placed, AnchorKnown, AlignmentIsReal, Complete,
         AnchorIsBehind
  PROVE  /\ align.has => align.offset = 0
         /\ anchor.valid => anchor.s \in Nat /\ anchor.s < Len(out)
<1>1. align.has => align.offset = 0
  BY NoOffset
<1>2. anchor.valid => anchor.s \in Nat /\ anchor.s < Len(out)
  BY AnchorIndex DEF AnchorIsBehind
<1> QED  BY <1>1, <1>2

\* A packet arrives.
LEMMA SeamOfArrival ==
  ASSUME EngineInv, EngineInv', SeamInv, PushedOutIsOutput,
         NEW s \in Stream, NEW pkt \in Packet, PushPacket(s, pkt)
  PROVE  SeamInv'
<1>1. /\ UNCHANGED <<out, last_output, anchor>> /\ pc = "idle" /\ pc' = "drain"
  BY DEF PushPacket
<1>2. ASSUME Exact(out), AllBehind, NEW t \in Stream
      PROVE  Front(t) <= Front(t)' /\ Front(t)' <= Len(out)
  <2> DEFINE f == Front(t)
             g == Front(t)'
             n == Len(out)
  <2>1. f \in Int /\ n \in Nat /\ f <= n
    BY <1>2, SeamTypes DEF AllBehind
  <2>2. g = f \/ (g = f + 1 /\ f < n)
    <3>1. \/ Front(t)' = Front(t)
          \/ /\ Front(t)' = Front(t) + 1
             /\ next_index'[t] # next_index[t] /\ Len(queue[t]) >= Capacity
      BY FrontsOfPush
    <3> QED  BY <1>2, <3>1 DEF PushedOutIsOutput
  <2> HIDE DEF f, g, n
  <2>3. f <= g /\ g <= n
    BY <2>1, <2>2
  <2> QED  BY <2>3 DEF f, g, n
<1>3. LoopIsAhead'
  BY <1>1 DEF LoopIsAhead
<1> QED  BY <1>1, <1>2, <1>3, SeamOfCut

\* Nothing happens to the queues.
LEMMA SeamOfRest ==
  ASSUME EngineInv, EngineInv', SeamInv, pc # "failed",
         UNCHANGED <<out, last_output, anchor, queue, next_index, align>>,
         pc' = pc \/ pc' \notin {"primary", "secondary"}
  PROVE  SeamInv'
<1>1. ASSUME AllBehind, NEW s \in Stream
      PROVE  Front(s) <= Front(s)' /\ Front(s)' <= Len(out)
  <2>1. Front(s)' = Front(s) /\ Front(s) \in Int
    BY SeamTypes DEF Front
  <2>2. Front(s) <= Len(out)
    BY <1>1 DEF AllBehind
  <2> QED  BY <2>1, <2>2
<1>2. LoopIsAhead => LoopIsAhead'
  BY DEF LoopIsAhead, Front
<1> QED  BY <1>1, <1>2, SeamOfCut

\* A failover, or a drain that ends without one.
LEMMA SeamOfOutage ==
  ASSUME EngineInv, EngineInv', SeamInv, pc # "failed",
         align.has => align.offset = 0,
         Exact(out) /\ anchor.valid => anchor.s \in Nat /\ anchor.s < Len(out),
         UNCHANGED <<out, last_output, anchor, next_index, align>>,
         NEW pq, pq = queue[0] \/ pq = KeptPrimary,
         \/ EnterOutage(pq)
         \/ queue' = [queue EXCEPT ![0] = pq] /\ pc' \notin {"primary", "secondary"}
  PROVE  SeamInv'
<1>0. queue \in [Stream -> Seq(Record)] /\ 0 \in Stream /\ 1 \in Stream /\ 0 # 1
  BY DEF EngineInv, TypeOK, Stream
<1>1. /\ queue'[0] = pq
      /\ pc' # "primary"
      /\ \/ queue'[1] = KeptSecondary
         \/ queue'[1] = queue[1] /\ pc' # "secondary"
  BY <1>0 DEF EnterOutage, Returned
<1>2. ASSUME Exact(out), AllBehind
      PROVE  /\ \A s \in Stream : Front(s) <= Front(s)' /\ Front(s)' <= Len(out)
             /\ LoopIsAhead'
  <2>1. /\ Front(0) \in Int /\ Front(1) \in Int
        /\ Front(0) <= Len(out) /\ Front(1) <= Len(out)
    BY <1>0, <1>2, SeamTypes DEF AllBehind
  <2>2. Front(0) <= Front(0)' /\ Front(0)' <= Len(out)
    <3>1. CASE pq = queue[0]
      BY <1>1, <2>1, <3>1 DEF Front
    <3>2. CASE pq = KeptPrimary
      <4>1. /\ Front(0) <= next_index[0] - Len(KeptPrimary)
            /\ next_index[0] - Len(KeptPrimary) <= Len(out)
        BY <1>2, SeamOfReturn
      <4> QED  BY <1>1, <3>2, <4>1 DEF Front
    <3> QED  BY <3>1, <3>2
  <2>3. /\ Front(1) <= Front(1)' /\ Front(1)' <= Len(out)
        /\ pc' = "secondary" /\ align.has /\ queue'[1] # << >> => last_output[0] < Front(1)'
    <3>1. CASE queue'[1] = queue[1] /\ pc' # "secondary"
      BY <2>1, <3>1 DEF Front
    <3>2. CASE queue'[1] = KeptSecondary
      <4>1. /\ Front(1) <= next_index[1] - Len(KeptSecondary)
            /\ next_index[1] - Len(KeptSecondary) <= Len(out)
            /\ KeptSecondary # << >> /\ align.has => last_output[0] < next_index[1] - Len(KeptSecondary)
        BY <1>2, SeamOfFailover
      <4> QED  BY <3>2, <4>1 DEF Front
    <3> QED  BY <1>1, <3>1, <3>2
  <2>4. LoopIsAhead'
    BY <1>1, <2>3 DEF LoopIsAhead
  <2> QED  BY <2>2, <2>3, <2>4 DEF Stream
<1> QED  BY <1>2, SeamOfCut

\* Output goes to the primary, or stays there.
LEMMA SeamOfDrain ==
  ASSUME EngineInv, EngineInv', SeamInv, align.has => align.offset = 0, DrainPrimary
  PROVE  SeamInv'
<1>0. queue \in [Stream -> Seq(Record)] /\ 0 \in Stream /\ 1 \in Stream /\ 0 # 1
  BY DEF EngineInv, TypeOK, Stream
<1>1. /\ UNCHANGED <<out, last_output, anchor, next_index, align>>
      /\ pc # "failed" /\ pc' = "primary" /\ queue' = [queue EXCEPT ![0] = KeptPrimary]
  BY DEF DrainPrimary
<1>2. queue'[0] = KeptPrimary /\ queue'[1] = queue[1]
  BY <1>0, <1>1
<1>3. ASSUME Exact(out), AllBehind
      PROVE  /\ \A s \in Stream : Front(s) <= Front(s)' /\ Front(s)' <= Len(out)
             /\ LoopIsAhead'
  <2>1. /\ Front(0) <= next_index[0] - Len(KeptPrimary)
        /\ next_index[0] - Len(KeptPrimary) <= Len(out)
        /\ KeptPrimary # << >> /\ align.has => last_output[1] < next_index[0] - Len(KeptPrimary)
    BY <1>3, SeamOfReturn
  <2>2. Front(0)' = next_index[0] - Len(KeptPrimary)
    BY <1>1, <1>2 DEF Front
  <2>3. Front(1)' = Front(1) /\ Front(1) \in Int /\ Front(1) <= Len(out)
    BY <1>0, <1>1, <1>2, <1>3, SeamTypes DEF Front, AllBehind
  <2>4. LoopIsAhead'
    BY <1>1, <1>2, <2>1, <2>2 DEF LoopIsAhead
  <2>5. Front(0) <= Front(0)' /\ Front(0)' <= Len(out)
    BY <2>1, <2>2
  <2>6. Front(1) <= Front(1)' /\ Front(1)' <= Len(out)
    BY <2>3
  <2> QED  BY <2>4, <2>5, <2>6 DEF Stream
<1> QED  BY <1>1, <1>3, SeamOfCut

\* A packet of the primary is sent.
LEMMA SeamOfTurn ==
  ASSUME EngineInv, FeedInv, AlignInv, QueueArrived, Placed, Undamaged, Complete, SeamInv,
         PrimaryStep, UNCHANGED net_vars
  PROVE  SeamInv'
<1> SUFFICES ASSUME Exact(out')
             PROVE  SeamInv'
  BY DEF SeamInv
<1>1. /\ pc = "primary" /\ pc' = pc /\ queue[0] # << >> /\ align' = align
      /\ OutputRecords(TurnSent, TurnVia, TurnPacket.idx)
      /\ anchor' = anchor \/ anchor' = update_primary_anchor(View, TurnPacket)
      /\ queue' = [queue EXCEPT ![0] = delay_queue_pop(queue[0])]
      /\ next_index' = next_index
  BY DEF PrimaryStep, TurnPacket, TurnDecision, TurnSent, TurnVia
<1>2. out' = out \o TurnEntries(Len(TurnSent)) /\ Front(0)' = Front(0) + 1
  <2>1. Turn(Len(TurnSent))
    BY WholeTurn
  <2> QED  BY <1>1, <2>1 DEF Turn
<1>3. out \in Seq(Output) /\ TurnSent \in Seq(Record) /\ Len(TurnSent) \in Nat
  BY <1>1, FrontDecision DEF EngineInv, TypeOK, TurnPacket, TurnDecision, TurnSent
<1>4. out' \in Seq(Output) /\ DOMAIN out' = 1 .. Len(out')
  <2>1. TurnEntries(Len(TurnSent)) \in Seq(Output)
    <3>1. Len(TurnSent) \in 0 .. Len(TurnSent)
      BY <1>3
    <3> QED  BY <1>1, <3>1, TurnEntriesType
  <2>2. out' \in Seq(Output)
    BY <1>2, <1>3, <2>1, EntryStays
  <2> QED  BY <2>2, LenProperties
<1>5. Exact(out)
  <2>1. TurnEntries(Len(TurnSent)) \in Seq(Output)
    <3>1. Len(TurnSent) \in 0 .. Len(TurnSent)
      BY <1>3
    <3> QED  BY <1>1, <3>1, TurnEntriesType
  <2> DEFINE x == out'
             new == TurnEntries(Len(TurnSent))
  <2>2. x = out \o new /\ Exact(x) /\ new \in Seq(Output)
    BY <1>2, <2>1
  <2> HIDE DEF x, new
  <2>3. \A k \in DOMAIN out : k \in DOMAIN x /\ x[k] = out[k]
    BY <1>3, <2>2, EntryStays
  <2> QED  BY <2>2, <2>3 DEF Exact
<1>6. AllBehind
  BY <1>1, <1>5 DEF SeamInv
<1>7. /\ TurnPacket \in Record /\ TurnPacket.idx = Front(0) /\ TurnPacket.src = 0
      /\ TurnPacket.pkt.pos = TurnPacket.idx + 1
  <2> DEFINE i == TurnPacket.idx + 1
  <2>1. /\ TurnPacket \in Record /\ TurnPacket.idx = Front(0) /\ TurnPacket.src = 0
        /\ i \in 1 .. Len(carried[0]) /\ TurnPacket.pkt = carried[0][i]
    BY <1>1, FrontPlace
  <2> HIDE DEF i
  <2>2. carried[0][i].pos = i
    BY <2>1, IndexIsPlace DEF Complete, Stream
  <2> QED  BY <2>1, <2>2 DEF i
<1>8. TurnSent = <<TurnPacket>> /\ Len(out') = Len(out) + 1 /\ out'[Len(out) + 1].rec = TurnPacket
  <2>1. Front(0) <= Len(out) /\ upto[0] = Len(carried[0])
    BY <1>6 DEF AllBehind, Complete, Stream
  <2> QED  BY <1>1, <1>2, <2>1, ExactTurn
<1>9. last_output' = last_output_after(<<TurnPacket>>)
  BY <1>1, <1>8 DEF OutputRecords
<1>10. \A s \in Stream : Front(s)' = IF s = 0 THEN Front(s) + 1 ELSE Front(s)
  <2>1. queue'[1] = queue[1]
    BY <1>1 DEF EngineInv, TypeOK, Stream
  <2> QED  BY <1>1, <1>2, <2>1 DEF Front, Stream
<1>11. anchor' = anchor \/ anchor'.p = TurnPacket.idx
  <2> DEFINE a == update_primary_anchor(View, TurnPacket)
  <2>1. a = anchor \/ a.p = TurnPacket.idx
    BY DEF update_primary_anchor, View
  <2> HIDE DEF a
  <2> QED  BY <1>1, <2>1 DEF a
<1>12. 0 \in Stream /\ pc # "failed"
  BY <1>1 DEF Stream
<1> QED  BY <1>1, <1>4, <1>5, <1>7, <1>8, <1>9, <1>10, <1>11, <1>12, SeamOfSend

\* A packet of the secondary is sent.
LEMMA SecondarySent ==
  ASSUME EngineInv, FeedInv, QueueArrived, Placed, Complete, SecondaryStep
  PROVE  LET r == Head(queue[1])
         IN  /\ r \in Record /\ r.src = 1 /\ r.idx = Front(1) /\ r.pkt.pos = r.idx + 1
             /\ out' \in Seq(Output) /\ Len(out') = Len(out) + 1 /\ DOMAIN out' = 1 .. Len(out')
             /\ out'[Len(out) + 1].rec = r
             /\ \A k \in DOMAIN out : k \in DOMAIN out' /\ out'[k] = out[k]
<1> DEFINE r == Head(queue[1])
           e == [rec |-> r, via |-> "outage", slot |-> r.idx]
           i == r.idx + 1
<1>1. queue[1] # << >> /\ OutputRecords(<<r>>, <<"outage">>, r.idx)
  BY DEF SecondaryStep
<1>2. /\ r \in Record /\ r.idx \in Nat /\ r.idx = Front(1) /\ r.src = 1
      /\ i \in 1 .. Len(carried[1]) /\ r.pkt = carried[1][i]
  BY <1>1, SecondaryPlace
<1>3. out' = out \o <<e>>
  BY <1>1 DEF OutputRecords
<1>4. e \in Output /\ e.rec = r
  BY <1>2 DEF Output, Via
<1>5. out \in Seq(Output) /\ Len(out) \in Nat
  BY LenProperties DEF EngineInv, TypeOK
<1> HIDE DEF e, r, i
<1>6. carried[1][i].pos = i
  BY <1>2, IndexIsPlace DEF Complete, Stream
<1>7. <<e>> \in Seq(Output) /\ Len(<<e>>) = 1 /\ DOMAIN <<e>> = {1} /\ <<e>>[1] = e
  BY <1>4
<1> DEFINE new == <<e>>
           x == out'
<1> HIDE DEF new, x
<1>8. x = out \o new /\ new \in Seq(Output) /\ Len(new) = 1 /\ 1 \in DOMAIN new /\ new[1] = e
  BY <1>3, <1>7 DEF new, x
<1>9. /\ x \in Seq(Output) /\ Len(x) = Len(out) + 1 /\ x[Len(out) + 1] = e
      /\ \A k \in DOMAIN out : k \in DOMAIN x /\ x[k] = out[k]
  <2> DEFINE y == out \o new
  <2>1. y \in Seq(Output) /\ Len(y) = Len(out) + Len(new)
    BY <1>5, <1>8, EntryStays
  <2>2. y[Len(out) + 1] = new[1]
    BY <1>5, <1>8, EntryStays
  <2>3. \A k \in DOMAIN out : k \in DOMAIN y /\ y[k] = out[k]
    BY <1>5, <1>8, EntryStays
  <2> HIDE DEF y
  <2>4. x = y
    BY <1>8 DEF y
  <2> QED  BY <1>8, <2>1, <2>2, <2>3, <2>4
<1>10. DOMAIN x = 1 .. Len(x)
  BY <1>9, LenProperties
<1>11. r.pkt.pos = r.idx + 1
  BY <1>2, <1>6 DEF i
<1> QED  BY <1>2, <1>4, <1>9, <1>10, <1>11 DEF x, r

LEMMA SeamOfSecondary ==
  ASSUME EngineInv, EngineInv', FeedInv, QueueArrived, Placed, Complete, SeamInv, SecondaryStep
  PROVE  SeamInv'
<1> SUFFICES ASSUME Exact(out')
             PROVE  SeamInv'
  BY DEF SeamInv
<1> DEFINE r == Head(queue[1])
<1>1. /\ pc = "secondary" /\ pc' \in {pc, "idle"} /\ queue[1] # << >>
      /\ align' = align /\ anchor' = anchor /\ next_index' = next_index
      /\ OutputRecords(<<r>>, <<"outage">>, r.idx)
      /\ queue' = [queue EXCEPT ![1] = delay_queue_pop(queue[1])]
  BY DEF SecondaryStep
<1>2. last_output' = last_output_after(<<r>>)
  BY <1>1 DEF OutputRecords
<1>3. \A s \in Stream : Front(s)' = IF s = 1 THEN Front(s) + 1 ELSE Front(s)
  <2>1. /\ queue[1] \in Seq(Record) /\ RowOf(queue[1], next_index[1]) /\ next_index[1] \in Nat
        /\ queue \in [Stream -> Seq(Record)]
    BY DEF EngineInv, TypeOK, Rows, Stream
  <2>2. Len(delay_queue_pop(queue[1])) = Len(queue[1]) - 1 /\ Len(queue[1]) \in Nat
    BY <1>1, <2>1, PoppedRow
  <2>3. queue'[1] = delay_queue_pop(queue[1]) /\ queue'[0] = queue[0]
    BY <1>1, <2>1 DEF Stream
  <2> QED  BY <1>1, <2>1, <2>2, <2>3 DEF Front, Stream
<1>4. /\ r \in Record /\ r.src = 1 /\ r.idx = Front(1) /\ r.pkt.pos = r.idx + 1
      /\ Len(out') = Len(out) + 1 /\ DOMAIN out' = 1 .. Len(out')
      /\ out'[Len(out) + 1].rec = r
      /\ \A k \in DOMAIN out : k \in DOMAIN out' /\ out'[k] = out[k]
  BY SecondarySent
<1>5. Exact(out)
  BY <1>4 DEF Exact
<1>6. 1 \in Stream /\ pc # "failed"
  BY <1>1 DEF Stream
<1> HIDE DEF r
<1> QED  BY <1>1, <1>2, <1>3, <1>4, <1>5, <1>6, SeamOfSend
LEMMA SeamInit == NetInit => SeamInv
<1> SUFFICES ASSUME NetInit
             PROVE  AllBehind /\ LastIsKnown /\ AnchorIsBehind /\ LoopIsAhead
  BY DEF SeamInv
<1>1. Len(<< >>) = 0
  OBVIOUS
<1>2. \A s \in Stream : queue[s] = << >> /\ next_index[s] = 0 /\ last_output[s] = -1
  BY DEF NetInit, Init, NoOutput
<1>3. \A s \in Stream : Front(s) = 0
  BY <1>1, <1>2 DEF Front
<1>4. out = << >> /\ ~anchor.valid /\ pc = "idle"
  BY DEF NetInit, Init
<1>5. AllBehind
  BY <1>1, <1>2, <1>3, <1>4 DEF AllBehind
<1> QED  BY <1>4, <1>5 DEF LastIsKnown, AnchorIsBehind, LoopIsAhead

LEMMA SeamStep ==
  ASSUME DistinctContent, EngineInv, EngineInv', FeedInv, AlignInv, QueueArrived, Placed,
         AnchorKnown, AlignmentIsReal, Complete, Undamaged, SeamInv,
         [NetNext]_all_vars, [PushedOutIsOutput]_all_vars
  PROVE  SeamInv'
<1>1. CASE pc' = "failed"
  BY <1>1 DEF SeamInv
<1>2. ASSUME pc' # "failed", Exact(out), pc # "failed"
      PROVE  /\ align.has => align.offset = 0
             /\ anchor.valid => anchor.s \in Nat /\ anchor.s < Len(out)
  <2>1. AnchorIsBehind
    BY <1>2 DEF SeamInv
  <2> QED  BY <2>1, SeamFacts
<1>3. align.has => align.offset = 0
  BY NoOffset
<1>4. ASSUME NEW s \in Stream, Deliver(s) \/ Damage(s)
      PROVE  SeamInv'
  <2>1. PICK pkt \in Packet : PushPacket(s, pkt)
    <3>1. upto[s] < Len(Source) /\ Source[upto[s] + 1] \in Packet
      BY <1>4, SourceType DEF Deliver, Damage
    <3>2. [Source[upto[s] + 1] EXCEPT !.tei = TRUE] \in Packet
      BY <3>1 DEF Packet
    <3> QED  BY <1>4, <3>1, <3>2 DEF Deliver, Damage, Arrive
  <2>2. PushedOutIsOutput
    <3>1. pc' # pc
      BY <2>1 DEF PushPacket
    <3> QED  BY <3>1 DEF all_vars, vars, engine_vars
  <2> QED  BY <2>1, <2>2, SeamOfArrival
<1>5. CASE (\E s \in Stream : Lose(s)) \/ Drain \/ Clock \/ Stop \/ Ended \/ UNCHANGED all_vars
  <2>1. /\ UNCHANGED <<out, last_output, anchor, queue, next_index, align>>
        /\ pc' = pc \/ pc' \notin {"primary", "secondary"}
        /\ pc = "failed" => pc' = "failed"
    BY <1>5 DEF Lose, Drain, MainLoopDrain, Clock, Tick, Stop, Flush, Ended, all_vars, vars,
                engine_vars
  <2> QED  BY <1>1, <2>1, SeamOfRest
<1>6. CASE Failure
  BY <1>1, <1>6 DEF Failure, SinkFails
<1>7. CASE Step
  <2>1. UNCHANGED net_vars
    BY <1>7 DEF Step
  <2>2. CASE PrimaryStep
    BY <2>1, <2>2, SeamOfTurn
  <2>3. CASE SecondaryStep
    BY <2>3, SeamOfSecondary
  <2>4. CASE DrainPrimary
    BY <1>3, <2>4, SeamOfDrain
  <2>5. CASE PrimaryNotDue \/ SecondaryDone
    <3>1. /\ UNCHANGED <<out, last_output, anchor, queue, next_index, align>>
          /\ pc # "failed" /\ pc' \notin {"primary", "secondary"}
      BY <2>5 DEF PrimaryNotDue, SecondaryDone, Returned
    <3> QED  BY <3>1, SeamOfRest
  <2>6. CASE DrainNotReady \/ DrainNothing \/ PrimaryEmpty
    <3>1. /\ UNCHANGED <<out, last_output, anchor, next_index, align>>
          /\ pc # "failed" /\ pc' # "failed"
      BY <2>6 DEF DrainNotReady, DrainNothing, PrimaryEmpty, EnterOutage, Returned
    <3>2. \E pq \in {queue[0], KeptPrimary} :
            \/ EnterOutage(pq)
            \/ queue' = [queue EXCEPT ![0] = pq] /\ pc' \notin {"primary", "secondary"}
      <4>1. CASE DrainNotReady
        BY <4>1 DEF DrainNotReady
      <4>2. CASE DrainNothing
        BY <4>2 DEF DrainNothing, Returned
      <4>3. CASE PrimaryEmpty
        BY <4>3 DEF PrimaryEmpty
      <4> QED  BY <2>6, <4>1, <4>2, <4>3
    <3>3. Exact(out) /\ anchor.valid => anchor.s \in Nat /\ anchor.s < Len(out)
      BY <1>2, <3>1
    <3> QED  BY <1>3, <3>1, <3>2, <3>3, SeamOfOutage
  <2> QED  BY <1>7, <2>2, <2>3, <2>4, <2>5, <2>6 DEF Step, EngineStep
<1> QED  BY <1>4, <1>5, <1>6, <1>7 DEF NetNext

\* The packet that is due next is the one behind the output.
LEMMA NextIsDue ==
  ASSUME EngineInv, FeedInv, QueueArrived, SeamInv, Exact(out), align.has
  PROVE  /\ pc = "primary" /\ queue[0] # << >> => Front(0) = Len(out)
         /\ pc = "secondary" /\ queue[1] # << >> => Front(1) = Len(out)
<1> SUFFICES ASSUME NEW z \in Stream, pc = IF z = 0 THEN "primary" ELSE "secondary",
                    queue[z] # << >>
             PROVE  Front(z) = Len(out)
  BY DEF Stream
<1>1. AllBehind /\ LastIsKnown /\ LoopIsAhead
  BY DEF SeamInv
<1> DEFINE n == Len(out)
           f == Front(z)
<1>2. \A s \in Stream : last_output[s] \in Int /\ last_output[s] < f
  <2>1. last_output[z] < f /\ last_output[1 - z] < f
    BY <1>1 DEF AllBehind, LoopIsAhead, Stream
  <2> QED  BY <2>1, SeamTypes DEF Stream
<1>3. f \in Nat /\ n \in Nat /\ f <= n
  <2>1. f \in Nat
    BY FrontType, SecondaryPlace DEF Stream
  <2> QED  BY <1>1, <2>1, SeamTypes DEF AllBehind
<1>4. out = << >> => n = 0
  OBVIOUS
<1> HIDE DEF f, n
<1>5. CASE out = << >>
  <2>1. f = n
    BY <1>3, <1>4, <1>5
  <2> QED  BY <2>1 DEF f, n
<1>6. CASE out # << >>
  <2>1. PICK s \in Stream : last_output[s] = n - 1
    BY <1>1, <1>6 DEF LastIsKnown, n
  <2>2. f = n
    BY <1>2, <1>3, <2>1
  <2> QED  BY <2>2 DEF f, n
<1> QED  BY <1>5, <1>6

LEMMA SwitchStep ==
  ASSUME DistinctContent, CountersRunOn, EngineInv, FeedInv, AlignInv, QueueArrived, Placed,
         EntriesKnown, CounterIsLast, Complete, Undamaged, SeamInv, [NetNext]_all_vars,
         Exact(out), align.has
  PROVE  Exact(out')
<1>1. CASE out' = out
  BY <1>1
<1>2. ASSUME NEW n \in Nat, Turn(n)
      PROVE  Exact(out')
  <2> DEFINE new == TurnEntries(n)
             x == out'
             i == TurnPacket.idx + 1
  <2>1. /\ pc = "primary" /\ queue[0] # << >> /\ n \in 0 .. Len(TurnSent) /\ x = out \o new
    BY <1>2 DEF Turn
  <2>2. Front(0) = Len(out) /\ upto[0] = Len(carried[0])
    BY <2>1, NextIsDue DEF Complete, Stream
  <2>3. /\ TurnPacket.idx = Front(0) /\ i \in 1 .. Len(carried[0])
        /\ TurnPacket.pkt = carried[0][i] /\ i = Len(out) + 1
    BY <2>1, <2>2, FrontPlace
  <2>4. new \in Seq(Output) /\ DOMAIN new = 1 .. n /\ out \in Seq(Output) /\ Len(out) \in Nat
    BY <2>1, TurnEntriesType, LenProperties DEF EngineInv, TypeOK
  <2>5. ~TurnPacket.pkt.tei /\ TurnPacket.pkt.pos = Len(out) + 1
    <3> HIDE DEF i
    <3>1. ~carried[0][i].tei /\ carried[0][i].pos = i
      BY <2>2, <2>3, IndexIsPlace DEF Undamaged, Stream
    <3> QED  BY <2>3, <3>1
  <2>6. \A j \in 1 .. n : j = Len(TurnSent) /\ PosOf(new[j]) = Len(out) + 1
    <3> TAKE j \in 1 .. n
    <3>1. /\ j \in 1 .. Len(TurnSent)
          /\ new[j] = [rec |-> TurnSent[j], via |-> TurnVia[j], slot |-> TurnPacket.idx]
      BY <2>1, TurnEntry
    <3>2. ~Inserted(j)
      BY <2>1, <2>2, ExactNoGap
    <3>3. ~Replaced(TurnDecision, TurnPacket)
      BY <2>5 DEF Replaced
    <3>4. j = Len(TurnSent) /\ TurnSent[j] = TurnPacket
      BY <2>1, <3>1, <3>2, <3>3, TurnCases
    <3>5. new[j].rec = TurnPacket
      BY <3>1, <3>4
    <3> HIDE DEF new
    <3> QED  BY <2>5, <3>4, <3>5 DEF PosOf
  <2>k. \A j, k \in 1 .. n : j = k
    BY <2>6
  <2>j. \A j \in 1 .. n : j = 1
    <3> TAKE j \in 1 .. n
    <3>1. 1 \in 1 .. n
      OBVIOUS
    <3> QED  BY <2>k, <3>1
  <2> HIDE DEF new, x, i
  <2>7. ASSUME NEW k \in DOMAIN x
        PROVE  PosOf(x[k]) = k
    <3> DEFINE b == Len(out)
               m == k - b
    <3>1. \/ k \in DOMAIN out /\ x[k] = out[k]
          \/ m \in DOMAIN new /\ x[k] = new[m] /\ k > b
      BY <2>1, <2>4, EntryOf
    <3>2. CASE k \in DOMAIN out /\ x[k] = out[k]
      BY <3>2 DEF Exact
    <3>3. CASE m \in DOMAIN new /\ x[k] = new[m] /\ k > b
      <4>1. m = 1 /\ PosOf(x[k]) = b + 1
        BY <2>4, <2>6, <2>j, <3>3
      <4>2. k \in Int
        <5>1. x \in Seq(Output)
          BY <2>1, <2>4, EntryStays
        <5>2. DOMAIN x = 1 .. Len(x)
          BY <5>1, LenProperties
        <5> QED  BY <5>2
      <4>3. b \in Nat
        BY <2>4
      <4> HIDE DEF b
      <4>4. k = b + 1
        BY <4>1, <4>2, <4>3
      <4> QED  BY <4>1, <4>4
    <3> QED  BY <3>1, <3>2, <3>3
  <2> QED  BY <2>7 DEF Exact, x
<1>3. ASSUME SecondaryStep
      PROVE  Exact(out')
  <2> DEFINE r == Head(queue[1])
             x == out'
             b == Len(out)
  <2>1. pc = "secondary" /\ queue[1] # << >>
    BY <1>3 DEF SecondaryStep
  <2>2. Front(1) = b
    BY <2>1, NextIsDue
  <2>3. /\ r.idx = Front(1) /\ r.pkt.pos = r.idx + 1
        /\ Len(x) = b + 1 /\ DOMAIN x = 1 .. Len(x) /\ x[b + 1].rec = r
        /\ \A k \in DOMAIN out : k \in DOMAIN x /\ x[k] = out[k]
    BY <1>3, SecondarySent
  <2>4. out \in Seq(Output) /\ b \in Nat /\ DOMAIN out = 1 .. b
    BY LenProperties DEF EngineInv, TypeOK
  <2> HIDE DEF x, b, r
  <2>5. ASSUME NEW k \in DOMAIN x
        PROVE  PosOf(x[k]) = k
    <3>1. k \in 1 .. b + 1
      BY <2>3
    <3>2. CASE k \in DOMAIN out
      BY <2>3, <3>2 DEF Exact
    <3>3. CASE k \notin DOMAIN out
      <4>1. k = b + 1
        BY <2>4, <3>1, <3>3
      <4>2. x[k].rec = r /\ r.pkt.pos = b + 1
        BY <2>2, <2>3, <4>1
      <4> QED  BY <4>1, <4>2 DEF PosOf
    <3> QED  BY <3>2, <3>3
  <2> QED  BY <2>5 DEF Exact, x
<1>4. ASSUME NEW s \in Stream, NEW pkt \in Packet, Arrival(s, pkt)
      PROVE  out' = out
  BY <1>4 DEF Arrival, Arrive, PushPacket
<1>5. Quiet => out' = out
  BY DEF Quiet
<1> QED  BY <1>1, <1>2, <1>3, <1>4, <1>5, NetSteps

(***************************************************************************)
(* SwitchesAreSeamless, for two feeds that lose nothing and a primary that *)
(* damages nothing: however often one of the two falls silent and output   *)
(* changes between them (EnterOutage, DrainPrimary), once they are aligned *)
(* no packet is output twice and none is left out.  A full queue pushes    *)
(* packets out unsent; the theorem asks that these were output from the    *)
(* other feed.  The secondary may damage packets, and the sink may fail.   *)
(***************************************************************************)
THEOREM SwitchesLoseNothing ==
  ASSUME DistinctContent, CountersRunOn
  PROVE  NetSpec /\ []Complete /\ []Undamaged /\ [][PushedOutIsOutput]_all_vars
           => SwitchesAreSeamless
<1>1. NetInit => SeamInv
  BY SeamInit
<1>2. EngineInv /\ EngineInv' /\ FeedInv /\ AlignInv /\ QueueArrived /\ Placed /\ AnchorKnown
        /\ AlignmentIsReal /\ Complete /\ Undamaged /\ SeamInv
        /\ [NetNext]_all_vars /\ [PushedOutIsOutput]_all_vars
        => SeamInv'
  BY SeamStep
<1>3. EngineInv /\ FeedInv /\ AlignInv /\ QueueArrived /\ Placed /\ EntriesKnown
        /\ CounterIsLast /\ Complete /\ Undamaged /\ SeamInv /\ [NetNext]_all_vars
        => [Exact(out) /\ align.has => Exact(out')]_all_vars
  BY SwitchStep
<1>4. NetSpec => []EngineInv
  BY FeedsImplementEngine, EngineInvariant, PTL
<1>5. NetSpec => []AlignmentIsReal
  BY AlignmentOfDistinctContent
<1> QED  BY <1>1, <1>2, <1>3, <1>4, <1>5, FeedInvariant, AlignInvariant, PlacedInvariant,
            AnchorKnownInvariant, EntriesKnownInvariant, PastInvariant, PTL
         DEF NetSpec, SwitchesAreSeamless
=============================================================================
