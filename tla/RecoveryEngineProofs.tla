------------------------ MODULE RecoveryEngineProofs ------------------------
(***************************************************************************)
(* The recovery engine, for every size of its buffers, every set of PIDs   *)
(* and contents, every delay and every threshold: its state stays well     *)
(* typed, its histories and queues hold what arrived last without a gap,   *)
(* and both streams leave their queues once and in order.                  *)
(***************************************************************************)
EXTENDS RecoveryEngine, GapRecoveryProofs

-----------------------------------------------------------------------------
(***************************************************************************)
(* Sequences of records with consecutive indices, the last one n - 1.      *)
(***************************************************************************)
Row(q, n) == \A k \in DOMAIN q : q[k].idx = n - Len(q) + k - 1

LEMMA ShiftedPlace ==
  ASSUME NEW n \in Int, NEW l \in Int, NEW a \in Int, NEW k \in Int, NEW m, NEW x,
         m = l - a + 1, x = n - l + (a + k - 1) - 1
  PROVE  x = n - m + k - 1
OBVIOUS

\* A row from some place on is a row.
LEMMA RestOfRow ==
  ASSUME NEW n \in Nat, NEW q \in Seq(Record), Row(q, n), NEW a \in 1 .. Len(q)
  PROVE  LET r == SubSeq(q, a, Len(q))
         IN  r \in Seq(Record) /\ Row(r, n) /\ Len(r) <= Len(q)
<1> DEFINE r == SubSeq(q, a, Len(q))
<1>1. Len(q) \in Nat /\ DOMAIN q = 1 .. Len(q)
  BY LenProperties
<1>2. Len(q) \in DOMAIN q
  BY <1>1
<1>3. r \in Seq(Record)
  BY <1>2, StretchType
<1>4. Len(r) = Len(q) - a + 1 /\ \A k \in 1 .. Len(r) : r[k] = q[a + k - 1]
  BY <1>1, SubSeqProperties
<1>5. DOMAIN r = 1 .. Len(r)
  BY <1>3, LenProperties
<1> HIDE DEF r
<1>6. Row(r, n)
  <2>1. SUFFICES ASSUME NEW k \in 1 .. Len(r)  PROVE r[k].idx = n - Len(r) + k - 1
    BY <1>5 DEF Row
  <2>2. a + k - 1 \in DOMAIN q
    BY <1>1, <1>4
  <2>3. q[a + k - 1].idx = n - Len(q) + (a + k - 1) - 1
    BY <2>2 DEF Row
  <2>4. r[k].idx = n - Len(q) + (a + k - 1) - 1
    BY <1>4, <2>3
  <2> DEFINE l == Len(q)
             m == Len(r)
             x == r[k].idx
  <2>5. /\ n \in Int /\ l \in Int /\ a \in Int /\ k \in Int
        /\ m = l - a + 1 /\ x = n - l + (a + k - 1) - 1
    BY <1>1, <1>4, <2>4
  <2> HIDE DEF l, m, x
  <2>6. x = n - m + k - 1
    BY <2>5, ShiftedPlace
  <2> QED  BY <2>6 DEF m, x
<1> QED  BY <1>1, <1>3, <1>4, <1>6 DEF r

\* A row without its first record is a row.
LEMMA TailOfRow ==
  ASSUME NEW n \in Nat, NEW q \in Seq(Record), Row(q, n), q # << >>
  PROVE  /\ Tail(q) \in Seq(Record) /\ Row(Tail(q), n) /\ Len(Tail(q)) = Len(q) - 1
         /\ Head(q) \in Record /\ Head(q).idx = n - Len(q)
<1>1. Len(q) \in Nat \ {0} /\ DOMAIN q = 1 .. Len(q)
  BY LenProperties, EmptySeq
<1>2. /\ Tail(q) \in Seq(Record) /\ Len(Tail(q)) = Len(q) - 1
      /\ \A k \in 1 .. Len(Tail(q)) : Tail(q)[k] = q[k + 1]
      /\ Head(q) = q[1] /\ Head(q) \in Record
  BY <1>1, HeadTailProperties
<1>3. DOMAIN Tail(q) = 1 .. Len(Tail(q))
  BY <1>2, LenProperties
<1>4. ASSUME NEW k \in 1 .. Len(Tail(q))
      PROVE  Tail(q)[k].idx = n - Len(Tail(q)) + k - 1
  <2>1. k + 1 \in DOMAIN q /\ k \in Int
    BY <1>1, <1>2
  <2>2. q[k + 1].idx = n - Len(q) + (k + 1) - 1
    BY <2>1 DEF Row
  <2> DEFINE l == Len(q)
  <2>3. l \in Int
    BY <1>1
  <2>4. Tail(q)[k].idx = n - l + (k + 1) - 1 /\ Len(Tail(q)) = l - 1
    BY <1>2, <2>2
  <2> HIDE DEF l
  <2>5. n - l + (k + 1) - 1 = n - (l - 1) + k - 1
    BY <2>1, <2>3
  <2> QED  BY <2>4, <2>5, Zenon
<1>5. Head(q).idx = n - Len(q)
  <2>1. q[1].idx = n - Len(q) + 1 - 1
    BY <1>1 DEF Row
  <2> DEFINE l == Len(q)
  <2>2. l \in Int /\ Head(q).idx = n - l + 1 - 1
    BY <1>1, <1>2, <2>1
  <2> HIDE DEF l
  <2>3. n - l + 1 - 1 = n - l
    BY <2>2
  <2> QED  BY <2>2, <2>3, Zenon DEF l
<1> QED  BY <1>2, <1>3, <1>4, <1>5 DEF Row

\* A row and the next record are a row.
LEMMA LongerRow ==
  ASSUME NEW n \in Nat, NEW q \in Seq(Record), Row(q, n), NEW r \in Record, r.idx = n
  PROVE  /\ Append(q, r) \in Seq(Record) /\ Row(Append(q, r), n + 1)
         /\ Len(Append(q, r)) = Len(q) + 1
<1>1. Len(q) \in Nat /\ DOMAIN q = 1 .. Len(q)
  BY LenProperties
<1>2. /\ Append(q, r) \in Seq(Record) /\ Len(Append(q, r)) = Len(q) + 1
      /\ \A k \in 1 .. Len(q) : Append(q, r)[k] = q[k]
      /\ Append(q, r)[Len(q) + 1] = r
  BY AppendProperties
<1>3. DOMAIN Append(q, r) = 1 .. Len(q) + 1
  BY <1>2, LenProperties
<1> QED  BY <1>1, <1>2, <1>3 DEF Row
-----------------------------------------------------------------------------
(***************************************************************************)
(* What the operations on the buffers leave of a row.                      *)
(***************************************************************************)
RowOf(q, n) == q \in Seq(Record) /\ Row(q, n) /\ Len(q) <= Capacity

\* A row from the first record on that is to be kept, if there is one.
LEMMA DropFromRow ==
  ASSUME NEW n \in Nat, NEW q, RowOf(q, n), NEW kept \in SUBSET DOMAIN q
  PROVE  LET r == IF kept = {} THEN << >> ELSE SubSeq(q, Min(kept), Len(q))
         IN  RowOf(r, n) /\ Len(r) <= Len(q)
<1>1. q \in Seq(Record) /\ Len(q) \in Nat /\ DOMAIN q = 1 .. Len(q)
  BY LenProperties DEF RowOf
<1>2. CASE kept = {}
  <2>1. << >> \in Seq(Record) /\ Len(<< >>) = 0 /\ DOMAIN << >> = {}
    BY EmptySeq
  <2>2. RowOf(<< >>, n)
    BY <2>1, BufferAssumption DEF RowOf, Row
  <2> QED  BY <1>1, <1>2, <2>1, <2>2
<1>3. CASE kept # {}
  <2>1. kept \in SUBSET Nat
    BY <1>1
  <2>2. Min(kept) \in DOMAIN q
    BY <2>1, <1>3, MinOfNaturals
  <2> DEFINE r == SubSeq(q, Min(kept), Len(q))
  <2>3. r \in Seq(Record) /\ Row(r, n) /\ Len(r) <= Len(q)
    BY <1>1, <2>2, RestOfRow DEF RowOf
  <2>4. Len(r) \in Nat
    BY <2>3, LenProperties
  <2> HIDE DEF r
  <2>5. RowOf(r, n)
    BY <1>1, <2>3, <2>4, BufferAssumption DEF RowOf
  <2> QED  BY <1>3, <2>3, <2>5 DEF r
<1> QED  BY <1>2, <1>3

\* packet_history_push, packet_history_prune_older_than and delay_queue_push
\* turn a row into the row that ends with the new record.
LEMMA PushedRow ==
  ASSUME NEW n \in Nat, NEW q, RowOf(q, n), NEW r \in Record, r.idx = n
  PROVE  /\ RowOf(packet_history_push(q, r), n + 1)
         /\ RowOf(QueuePush(q, r), n + 1)
         /\ Len(QueuePush(q, r)) <= Len(q) + 1
<1>1. q \in Seq(Record) /\ Row(q, n) /\ Len(q) \in Nat /\ Len(q) <= Capacity
  BY LenProperties DEF RowOf
<1>2. CASE Len(q) < Capacity
  BY <1>1, <1>2, LongerRow, BufferAssumption
     DEF RowOf, packet_history_push, QueuePush
<1>3. CASE ~(Len(q) < Capacity)
  <2>1. q # << >>
    BY <1>1, <1>3, EmptySeq, BufferAssumption
  <2>2. Tail(q) \in Seq(Record) /\ Row(Tail(q), n) /\ Len(Tail(q)) = Len(q) - 1
    BY <1>1, <2>1, TailOfRow
  <2> DEFINE rest == Tail(q)
  <2> HIDE DEF rest
  <2>5. rest \in Seq(Record) /\ Row(rest, n) /\ Len(rest) = Len(q) - 1
    BY <2>2 DEF rest
  <2>6. /\ Append(rest, r) \in Seq(Record) /\ Row(Append(rest, r), n + 1)
        /\ Len(Append(rest, r)) = Len(rest) + 1
    BY <2>5, LongerRow
  <2>3. /\ Append(Tail(q), r) \in Seq(Record) /\ Row(Append(Tail(q), r), n + 1)
        /\ Len(Append(Tail(q), r)) = Len(q)
    BY <1>1, <2>5, <2>6 DEF rest
  <2>4. RowOf(Append(Tail(q), r), n + 1)
    BY <1>1, <2>3 DEF RowOf
  <2> QED  BY <1>1, <1>3, <2>3, <2>4 DEF packet_history_push, QueuePush, delay_queue_pop
<1> QED  BY <1>2, <1>3

\* Retention leaves a row up to the newest record.
LEMMA RetainedRow ==
  ASSUME NEW n \in Nat, NEW q, RowOf(q, n), NEW t
  PROVE  RowOf(Retained(q, t), n)
<1> DEFINE kept == {k \in DOMAIN q : ~(q[k].at < t - Retention)}
<1>1. RowOf(IF kept = {} THEN << >> ELSE SubSeq(q, Min(kept), Len(q)), n)
  BY DropFromRow
<1> QED  BY <1>1 DEF Retained, packet_history_prune_older_than, DropWhile

\* delay_queue_pop leaves a row up to the newest record.
LEMMA PoppedRow ==
  ASSUME NEW n \in Nat, NEW q, RowOf(q, n), q # << >>
  PROVE  /\ RowOf(delay_queue_pop(q), n) /\ Len(delay_queue_pop(q)) = Len(q) - 1
         /\ Head(q) \in Record /\ Head(q).idx = n - Len(q)
         /\ Len(q) \in Nat
<1>1. q \in Seq(Record) /\ Row(q, n) /\ Len(q) \in Nat /\ Len(q) <= Capacity
  BY LenProperties DEF RowOf
<1> HIDE DEF Row
<1>2. /\ Tail(q) \in Seq(Record) /\ Row(Tail(q), n) /\ Len(Tail(q)) = Len(q) - 1
      /\ Head(q) \in Record /\ Head(q).idx = n - Len(q)
  BY <1>1, TailOfRow
<1> QED  BY <1>1, <1>2, BufferAssumption DEF RowOf, delay_queue_pop
-----------------------------------------------------------------------------
(***************************************************************************)
(* Alignment.                                                              *)
(***************************************************************************)
\* The oldest of some records is one of them.
LEMMA OldestIsMember ==
  ASSUME NEW ms \in SUBSET Record, ms # {}
  PROVE  Oldest(ms) \in ms
<1> DEFINE S == {m.idx : m \in ms}
<1>1. S \in SUBSET Nat /\ S # {}
  BY DEF Record
<1>2. PICK m \in ms : m.idx = Min(S)
  BY <1>1, MinOfNaturals
<1>3. \A o \in ms : Min(S) <= o.idx
  BY <1>1, MinOfNaturals
<1> QED  BY <1>2, <1>3 DEF Oldest

\* A match gives an alignment, whichever stream it was found from.
LEMMA MatchAlignmentType ==
  ASSUME NEW s, NEW r \in Record, NEW m \in Record
  PROVE  update_alignment_from_match(s, r, m) \in Alignment
BY DEF update_alignment_from_match, Alignment, Record

\* A miss leaves an alignment: the confidence does not fall below zero.
LEMMA MissedType ==
  ASSUME NEW al \in Alignment, NEW probe \in BOOLEAN
  PROVE  Missed(al, probe) \in Alignment
<1>1. al.misses \in Nat /\ al.confidence \in 0 .. 100
  BY DEF Alignment
<1>2. CASE probe /\ al.misses + 1 >= MissLimit /\ al.confidence > 0
  <2>1. al.confidence - 1 \in 0 .. 100
    BY <1>1, <1>2
  <2>2. [al EXCEPT !.confidence = al.confidence - 1, !.misses = 0] \in Alignment
    BY <2>1 DEF Alignment
  <2> QED  BY <1>2, <2>2 DEF Missed
<1>3. CASE ~(probe /\ al.misses + 1 >= MissLimit /\ al.confidence > 0)
  BY <1>1, <1>3 DEF Missed, Alignment
<1> QED  BY <1>2, <1>3

\* update_alignment and update_pcr_timing keep confidence within 0 .. 100 and
\* every other field of the alignment in its type.
LEMMA AlignmentType ==
  ASSUME NEW al \in Alignment, NEW self, NEW other \in Seq(Record),
         NEW s \in Stream, NEW r \in Record
  PROVE  /\ update_alignment(al, self, other, s, r) \in Alignment
         /\ update_pcr_timing(al, other, s, r) \in Alignment
<1>0. Len(other) \in Nat /\ DOMAIN other = 1 .. Len(other)
      /\ \A k \in DOMAIN other : other[k] \in Record
  BY LenProperties, ElementOfSeq
<1>1. \A e, radius : ConfirmedNear(self, other, r, e, radius) \subseteq Record
  BY <1>0 DEF ConfirmedNear
<1>2. update_alignment(al, self, other, s, r) \in Alignment
  <2> DEFINE expected == IF s = 0 THEN r.idx + al.offset ELSE r.idx - al.offset
             aligned  == IF al.has
                         THEN ConfirmedNear(self, other, r, expected, BoundaryExtra) ELSE {}
             same     == ConfirmedNear(self, other, r, r.idx, BoundaryExtra)
             probe    == r.idx % ProbeInterval = 0
             wide     == IF probe THEN ConfirmedNear(self, other, r, r.idx, SearchRadius)
                         ELSE {}
             found    == IF aligned # {} THEN aligned ELSE IF same # {} THEN same ELSE wide
  <2>1. found \subseteq Record
    BY <1>1
  <2>2. probe \in BOOLEAN
    OBVIOUS
  <2> HIDE DEF found, probe
  <2>3. found # {} => update_alignment_from_match(s, r, Oldest(found)) \in Alignment
    BY <2>1, OldestIsMember, MatchAlignmentType
  <2>4. Missed(al, probe) \in Alignment
    BY <2>2, MissedType
  <2>5. update_alignment(al, self, other, s, r) =
          IF ~record_is_informative(r) THEN al
          ELSE IF found # {} THEN update_alignment_from_match(s, r, Oldest(found))
          ELSE Missed(al, probe)
    BY Zenon DEF update_alignment, found, probe
  <2> QED  BY <2>3, <2>4, <2>5
<1>3. update_pcr_timing(al, other, s, r) \in Alignment
  <2> DEFINE match == find_matching_pcr_record(other, r)
  <2>1. match \subseteq Record
    BY <1>0 DEF find_matching_pcr_record
  <2> HIDE DEF match
  <2>2. match # {} => update_alignment_from_match(s, r, CHOOSE x \in match : TRUE) \in Alignment
    BY <2>1, MatchAlignmentType
  <2> QED  BY <2>2 DEF update_pcr_timing, match
<1> QED  BY <1>2, <1>3
-----------------------------------------------------------------------------
(***************************************************************************)
(* What output_record leaves behind for the records rs.                    *)
(***************************************************************************)
\* The counter of a PID is a counter or unknown after any output.
LEMMA LastCCType ==
  ASSUME NEW cc \in [Pid -> CC \cup {NoCC}], NEW rs \in Seq(Record), NEW pid \in Pid
  PROVE  LastCC(cc, rs, pid) \in CC \cup {NoCC}
<1> DEFINE seen == {j \in DOMAIN rs : ~IsNull(rs[j]) /\ rs[j].pkt.pid = pid}
           last == CHOOSE j \in seen : \A k \in seen : k <= j
<1>1. Len(rs) \in Nat /\ DOMAIN rs = 1 .. Len(rs) /\ \A j \in DOMAIN rs : rs[j] \in Record
  BY LenProperties, ElementOfSeq
<1>2. CASE seen = {}
  BY <1>2 DEF LastCC
<1>3. CASE seen # {}
  <2>1. seen \in SUBSET (0 .. Len(rs))
    BY <1>1
  <2> HIDE DEF seen
  <2>2. \E j \in seen : \A k \in seen : k <= j
    BY <2>1, <1>1, <1>3, MaxOfNaturals
  <2>3. last \in seen
    BY <2>2
  <2> HIDE DEF last
  <2>4. rs[last] \in Record
    BY <2>3, <1>1 DEF seen
  <2>5. rs[last].pkt.cc \in CC
    BY <2>4 DEF Record, Packet
  <2> QED  BY <2>5, <1>3 DEF LastCC, seen, last
<1> QED  BY <1>2, <1>3

\* The last index output on a stream is an index or unknown after any output.
LEMMA LastOutputType ==
  ASSUME last_output \in [Stream -> Nat \cup {NoOutput}], NEW rs \in Seq(Record)
  PROVE  last_output_after(rs) \in [Stream -> Nat \cup {NoOutput}]
<1>1. Len(rs) \in Nat /\ DOMAIN rs = 1 .. Len(rs) /\ \A j \in DOMAIN rs : rs[j] \in Record
  BY LenProperties, ElementOfSeq
<1>2. ASSUME NEW s \in Stream
      PROVE  LET mine == {j \in DOMAIN rs : rs[j].src = s}
             IN  (IF mine = {} THEN last_output[s] ELSE rs[Max(mine)].idx)
                   \in Nat \cup {NoOutput}
  <2> DEFINE mine == {j \in DOMAIN rs : rs[j].src = s}
  <2>1. mine \in SUBSET (0 .. Len(rs))
    BY <1>1
  <2>2. mine # {} => Max(mine) \in DOMAIN rs
    BY <2>1, <1>1, MaxOfNaturals
  <2> HIDE DEF mine
  <2>3. mine # {} => rs[Max(mine)].idx \in Nat
    BY <2>2, <1>1 DEF Record
  <2> QED  BY <2>3 DEF mine
<1> QED  BY <1>2 DEF last_output_after

\* A set of places in a sequence is finite and no larger than its length.
LEMMA PlacesCount ==
  ASSUME NEW S, NEW q \in Seq(S), NEW P \in SUBSET DOMAIN q
  PROVE  Cardinality(P) \in Nat /\ Cardinality(P) <= Len(q)
<1>1. Len(q) \in Nat /\ DOMAIN q = 1 .. Len(q)
  BY LenProperties
<1>2. IsFiniteSet(1 .. Len(q)) /\ Cardinality(1 .. Len(q)) = Len(q)
  <2> DEFINE n == Len(q)
  <2>1. n \in Nat
    BY <1>1
  <2> HIDE DEF n
  <2>2. IsFiniteSet(1 .. n) /\ Cardinality(1 .. n) = IF 1 > n THEN 0 ELSE n - 1 + 1
    BY <2>1, FS_Interval
  <2> QED  BY <2>1, <2>2 DEF n
<1>3. IsFiniteSet(P) /\ Cardinality(P) <= Len(q)
  BY <1>1, <1>2, FS_Subset
<1> QED  BY <1>3, FS_CardinalityType

\* Counting keeps the counters natural numbers.
LEMMA CountType ==
  ASSUME NEW st \in Stats, NEW c \in Counter, NEW n \in Nat
  PROVE  Count(st, c, n) \in Stats
BY DEF Count, Stats

\* The counters of observe_output_record stay natural numbers.
LEMMA OutputStatsType ==
  ASSUME NEW st \in Stats, NEW rs \in Seq(Record)
  PROVE  OutputStats(st, rs) \in Stats
<1>1. CountBreaks(rs) \in Nat /\ CountRepeats(rs) \in Nat
  BY PlacesCount DEF CountBreaks, CountRepeats, Checked
<1>2. "output_continuity_errors" \in Counter /\ "output_duplicate_counters" \in Counter
  BY DEF Counter
<1> QED  BY <1>1, <1>2, CountType DEF OutputStats

\* The counters of recovery and of rejects stay natural numbers.
LEMMA DecisionStatsType ==
  ASSUME NEW st \in Stats, NEW d \in Decision
  PROVE  DecisionStats(st, d) \in Stats
<1> DEFINE nulls == Cardinality({j \in DOMAIN d.rs : IsNull(d.rs[j])})
           rejected == IF d.kind = "reject" THEN 1 ELSE 0
<1>1. d.rs \in Seq(Record) /\ d.loss \in Nat /\ rejected \in Nat
  BY DEF Decision
<1>2. nulls \in Nat /\ nulls <= Len(d.rs) /\ Len(d.rs) \in Nat
  BY <1>1, PlacesCount, LenProperties
<1> HIDE DEF nulls, rejected
<1>3. Len(d.rs) - nulls \in Nat
  BY <1>2
<1>4. {"rejects", "unrecoverable_loss", "recovered", "recovered_null"} \subseteq Counter
  BY DEF Counter
<1>5. Count(Count(st, "rejects", rejected), "unrecoverable_loss", d.loss) \in Stats
  BY <1>1, <1>4, CountType
<1> QED  BY <1>2, <1>3, <1>4, <1>5, CountType DEF DecisionStats, nulls, rejected

\* The counters of set_active_output_stream stay natural numbers.
LEMMA SwitchedType ==
  ASSUME NEW st \in Stats, NEW s \in Stream
  PROVE  Switched(st, s) \in Stats
<1>1. {"source_switches_0", "source_switches_1"} \subseteq Counter
  BY DEF Counter
<1> QED  BY <1>1, CountType DEF Switched
-----------------------------------------------------------------------------
(***************************************************************************)
(* The output.                                                             *)
(***************************************************************************)
\* What passed on stream s is in order.
InOrder(o, s) ==
  \A i, j \in DOMAIN o :
    i < j /\ o[i].via \in PassedOn(s) /\ o[j].via \in PassedOn(s) => o[i].slot < o[j].slot

\* What passed on stream s arrived before its packet number b.
Below(o, s, b) == \A i \in DOMAIN o : o[i].via \in PassedOn(s) => o[i].slot < b

\* Sending something of stream s other than its packet b as the last changes
\* nothing of the order.
LEMMA AppendOutput ==
  ASSUME NEW o \in Seq(Output), NEW new \in Seq(Output), NEW s \in Stream, NEW b \in Int,
         InOrder(o, s), Below(o, s, b),
         \A j \in DOMAIN new :
            new[j].via \in PassedOn(s) => j = Len(new) /\ new[j].slot = b
  PROVE  /\ o \o new \in Seq(Output)
         /\ InOrder(o \o new, s)
         /\ Below(o \o new, s, b + 1)
         /\ (\A j \in DOMAIN new : new[j].via \notin PassedOn(s)) => Below(o \o new, s, b)
<1> DEFINE x == o \o new
<1>1. /\ Len(o) \in Nat /\ DOMAIN o = 1 .. Len(o)
      /\ Len(new) \in Nat /\ DOMAIN new = 1 .. Len(new)
      /\ \A i \in DOMAIN o : o[i] \in Output
  BY LenProperties, ElementOfSeq
<1>2. /\ x \in Seq(Output) /\ Len(x) = Len(o) + Len(new)
      /\ \A i \in 1 .. Len(o) + Len(new) :
            x[i] = IF i <= Len(o) THEN o[i] ELSE new[i - Len(o)]
  BY ConcatProperties
<1>3. DOMAIN x = 1 .. Len(o) + Len(new)
  BY <1>2, LenProperties
<1> HIDE DEF x
<1>4. \A i \in DOMAIN x : \/ i \in DOMAIN o /\ x[i] = o[i]
                         \/ /\ i > Len(o) /\ i - Len(o) \in DOMAIN new
                            /\ x[i] = new[i - Len(o)]
  BY <1>1, <1>2, <1>3
<1>5. \A i \in DOMAIN o : o[i].slot \in Nat
  BY <1>1 DEF Output
<1>6. ASSUME NEW i \in DOMAIN x, x[i].via \in PassedOn(s)
      PROVE  \/ i \in DOMAIN o /\ x[i] = o[i] /\ x[i].slot < b
             \/ i = Len(x) /\ i > Len(o) /\ x[i].slot = b
  BY <1>1, <1>2, <1>4, <1>6 DEF Below
<1>7. InOrder(x, s)
  <2>1. SUFFICES ASSUME NEW i \in DOMAIN x, NEW j \in DOMAIN x, i < j,
                        x[i].via \in PassedOn(s), x[j].via \in PassedOn(s)
                 PROVE  x[i].slot < x[j].slot
    BY DEF InOrder
  <2>2. i \in DOMAIN o /\ x[i] = o[i] /\ x[i].slot < b
    BY <1>1, <1>2, <1>3, <1>6, <2>1
  <2>3. CASE j \in DOMAIN o /\ x[j] = o[j]
    BY <2>1, <2>2, <2>3 DEF InOrder
  <2>4. CASE x[j].slot = b
    BY <2>2, <2>4
  <2> QED  BY <1>6, <2>1, <2>3, <2>4
<1>8. Below(x, s, b + 1)
  BY <1>1, <1>5, <1>6 DEF Below
<1>9. ASSUME \A j \in DOMAIN new : new[j].via \notin PassedOn(s)
      PROVE  Below(x, s, b)
  BY <1>4, <1>9 DEF Below
<1> QED  BY <1>2, <1>7, <1>8, <1>9 DEF x
\* The entries of out for the first n of the records rs.
Entries(rs, via, slot, n) == [j \in 1 .. n |-> [rec |-> rs[j], via |-> via[j], slot |-> slot]]

\* The entries that a call of output_record adds to the output are of its type.
LEMMA EntriesType ==
  ASSUME NEW rs \in Seq(Record), NEW via \in [1 .. Len(rs) -> Via], NEW slot \in Nat,
         NEW n \in 0 .. Len(rs)
  PROVE  /\ Entries(rs, via, slot, n) \in Seq(Output)
         /\ Len(Entries(rs, via, slot, n)) = n
         /\ DOMAIN Entries(rs, via, slot, n) = 1 .. n
         /\ \A j \in 1 .. n : /\ Entries(rs, via, slot, n)[j].via = via[j]
                              /\ Entries(rs, via, slot, n)[j].slot = slot
<1> DEFINE e == Entries(rs, via, slot, n)
<1>1. Len(rs) \in Nat /\ n \in Nat /\ \A j \in 1 .. Len(rs) : rs[j] \in Record
  BY LenProperties, ElementOfSeq
<1>2. \A j \in 1 .. n : [rec |-> rs[j], via |-> via[j], slot |-> slot] \in Output
  <2>1. \A j \in 1 .. n : j \in 1 .. Len(rs)
    BY <1>1
  <2> QED  BY <1>1, <2>1 DEF Output
<1>3. e \in [1 .. n -> Output]
  BY <1>2 DEF Entries
<1>4. e \in Seq(Output) /\ DOMAIN e = 1 .. n
  BY <1>1, <1>3
<1>5. Len(e) = n
  <2>1. Len(e) \in Nat /\ 1 .. Len(e) = 1 .. n
    BY <1>4, LenProperties
  <2> HIDE DEF e
  <2> QED  BY <2>1, <1>1
<1> QED  BY <1>4, <1>5 DEF Entries

\* What a turn of the loop over the primary queue sends for p: the packet that
\* stands for p comes last, and everything in front of it is recovered.
LEMMA SentType ==
  ASSUME NEW d \in Decision, NEW p \in Record,
         Replaced(d, p) => Len(d.rs) = 1
  PROVE  /\ Sent(d, p) \in Seq(Record)
         /\ Len(Sent(d, p)) \in Nat \ {0}
         /\ SentVia(d, p) \in [1 .. Len(Sent(d, p)) -> Via]
         /\ \A j \in 1 .. Len(Sent(d, p)) :
               /\ SentVia(d, p)[j] # "outage"
               /\ SentVia(d, p)[j] \in {"primary", "tei"} => j = Len(Sent(d, p))
<1>1. d.rs \in Seq(Record) /\ Len(d.rs) \in Nat
  BY LenProperties DEF Decision
<1>2. CASE Replaced(d, p)
  <2>1. Sent(d, p) = d.rs
    BY <1>2 DEF Sent
  <2>2. SentVia(d, p) = [j \in 1 .. Len(d.rs) |-> "tei"]
    BY <1>2, <2>1 DEF SentVia
  <2>3. Len(Sent(d, p)) = 1 /\ Sent(d, p) \in Seq(Record)
    BY <1>1, <1>2, <2>1
  <2>4. SentVia(d, p) = [j \in 1 .. 1 |-> "tei"]
    BY <1>2, <2>2
  <2>5. \A j \in 1 .. 1 : SentVia(d, p)[j] = "tei"
    BY <2>4
  <2>6. SentVia(d, p) \in [1 .. 1 -> Via]
    BY <2>4 DEF Via
  <2> QED  BY <2>3, <2>5, <2>6
<1>3. CASE ~Replaced(d, p)
  <2>1. Sent(d, p) = Append(d.rs, p)
    BY <1>3 DEF Sent
  <2>2. Sent(d, p) \in Seq(Record) /\ Len(Sent(d, p)) = Len(d.rs) + 1
    BY <1>1, <2>1, AppendProperties
  <2>3. SentVia(d, p) = [j \in 1 .. Len(Sent(d, p)) |->
                           IF j <= Len(d.rs) THEN "recovery" ELSE "primary"]
    BY <1>3 DEF SentVia
  <2> QED  BY <1>1, <2>2, <2>3 DEF Via
<1> QED  BY <1>2, <1>3
-----------------------------------------------------------------------------
(***************************************************************************)
(* The inductive invariant.  HistoryIsRecent and OutputInOrder are stated  *)
(* with the place in the stream that the front of each queue has, also     *)
(* when the queue is empty: everything sent on lies before it.             *)
(***************************************************************************)
Rows == \A s \in Stream : RowOf(history[s], next_index[s]) /\ RowOf(queue[s], next_index[s])

Front(s) == next_index[s] - Len(queue[s])

SentInOrder == \A s \in Stream : InOrder(out, s) /\ Below(out, s, Front(s))

EngineInv == TypeOK /\ Rows /\ SentInOrder

\* The slot of an output entry is an index of its stream.
LEMMA SlotType ==
  ASSUME EngineInv, NEW i \in DOMAIN out
  PROVE  out[i].slot \in Nat
<1>1. out \in Seq(Output)
  BY DEF EngineInv, TypeOK
<1>2. out[i] \in Output
  BY <1>1, LenProperties, ElementOfSeq
<1> QED  BY <1>2 DEF Output

\* The invariant has the two properties as consequences.
LEMMA EngineInvImplies ==
  ASSUME EngineInv
  PROVE  HistoryIsRecent /\ OutputInOrder
<1>1. HistoryIsRecent
  BY DEF EngineInv, Rows, RowOf, Row, HistoryIsRecent, NewestOf
<1>2. ASSUME NEW s \in Stream, NEW i \in DOMAIN out, NEW k \in DOMAIN queue[s],
             out[i].via \in PassedOn(s)
      PROVE  out[i].slot < queue[s][k].idx
  <2>1. Len(queue[s]) \in Nat /\ k \in 1 .. Len(queue[s]) /\ next_index[s] \in Nat
    BY LenProperties DEF EngineInv, TypeOK
  <2>2. queue[s][k].idx = next_index[s] - Len(queue[s]) + k - 1
    BY DEF EngineInv, Rows, RowOf, Row
  <2>3. out[i].slot < next_index[s] - Len(queue[s])
    BY <1>2 DEF EngineInv, SentInOrder, Below, Front
  <2>4. out[i].slot \in Nat
    BY SlotType
  <2> QED  BY <2>1, <2>2, <2>3, <2>4
<1>3. OutputInOrder
  BY <1>2 DEF EngineInv, SentInOrder, InOrder, OutputInOrder
<1> QED  BY <1>1, <1>3

\* It holds when the engine has been set up.
LEMMA EngineInvInit ==
  ASSUME Init
  PROVE  EngineInv
<1>1. << >> \in Seq(Record) /\ << >> \in Seq(Output) /\ Len(<< >>) = 0 /\ DOMAIN << >> = {}
  BY EmptySeq
<1>2. TypeOK
  <2>1. align \in Alignment /\ anchor \in Anchor
    BY DEF Init, Alignment, Anchor
  <2>2. stats \in Stats
    BY DEF Init, Stats
  <2>3. /\ now \in Nat \ {0} /\ active \in Stream /\ return_start \in Nat
        /\ next_index \in [Stream -> Nat] /\ last_arrival \in [Stream -> Nat]
        /\ last_output \in [Stream -> Nat \cup {NoOutput}]
        /\ in_cc \in [Stream -> [Pid -> CC \cup {NoCC}]]
        /\ out_cc \in [Pid -> CC \cup {NoCC}]
    BY DEF Init, Stream
  <2> QED  BY <1>1, <2>1, <2>2, <2>3 DEF Init, TypeOK
<1>3. Rows
  <2>1. RowOf(<< >>, 0)
    BY <1>1, BufferAssumption DEF RowOf, Row
  <2> QED  BY <2>1 DEF Init, Rows
<1>4. SentInOrder
  BY <1>1 DEF Init, SentInOrder, InOrder, Below
<1> QED  BY <1>2, <1>3, <1>4 DEF EngineInv
-----------------------------------------------------------------------------
(***************************************************************************)
(* Steps that send nothing and at most take records off the queues.        *)
(***************************************************************************)
LEMMA Discarding ==
  ASSUME EngineInv, UNCHANGED <<history, next_index, out>>,
         queue' \in [Stream -> Seq(Record)],
         \A s \in Stream : /\ RowOf(queue'[s], next_index[s])
                           /\ Len(queue'[s]) <= Len(queue[s])
  PROVE  Rows' /\ SentInOrder'
<1>1. Rows'
  BY DEF EngineInv, Rows
<1>2. ASSUME NEW s \in Stream
      PROVE  InOrder(out', s) /\ Below(out', s, Front(s)')
  <2>1. InOrder(out, s) /\ Below(out, s, Front(s))
    BY DEF EngineInv, SentInOrder
  <2>2. /\ Len(queue[s]) \in Nat /\ Len(queue'[s]) \in Nat /\ next_index[s] \in Nat
        /\ \A i \in DOMAIN out : out[i].slot \in Nat
    <3>1. /\ queue[s] \in Seq(Record) /\ queue'[s] \in Seq(Record)
          /\ next_index[s] \in Nat
      BY DEF EngineInv, TypeOK
    <3> QED  BY <3>1, LenProperties, SlotType
  <2>3. Front(s) <= Front(s)' /\ Front(s) \in Int /\ Front(s)' \in Int
    BY <2>2 DEF Front
  <2> QED  BY <2>1, <2>2, <2>3 DEF Below
<1> QED  BY <1>1, <1>2 DEF SentInOrder

\* What the two discard loops leave of the queues.
LEMMA KeptRows ==
  ASSUME EngineInv
  PROVE  /\ RowOf(KeptPrimary, next_index[0]) /\ Len(KeptPrimary) <= Len(queue[0])
         /\ RowOf(KeptSecondary, next_index[1]) /\ Len(KeptSecondary) <= Len(queue[1])
         /\ RowOf(<< >>, next_index[0]) /\ Len(<< >>) <= Len(queue[0])
<1>1. /\ RowOf(queue[0], next_index[0]) /\ RowOf(queue[1], next_index[1])
      /\ next_index[0] \in Nat /\ next_index[1] \in Nat
  BY DEF EngineInv, Rows, TypeOK, Stream
<1>2. RowOf(KeptPrimary, next_index[0]) /\ Len(KeptPrimary) <= Len(queue[0])
  <2> DEFINE kept == {k \in DOMAIN queue[0] :
                        ~primary_record_already_output_by_secondary(queue[0][k])}
  <2>1. kept \in SUBSET DOMAIN queue[0]
    OBVIOUS
  <2>2. KeptPrimary = IF kept = {} THEN << >>
                      ELSE SubSeq(queue[0], Min(kept), Len(queue[0]))
    BY DEF KeptPrimary, DropWhile
  <2> HIDE DEF kept
  <2> QED  BY <1>1, <2>1, <2>2, DropFromRow
<1>3. RowOf(KeptSecondary, next_index[1]) /\ Len(KeptSecondary) <= Len(queue[1])
  <2> DEFINE kept == {k \in DOMAIN queue[1] : ~(queue[1][k].idx <= SecondaryCutoff)}
  <2>1. kept \in SUBSET DOMAIN queue[1]
    OBVIOUS
  <2>2. KeptSecondary = IF kept = {} THEN << >>
                        ELSE SubSeq(queue[1], Min(kept), Len(queue[1]))
    BY DEF KeptSecondary, DropWhile
  <2> HIDE DEF kept
  <2> QED  BY <1>1, <2>1, <2>2, DropFromRow
<1>4. RowOf(<< >>, next_index[0]) /\ Len(<< >>) <= Len(queue[0])
  <2>1. {} \in SUBSET DOMAIN queue[0]
    OBVIOUS
  <2> QED  BY <1>1, <2>1, DropFromRow
<1> QED  BY <1>2, <1>3, <1>4

\* Entering the outage loop keeps the queues rows behind what was sent.
LEMMA EnterOutageStep ==
  ASSUME EngineInv, NEW pq, RowOf(pq, next_index[0]), Len(pq) <= Len(queue[0]),
         EnterOutage(pq), UNCHANGED <<history, next_index, out>>
  PROVE  /\ queue' \in [Stream -> Seq(Record)]
         /\ Rows' /\ SentInOrder'
         /\ pc' \in {"idle", "secondary", "stopped"}
<1>1. queue \in [Stream -> Seq(Record)] /\ Len(queue[1]) \in Nat
  BY LenProperties DEF EngineInv, TypeOK, Stream
<1>2. pc' \in {"idle", "secondary", "stopped"}
  BY DEF EnterOutage, Returned
<1>3. RowOf(queue[1], next_index[1])
  BY DEF EngineInv, Rows, Stream
<1>4. /\ queue'[0] = pq
      /\ \/ queue'[1] = KeptSecondary
         \/ queue'[1] = queue[1]
      /\ queue' \in [Stream -> Seq(Record)]
  BY <1>1, KeptRows DEF EnterOutage, RowOf, Stream
<1>5. \A s \in Stream : /\ RowOf(queue'[s], next_index[s])
                        /\ Len(queue'[s]) <= Len(queue[s])
  BY <1>1, <1>3, <1>4, KeptRows DEF Stream
<1> QED  BY <1>2, <1>4, <1>5, Discarding
-----------------------------------------------------------------------------
(***************************************************************************)
(* recovery_engine_push_packet.                                            *)
(***************************************************************************)
\* observe_input_path_gap counts with a natural number.
LEMMA SecondaryGapType ==
  ASSUME NEW s, NEW r
  PROVE  SecondaryGap(s, r) \in Nat
<1>1. \A cc : infer_missing_from_cc(cc, r) \subseteq Nat
  BY CounterGapType
<1> QED  BY <1>1 DEF SecondaryGap

\* recovery_engine_push_packet keeps the invariant.
LEMMA PushStep ==
  ASSUME EngineInv, NEW s \in Stream, NEW pkt \in Packet, PushPacket(s, pkt)
  PROVE  EngineInv'
<1> DEFINE r == [pkt |-> pkt, src |-> s, idx |-> next_index[s], at |-> now]
           self == Retained(packet_history_push(history[s], r), now)
           other == history[1 - s]
<1>1. /\ next_index \in [Stream -> Nat] /\ next_index[s] \in Nat
      /\ history \in [Stream -> Seq(Record)] /\ queue \in [Stream -> Seq(Record)]
      /\ now \in Nat /\ align \in Alignment /\ other \in Seq(Record)
      /\ stats \in Stats /\ last_arrival \in [Stream -> Nat]
      /\ in_cc \in [Stream -> [Pid -> CC \cup {NoCC}]]
  BY DEF EngineInv, TypeOK, Stream
<1>2. r \in Record /\ r.idx = next_index[s]
  BY <1>1 DEF Record
<1>3. RowOf(history[s], next_index[s]) /\ RowOf(queue[s], next_index[s])
  BY DEF EngineInv, Rows
<1> HIDE DEF r
<1>4. /\ RowOf(self, next_index[s] + 1)
      /\ RowOf(QueuePush(queue[s], r), next_index[s] + 1)
      /\ Len(QueuePush(queue[s], r)) <= Len(queue[s]) + 1
  <2>1. /\ RowOf(packet_history_push(history[s], r), next_index[s] + 1)
        /\ RowOf(QueuePush(queue[s], r), next_index[s] + 1)
        /\ Len(QueuePush(queue[s], r)) <= Len(queue[s]) + 1
    BY <1>1, <1>2, <1>3, PushedRow
  <2>2. next_index[s] + 1 \in Nat
    BY <1>1
  <2> QED  BY <2>1, <2>2, RetainedRow
<1> HIDE DEF self, other
<1>5. /\ history' = [history EXCEPT ![s] = self]
      /\ queue' = [queue EXCEPT ![s] = QueuePush(queue[s], r)]
      /\ next_index' = [next_index EXCEPT ![s] = next_index[s] + 1]
      /\ out' = out
  BY DEF PushPacket, self, r
<1>6. /\ history' \in [Stream -> Seq(Record)] /\ queue' \in [Stream -> Seq(Record)]
      /\ next_index' \in [Stream -> Nat]
  BY <1>1, <1>4, <1>5 DEF RowOf
<1>7. align' \in Alignment
  <2>1. update_pcr_timing(align, other, s, r) \in Alignment
    BY <1>1, <1>2, AlignmentType
  <2>2. update_alignment(update_pcr_timing(align, other, s, r), self, other, s, r) \in Alignment
    BY <1>1, <1>2, <2>1, AlignmentType
  <2> QED  BY <2>2 DEF PushPacket, self, other, r
<1>8. stats' \in Stats
  <2>1. {"secondary_missing", "primary_delay_overflows"} \subseteq Counter
    BY DEF Counter
  <2>2. Count(stats, "secondary_missing", SecondaryGap(s, r)) \in Stats
    BY <1>1, <2>1, SecondaryGapType, CountType
  <2> DEFINE over == IF s = 0 /\ Len(queue[0]) >= Capacity THEN 1 ELSE 0
  <2>3. over \in Nat
    OBVIOUS
  <2> HIDE DEF over
  <2>4. Count(Count(stats, "secondary_missing", SecondaryGap(s, r)),
              "primary_delay_overflows", over) \in Stats
    BY <2>1, <2>2, <2>3, CountType
  <2> QED  BY <2>4 DEF PushPacket, over, r
<1>9. in_cc' \in [Stream -> [Pid -> CC \cup {NoCC}]]
  <2>1. in_cc' = in_cc \/ in_cc' = [in_cc EXCEPT ![s] = [in_cc[s] EXCEPT ![pkt.pid] = pkt.cc]]
    BY DEF PushPacket
  <2>2. pkt.pid \in Pid /\ pkt.cc \in CC
    BY DEF Packet
  <2>3. [in_cc[s] EXCEPT ![pkt.pid] = pkt.cc] \in [Pid -> CC \cup {NoCC}]
    BY <1>1, <2>2
  <2> QED  BY <1>1, <2>1, <2>3
<1>10. TypeOK'
  <2>1. last_arrival' \in [Stream -> Nat]
    BY <1>1 DEF PushPacket
  <2>2. pc' = "drain" /\ force' = FALSE
        /\ UNCHANGED <<now, last_output, active, return_start, anchor, out_cc, out>>
    BY DEF PushPacket
  <2> QED  BY <1>6, <1>7, <1>8, <1>9, <2>1, <2>2 DEF EngineInv, TypeOK
<1>11. Rows'
  <2>1. ASSUME NEW x \in Stream
        PROVE  RowOf(history'[x], next_index'[x]) /\ RowOf(queue'[x], next_index'[x])
    <3>1. CASE x = s
      BY <1>1, <1>4, <1>5, <3>1
    <3>2. CASE x # s
      BY <1>1, <1>5, <3>2 DEF EngineInv, Rows
    <3> QED  BY <3>1, <3>2
  <2> QED  BY <2>1 DEF Rows
<1>12. SentInOrder'
  <2>1. ASSUME NEW x \in Stream
        PROVE  InOrder(out', x) /\ Below(out', x, Front(x)')
    <3>1. InOrder(out, x) /\ Below(out, x, Front(x))
      BY DEF EngineInv, SentInOrder
    <3>2. Len(queue[x]) \in Nat /\ Len(queue'[x]) \in Nat /\ next_index[x] \in Nat
      BY <1>1, <1>6, LenProperties
    <3>3. Front(x) <= Front(x)' /\ Front(x) \in Int /\ Front(x)' \in Int
      <4>1. CASE x = s
        BY <1>1, <1>4, <1>5, <3>2, <4>1, SMTT(30) DEF Front
      <4>2. CASE x # s
        BY <1>1, <1>5, <3>2, <4>2 DEF Front
      <4> QED  BY <4>1, <4>2
    <3>4. \A i \in DOMAIN out : out[i].slot \in Nat
      BY SlotType
    <3> QED  BY <1>5, <3>1, <3>3, <3>4 DEF Below
  <2> QED  BY <2>1 DEF SentInOrder
<1> QED  BY <1>10, <1>11, <1>12 DEF EngineInv
-----------------------------------------------------------------------------
(***************************************************************************)
(* The steps that send.                                                    *)
(***************************************************************************)
\* What the decision reads of the engine is of its type.
LEMMA ViewType ==
  ASSUME EngineInv
  PROVE  View \in EngineView
BY DEF EngineInv, TypeOK, View, EngineView

\* What output_record writes, for records rs sent for the place slot.
LEMMA OutputType ==
  ASSUME EngineInv, NEW rs \in Seq(Record), NEW via, NEW slot, OutputRecords(rs, via, slot)
  PROVE  /\ out' = out \o Entries(rs, via, slot, Len(rs))
         /\ out_cc' \in [Pid -> CC \cup {NoCC}]
         /\ last_output' \in [Stream -> Nat \cup {NoOutput}]
<1>1. DOMAIN rs = 1 .. Len(rs)
  BY LenProperties
<1>2. out' = out \o Entries(rs, via, slot, Len(rs))
  BY <1>1 DEF OutputRecords, Entries
<1>3. out_cc \in [Pid -> CC \cup {NoCC}] /\ last_output \in [Stream -> Nat \cup {NoOutput}]
  BY DEF EngineInv, TypeOK
<1>4. out_cc' \in [Pid -> CC \cup {NoCC}]
  BY <1>3, LastCCType DEF OutputRecords
<1>5. last_output' \in [Stream -> Nat \cup {NoOutput}]
  BY <1>3, LastOutputType DEF OutputRecords
<1> QED  BY <1>2, <1>4, <1>5

\* Taking the front record of queue s off and sending it last keeps the order.
LEMMA Sending ==
  ASSUME EngineInv, NEW s \in Stream, queue[s] # << >>,
         UNCHANGED <<history, next_index>>,
         queue' = [queue EXCEPT ![s] = delay_queue_pop(@)],
         NEW new \in Seq(Output), out' = out \o new,
         \A j \in DOMAIN new :
            /\ new[j].via \in PassedOn(s) => j = Len(new) /\ new[j].slot = Head(queue[s]).idx
            /\ new[j].via \notin PassedOn(1 - s)
  PROVE  /\ queue' \in [Stream -> Seq(Record)] /\ out' \in Seq(Output)
         /\ Rows' /\ SentInOrder'
<1>1. /\ queue \in [Stream -> Seq(Record)] /\ out \in Seq(Output)
      /\ next_index \in [Stream -> Nat]
  BY DEF EngineInv, TypeOK
<1>2. RowOf(queue[s], next_index[s])
  BY DEF EngineInv, Rows
<1>3. /\ RowOf(delay_queue_pop(queue[s]), next_index[s])
      /\ Len(delay_queue_pop(queue[s])) = Len(queue[s]) - 1
      /\ Head(queue[s]).idx = next_index[s] - Len(queue[s])
      /\ Len(queue[s]) \in Nat
  BY <1>1, <1>2, PoppedRow
<1>4. queue' \in [Stream -> Seq(Record)]
  BY <1>1, <1>3 DEF RowOf
<1>5. Rows'
  <2>1. ASSUME NEW x \in Stream
        PROVE  RowOf(history'[x], next_index'[x]) /\ RowOf(queue'[x], next_index'[x])
    BY <1>1, <1>3 DEF EngineInv, Rows
  <2> QED  BY <2>1 DEF Rows
<1>6. ASSUME NEW x \in Stream
      PROVE  /\ out' \in Seq(Output) /\ InOrder(out', x) /\ Below(out', x, Front(x)')
  <2>1. InOrder(out, x) /\ Below(out, x, Front(x)) /\ Front(x) \in Int
    <3>1. queue[x] \in Seq(Record) /\ next_index[x] \in Nat
      BY <1>1
    <3>2. Len(queue[x]) \in Nat
      BY <3>1, LenProperties
    <3> QED  BY <3>1, <3>2 DEF EngineInv, SentInOrder, Front
  <2>2. CASE x = s
    <3>1. Front(x) = Head(queue[s]).idx /\ Front(x)' = Front(x) + 1
      BY <1>1, <1>3, <2>2 DEF Front
    <3>2. \A j \in DOMAIN new :
            new[j].via \in PassedOn(x) => j = Len(new) /\ new[j].slot = Front(x)
      BY <3>1, <2>2
    <3> QED  BY <1>1, <2>1, <3>1, <3>2, AppendOutput
  <2>3. CASE x # s
    <3>1. x = 1 - s /\ Front(x)' = Front(x)
      BY <1>1, <2>3 DEF Front, Stream
    <3>2. \A j \in DOMAIN new : new[j].via \notin PassedOn(x)
      BY <3>1
    <3> QED  BY <1>1, <2>1, <3>1, <3>2, AppendOutput
  <2> QED  BY <2>2, <2>3
<1>7. out' \in Seq(Output)
  BY <1>6 DEF Stream
<1> QED  BY <1>4, <1>5, <1>6, <1>7 DEF SentInOrder
\* The packet at the front of the primary queue, and what is decided for it.
LEMMA FrontDecision ==
  ASSUME EngineInv, queue[0] # << >>
  PROVE  LET p == Head(queue[0])
             d == Decide(View, p)
         IN  /\ p \in Record
             /\ d \in Decision /\ (Replaced(d, p) => Len(d.rs) = 1)
             /\ Sent(d, p) \in Seq(Record) /\ Len(Sent(d, p)) \in Nat \ {0}
             /\ SentVia(d, p) \in [1 .. Len(Sent(d, p)) -> Via]
             /\ \A j \in 1 .. Len(Sent(d, p)) :
                   /\ SentVia(d, p)[j] # "outage"
                   /\ SentVia(d, p)[j] \in {"primary", "tei"} => j = Len(Sent(d, p))
<1> DEFINE p == Head(queue[0])
           d == Decide(View, p)
<1>1. p \in Record
  BY HeadTailProperties DEF EngineInv, TypeOK, Stream
<1> HIDE DEF p
<1>2. d \in Decision /\ (Replaced(d, p) => Len(d.rs) = 1)
  BY <1>1, ViewType, DecideType DEF Replaced
<1> HIDE DEF d
<1>3. /\ Sent(d, p) \in Seq(Record) /\ Len(Sent(d, p)) \in Nat \ {0}
      /\ SentVia(d, p) \in [1 .. Len(Sent(d, p)) -> Via]
      /\ \A j \in 1 .. Len(Sent(d, p)) :
            /\ SentVia(d, p)[j] # "outage"
            /\ SentVia(d, p)[j] \in {"primary", "tei"} => j = Len(Sent(d, p))
  BY <1>1, <1>2, SentType
<1> QED  BY <1>1, <1>2, <1>3 DEF p, d

\* A turn of the loop over the primary queue keeps the invariant.
LEMMA PrimaryStepInv ==
  ASSUME EngineInv, PrimaryStep
  PROVE  EngineInv'
<1> DEFINE p == Head(queue[0])
           d == Decide(View, p)
           rs == Sent(d, p)
           via == SentVia(d, p)
           new == Entries(rs, via, p.idx, Len(rs))
<1>0. queue[0] # << >>
  BY DEF PrimaryStep
<1>1. /\ p \in Record /\ p.idx \in Nat /\ d \in Decision
      /\ rs \in Seq(Record) /\ Len(rs) \in Nat \ {0}
      /\ via \in [1 .. Len(rs) -> Via]
      /\ \A j \in 1 .. Len(rs) : /\ via[j] # "outage"
                                 /\ via[j] \in {"primary", "tei"} => j = Len(rs)
  BY <1>0, FrontDecision DEF Record
<1>2. /\ OutputRecords(rs, via, p.idx)
      /\ stats' = OutputStats(DecisionStats(stats, d), rs)
      /\ anchor' = anchor \/ anchor' = update_primary_anchor(View, p)
      /\ queue' = [queue EXCEPT ![0] = delay_queue_pop(queue[0])]
      /\ UNCHANGED <<now, history, next_index, last_arrival, active, return_start,
                     align, in_cc, pc, force>>
  BY DEF PrimaryStep
<1> HIDE DEF p, d, rs, via
<1>3. /\ out' = out \o new
      /\ out_cc' \in [Pid -> CC \cup {NoCC}]
      /\ last_output' \in [Stream -> Nat \cup {NoOutput}]
  BY <1>1, <1>2, OutputType
<1>4. /\ new \in Seq(Output) /\ Len(new) = Len(rs) /\ DOMAIN new = 1 .. Len(rs)
      /\ \A j \in 1 .. Len(rs) : new[j].via = via[j] /\ new[j].slot = p.idx
  <2> DEFINE n == Len(rs)
  <2>1. n \in 0 .. Len(rs)
    BY <1>1
  <2> HIDE DEF n
  <2>2. /\ Entries(rs, via, p.idx, n) \in Seq(Output)
        /\ Len(Entries(rs, via, p.idx, n)) = n
        /\ DOMAIN Entries(rs, via, p.idx, n) = 1 .. n
        /\ \A j \in 1 .. n : /\ Entries(rs, via, p.idx, n)[j].via = via[j]
                             /\ Entries(rs, via, p.idx, n)[j].slot = p.idx
    <3>1. rs \in Seq(Record) /\ via \in [1 .. Len(rs) -> Via] /\ p.idx \in Nat
      BY <1>1
    <3> QED  BY <2>1, <3>1, EntriesType, ZenonT(60)
  <2> QED  BY <2>2 DEF n
<1> HIDE DEF new
<1>5. \A j \in DOMAIN new :
        /\ new[j].via \in PassedOn(0) => j = Len(new) /\ new[j].slot = Head(queue[0]).idx
        /\ new[j].via \notin PassedOn(1 - 0)
  <2>1. PassedOn(0) = {"primary", "tei"} /\ PassedOn(1 - 0) = {"outage"}
    BY DEF PassedOn
  <2>2. ASSUME NEW j \in DOMAIN new
        PROVE  /\ new[j].via \notin {"outage"}
               /\ new[j].via \in {"primary", "tei"} => j = Len(new)
               /\ new[j].slot = p.idx
    BY <1>1, <1>4
  <2> QED  BY <2>1, <2>2 DEF p
<1>6. /\ queue' \in [Stream -> Seq(Record)] /\ out' \in Seq(Output)
      /\ Rows' /\ SentInOrder'
  BY <1>0, <1>2, <1>3, <1>4, <1>5, Sending DEF Stream
<1>7. stats' \in Stats
  BY <1>1, <1>2, DecisionStatsType, OutputStatsType DEF EngineInv, TypeOK
<1>8. anchor' \in Anchor
  BY <1>1, <1>2, ViewType, AnchorType DEF EngineInv, TypeOK
<1> QED  BY <1>2, <1>3, <1>6, <1>7, <1>8 DEF EngineInv, TypeOK

\* A turn of the loop over the secondary queue keeps the invariant.
LEMMA SecondaryStepInv ==
  ASSUME EngineInv, SecondaryStep
  PROVE  EngineInv'
<1> DEFINE r == Head(queue[1])
           rs == <<r>>
           via == <<"outage">>
           new == Entries(rs, via, r.idx, 1)
<1>0. queue[1] # << >>
  BY DEF SecondaryStep
<1>1. r \in Record /\ r.idx \in Nat
  <2>1. r \in Record
    BY <1>0, HeadTailProperties DEF EngineInv, TypeOK, Stream
  <2> QED  BY <2>1 DEF Record
<1>2. rs \in Seq(Record) /\ Len(rs) = 1
  BY <1>1
<1>3. /\ OutputRecords(rs, via, r.idx)
      /\ stats' = OutputStats(Switched(stats, 1), rs)
      /\ active' = 1 /\ pc' \in {"secondary", "idle"}
      /\ queue' = [queue EXCEPT ![1] = delay_queue_pop(queue[1])]
      /\ UNCHANGED <<now, history, next_index, last_arrival, return_start,
                     align, anchor, in_cc, force>>
  BY DEF SecondaryStep
<1> HIDE DEF r, rs
<1>4. /\ out' = out \o new
      /\ out_cc' \in [Pid -> CC \cup {NoCC}]
      /\ last_output' \in [Stream -> Nat \cup {NoOutput}]
  BY <1>2, <1>3, OutputType
<1>5. /\ new \in Seq(Output) /\ Len(new) = 1 /\ DOMAIN new = 1 .. 1
      /\ \A j \in 1 .. 1 : new[j].via = via[j] /\ new[j].slot = r.idx
  <2> DEFINE n == 1
  <2>1. n \in 0 .. Len(rs) /\ via \in [1 .. Len(rs) -> Via]
    BY <1>2 DEF Via
  <2> HIDE DEF via, n
  <2>2. /\ Entries(rs, via, r.idx, n) \in Seq(Output)
        /\ Len(Entries(rs, via, r.idx, n)) = n
        /\ DOMAIN Entries(rs, via, r.idx, n) = 1 .. n
        /\ \A j \in 1 .. n : /\ Entries(rs, via, r.idx, n)[j].via = via[j]
                             /\ Entries(rs, via, r.idx, n)[j].slot = r.idx
    BY <1>1, <1>2, <2>1, EntriesType, ZenonT(60)
  <2> QED  BY <2>2 DEF n
<1> HIDE DEF new
<1>6. \A j \in DOMAIN new :
        /\ new[j].via \in PassedOn(1) => j = Len(new) /\ new[j].slot = Head(queue[1]).idx
        /\ new[j].via \notin PassedOn(1 - 1)
  BY <1>5 DEF PassedOn, r
<1>7. /\ queue' \in [Stream -> Seq(Record)] /\ out' \in Seq(Output)
      /\ Rows' /\ SentInOrder'
  BY <1>0, <1>3, <1>4, <1>5, <1>6, Sending DEF Stream
<1>8. stats' \in Stats
  BY <1>2, <1>3, SwitchedType, OutputStatsType DEF EngineInv, TypeOK, Stream
<1> QED  BY <1>3, <1>4, <1>7, <1>8 DEF EngineInv, TypeOK, Stream
\* When the sink fails, only what stands in front of the packet for p was sent.
LEMMA SinkFailsInv ==
  ASSUME EngineInv, SinkFails
  PROVE  EngineInv'
<1>1. PICK new \in Seq(Output) :
        out' = out \o new /\ \A j \in DOMAIN new : \A s \in Stream : new[j].via \notin PassedOn(s)
  <2>1. CASE pc = "primary"
    <3> DEFINE p == Head(queue[0])
               d == Decide(View, p)
               rs == Sent(d, p)
               via == SentVia(d, p)
    <3>1. /\ p.idx \in Nat /\ rs \in Seq(Record) /\ Len(rs) \in Nat \ {0}
          /\ via \in [1 .. Len(rs) -> Via]
          /\ \A j \in 1 .. Len(rs) : /\ via[j] # "outage"
                                     /\ via[j] \in {"primary", "tei"} => j = Len(rs)
      BY <2>1, FrontDecision DEF SinkFails, Record
    <3>2. PICK n \in 0 .. Len(rs) - 1 : out' = out \o Entries(rs, via, p.idx, n)
      BY <2>1 DEF SinkFails, Entries
    <3> HIDE DEF p, d, rs, via
    <3> DEFINE new == Entries(rs, via, p.idx, n)
    <3>3. n \in 0 .. Len(rs)
      BY <3>1
    <3>4. /\ new \in Seq(Output) /\ DOMAIN new = 1 .. n
          /\ \A j \in 1 .. n : new[j].via = via[j]
      <4>1. rs \in Seq(Record) /\ via \in [1 .. Len(rs) -> Via] /\ p.idx \in Nat
        BY <3>1
      <4>2. /\ Entries(rs, via, p.idx, n) \in Seq(Output)
            /\ Len(Entries(rs, via, p.idx, n)) = n
            /\ DOMAIN Entries(rs, via, p.idx, n) = 1 .. n
            /\ \A j \in 1 .. n : /\ Entries(rs, via, p.idx, n)[j].via = via[j]
                                 /\ Entries(rs, via, p.idx, n)[j].slot = p.idx
        BY <3>3, <4>1, EntriesType, ZenonT(60)
      <4> QED  BY <4>2 DEF new
    <3> HIDE DEF new
    <3>5. ASSUME NEW j \in DOMAIN new
          PROVE  new[j].via \notin {"primary", "tei", "outage"}
      BY <3>1, <3>4
    <3>6. \A j \in DOMAIN new : \A s \in Stream : new[j].via \notin PassedOn(s)
      BY <3>5 DEF PassedOn
    <3> QED  BY <3>2, <3>4, <3>6 DEF new
  <2>2. CASE pc # "primary"
    <3> DEFINE e == Entries(<<Head(queue[1])>>, <<"outage">>, Head(queue[1]).idx, 0)
    <3>1. \E n \in 0 .. Len(<<Head(queue[1])>>) - 1 :
            out' = out \o Entries(<<Head(queue[1])>>, <<"outage">>, Head(queue[1]).idx, n)
      BY <2>2 DEF SinkFails, Entries
    <3>2. \A n \in 0 .. Len(<<Head(queue[1])>>) - 1 : n = 0
      OBVIOUS
    <3>3. out' = out \o e
      BY <3>1, <3>2
    <3>4. e = << >>
      BY DEF Entries
    <3> HIDE DEF e
    <3>5. e \in Seq(Output) /\ DOMAIN e = {}
      BY <3>4, EmptySeq
    <3> QED  BY <3>3, <3>5
  <2> QED  BY <2>1, <2>2
<1>2. /\ pc' = "failed"
      /\ UNCHANGED <<now, history, queue, next_index, last_arrival, last_output, active,
                     return_start, align, anchor, in_cc, out_cc, stats, force>>
  BY DEF SinkFails
<1>3. ASSUME NEW s \in Stream
      PROVE  out' \in Seq(Output) /\ InOrder(out', s) /\ Below(out', s, Front(s)')
  <2>1. out \in Seq(Output) /\ queue[s] \in Seq(Record) /\ next_index[s] \in Nat
    BY DEF EngineInv, TypeOK
  <2>2. Front(s) \in Int /\ Front(s)' = Front(s)
    BY <1>2, <2>1, LenProperties DEF Front
  <2>3. InOrder(out, s) /\ Below(out, s, Front(s))
    BY DEF EngineInv, SentInOrder
  <2> QED  BY <1>1, <2>1, <2>2, <2>3, AppendOutput
<1>4. out' \in Seq(Output)
  BY <1>3 DEF Stream
<1>5. TypeOK'
  BY <1>2, <1>4 DEF EngineInv, TypeOK
<1>6. Rows'
  BY <1>2 DEF EngineInv, Rows
<1> QED  BY <1>3, <1>5, <1>6 DEF EngineInv, SentInOrder

-----------------------------------------------------------------------------
\* Where the hold-off starts is a time.
LEMMA HoldoffType ==
  ASSUME EngineInv
  PROVE  HoldoffStart \in Nat
BY DEF EngineInv, TypeOK, HoldoffStart

\* Every step of the engine keeps the invariant.
LEMMA EngineInvStep ==
  ASSUME EngineInv, [Next]_vars
  PROVE  EngineInv'
<1>1. ASSUME NEW s \in Stream, NEW pkt \in Packet, PushPacket(s, pkt)
      PROVE  EngineInv'
  BY <1>1, PushStep
<1>2. CASE UNCHANGED vars
  BY <1>2 DEF EngineInv, TypeOK, Rows, SentInOrder, Front, vars, engine_vars
<1>3. CASE MainLoopDrain \/ Flush \/ PrimaryNotDue \/ SecondaryDone
  <2>1. /\ UNCHANGED <<now, history, queue, next_index, last_arrival, last_output, active,
                       return_start, align, anchor, in_cc, out_cc, stats, out>>
        /\ pc' \in {"drain", "idle", "stopped"}
        /\ force' \in BOOLEAN
    BY <1>3 DEF MainLoopDrain, Flush, PrimaryNotDue, SecondaryDone, Returned, EngineInv, TypeOK
  <2>2. Rows' /\ SentInOrder'
    BY <2>1 DEF EngineInv, Rows, SentInOrder, Front
  <2> QED  BY <2>1, <2>2 DEF EngineInv, TypeOK
<1>4. CASE Tick
  <2>1. now' \in Nat \ {0} /\ UNCHANGED engine_vars
    BY <1>4 DEF Tick, EngineInv, TypeOK
  <2>2. Rows' /\ SentInOrder'
    BY <2>1 DEF EngineInv, Rows, SentInOrder, Front, engine_vars
  <2> QED  BY <2>1, <2>2 DEF EngineInv, TypeOK, engine_vars
<1>5. CASE DrainNotReady
  <2>1. EnterOutage(queue[0]) /\ return_start' = HoldoffStart
        /\ UNCHANGED <<now, history, next_index, last_arrival, last_output, active,
                       align, anchor, in_cc, out_cc, stats, force, out>>
    BY <1>5 DEF DrainNotReady
  <2>2. RowOf(queue[0], next_index[0]) /\ Len(queue[0]) <= Len(queue[0])
    BY LenProperties DEF EngineInv, TypeOK, Rows, Stream
  <2>3. queue' \in [Stream -> Seq(Record)] /\ Rows' /\ SentInOrder'
        /\ pc' \in {"idle", "secondary", "stopped"}
    BY <2>1, <2>2, EnterOutageStep
  <2> QED  BY <2>1, <2>3, HoldoffType DEF EngineInv, TypeOK
<1>6. CASE DrainNothing
  <2>1. /\ return_start' = HoldoffStart
        /\ UNCHANGED <<now, history, next_index, last_arrival, last_output, active,
                       align, anchor, in_cc, out_cc, stats, force, out>>
    BY <1>6 DEF DrainNothing
  <2>2. queue' \in [Stream -> Seq(Record)] /\ Rows' /\ SentInOrder'
        /\ pc' \in {"idle", "secondary", "stopped"}
    <3>1. CASE EnterOutage(<< >>)
      BY <2>1, <3>1, KeptRows, EnterOutageStep
    <3>2. CASE queue' = [queue EXCEPT ![0] = << >>] /\ pc' = Returned
      <4>1. queue' \in [Stream -> Seq(Record)] /\ queue'[0] = << >> /\ queue'[1] = queue[1]
        BY <3>2 DEF EngineInv, TypeOK, Stream
      <4>2. Len(queue[1]) \in Nat /\ RowOf(queue[1], next_index[1])
        BY LenProperties DEF EngineInv, TypeOK, Rows, Stream
      <4>3. \A s \in Stream : /\ RowOf(queue'[s], next_index[s])
                              /\ Len(queue'[s]) <= Len(queue[s])
        BY <4>1, <4>2, KeptRows DEF Stream
      <4> QED  BY <2>1, <3>2, <4>1, <4>3, Discarding DEF Returned
    <3> QED  BY <1>6, <3>1, <3>2 DEF DrainNothing
  <2> QED  BY <2>1, <2>2, HoldoffType DEF EngineInv, TypeOK
<1>7. CASE DrainPrimary
  <2>1. /\ return_start' = HoldoffStart /\ active' = 0 /\ pc' = "primary"
        /\ queue' = [queue EXCEPT ![0] = KeptPrimary]
        /\ stats' = Switched(stats, 0)
        /\ UNCHANGED <<now, history, next_index, last_arrival, last_output,
                       align, anchor, in_cc, out_cc, force, out>>
    BY <1>7 DEF DrainPrimary
  <2>2. queue' \in [Stream -> Seq(Record)] /\ queue'[0] = KeptPrimary /\ queue'[1] = queue[1]
    BY <2>1, KeptRows DEF EngineInv, TypeOK, Stream, RowOf
  <2>3. Len(queue[1]) \in Nat /\ RowOf(queue[1], next_index[1])
    BY LenProperties DEF EngineInv, TypeOK, Rows, Stream
  <2>4. \A s \in Stream : /\ RowOf(queue'[s], next_index[s])
                          /\ Len(queue'[s]) <= Len(queue[s])
    BY <2>2, <2>3, KeptRows DEF Stream
  <2>5. Rows' /\ SentInOrder'
    BY <2>1, <2>2, <2>4, Discarding
  <2>6. stats' \in Stats
    BY <2>1, SwitchedType DEF EngineInv, TypeOK, Stream
  <2> QED  BY <2>1, <2>2, <2>5, <2>6, HoldoffType DEF EngineInv, TypeOK, Stream
<1>8. CASE PrimaryEmpty
  <2>1. EnterOutage(<< >>)
        /\ UNCHANGED <<now, history, next_index, last_arrival, last_output, active,
                       return_start, align, anchor, in_cc, out_cc, stats, force, out>>
    BY <1>8 DEF PrimaryEmpty
  <2>2. queue' \in [Stream -> Seq(Record)] /\ Rows' /\ SentInOrder'
        /\ pc' \in {"idle", "secondary", "stopped"}
    BY <2>1, KeptRows, EnterOutageStep
  <2> QED  BY <2>1, <2>2 DEF EngineInv, TypeOK
<1> QED
  BY <1>1, <1>2, <1>3, <1>4, <1>5, <1>6, <1>7, <1>8,
     PrimaryStepInv, SecondaryStepInv, SinkFailsInv DEF Next, EngineStep

\* The engine never leaves the inductive invariant.
LEMMA EngineInvariant == Spec => []EngineInv
<1>1. Init => EngineInv
  BY EngineInvInit
<1>2. EngineInv /\ [Next]_vars => EngineInv'
  BY EngineInvStep
<1> QED  BY <1>1, <1>2, PTL DEF Spec

(***************************************************************************)
(* The engine's state is well typed: alignment confidence stays within     *)
(* 0 .. 100, every counter is a natural number, every packet in the        *)
(* output, the histories and the queues is a whole record.                 *)
(***************************************************************************)
THEOREM EngineTypeOK == Spec => []TypeOK
<1>1. EngineInv => TypeOK
  BY DEF EngineInv
<1> QED  BY <1>1, EngineInvariant, PTL

(***************************************************************************)
(* packet_history_push and prune, delay_queue_push and pop and the two     *)
(* discard loops keep the histories and the queues free of gaps: a packet  *)
(* is found exactly as long as it has not been pushed out.                 *)
(***************************************************************************)
THEOREM EngineHistoryIsRecent == Spec => []HistoryIsRecent
<1>1. EngineInv => HistoryIsRecent
  BY EngineInvImplies
<1> QED  BY <1>1, EngineInvariant, PTL

(***************************************************************************)
(* However packets arrive, overflow, are discarded or recovered, whenever  *)
(* the engine fails over and returns and wherever the sink fails: neither  *)
(* stream is sent on twice or out of order by recovery_engine_drain.       *)
(***************************************************************************)
THEOREM EngineOutputInOrder == Spec => []OutputInOrder
<1>1. EngineInv => OutputInOrder
  BY EngineInvImplies
<1> QED  BY <1>1, EngineInvariant, PTL

-----------------------------------------------------------------------------
(***************************************************************************)
(* recovery_engine_flush.  Whichever way a forced drain takes to its end,  *)
(* it has gone through the queue that output is on, since nothing is kept  *)
(* back as not yet due; and the outage loop is entered from the primary    *)
(* only when the primary's queue has run empty.                            *)
(***************************************************************************)
FlushInv ==
  /\ pc = "primary" => active = 0
  /\ pc = "secondary" /\ active = 0 => queue[0] = << >>
  /\ FlushSendsQueue

\* The outage entered, or not, from a primary whose queue is empty.
LEMMA FlushFromEmpty ==
  ASSUME EngineInv, EnterOutage(<< >>), active' = active,
         active = 0
  PROVE  FlushInv'
<1>1. queue'[0] = << >> /\ pc' \in {"secondary", "idle", "stopped"}
  BY DEF EnterOutage, Returned, EngineInv, TypeOK, Stream
<1> QED  BY <1>1 DEF FlushInv, FlushSendsQueue

\* A drain that returns early while output is on the secondary.
LEMMA FlushWaits ==
  ASSUME EngineInv, active = 1, primary_return_holdoff_elapsed,
         return_start' = HoldoffStart, queue' = [queue EXCEPT ![0] = << >>],
         active' = active, now' = now, pc' = Returned
  PROVE  FlushInv'
<1>1. queue'[0] = << >>
  BY DEF EngineInv, TypeOK, Stream
<1>2. return_start' # 0 /\ now - return_start' >= PrimaryReturn
  BY DEF primary_return_holdoff_elapsed, HoldoffStart, EngineInv, TypeOK
<1>3. WaitsForPrimary'
  BY <1>1, <1>2 DEF WaitsForPrimary
<1>4. pc' \in {"idle", "stopped"}
  BY DEF Returned
<1> QED  BY <1>3, <1>4 DEF FlushInv, FlushSendsQueue

LEMMA FlushInvStep ==
  ASSUME EngineInv, FlushInv, [Next]_vars
  PROVE  FlushInv'
<1>1. CASE \/ \E s \in Stream, pkt \in Packet : PushPacket(s, pkt)
           \/ MainLoopDrain \/ Flush \/ SinkFails
  <2>1. pc' \in {"drain", "failed"}
    BY <1>1 DEF PushPacket, MainLoopDrain, Flush, SinkFails
  <2> QED  BY <2>1 DEF FlushInv, FlushSendsQueue
<1>2. CASE UNCHANGED vars
  BY <1>2 DEF FlushInv, FlushSendsQueue, WaitsForPrimary, vars, engine_vars
<1>3. CASE Tick
  <2>1. now' = now + 1 /\ UNCHANGED engine_vars /\ now \in Nat /\ return_start \in Nat
    BY <1>3 DEF Tick, EngineInv, TypeOK
  <2>2. WaitsForPrimary => WaitsForPrimary'
    BY <2>1, EngineAssumption DEF WaitsForPrimary, engine_vars
  <2> QED  BY <2>1, <2>2 DEF FlushInv, FlushSendsQueue, engine_vars
<1>4. CASE DrainNotReady
  <2>1. active = 1 /\ active' = 1 /\ EnterOutage(queue[0])
    BY <1>4 DEF DrainNotReady, primary_return_holdoff_elapsed
  <2>2. pc' = "secondary"
    BY <2>1 DEF EnterOutage
  <2> QED  BY <2>1, <2>2 DEF FlushInv, FlushSendsQueue
<1>5. CASE DrainNothing
  <2>1. /\ primary_return_holdoff_elapsed /\ return_start' = HoldoffStart
        /\ now' = now /\ active' = active
        /\ IF active = 1 THEN queue' = [queue EXCEPT ![0] = << >>] /\ pc' = Returned
                         ELSE EnterOutage(<< >>)
    BY <1>5 DEF DrainNothing
  <2>2. active \in {0, 1}
    BY DEF EngineInv, TypeOK, Stream
  <2>3. CASE active = 1
    BY <2>1, <2>3, FlushWaits
  <2>4. CASE active = 0
    BY <2>1, <2>4, FlushFromEmpty
  <2> QED  BY <2>2, <2>3, <2>4
<1>6. CASE DrainPrimary \/ PrimaryStep
  <2>1. pc' = "primary" /\ active' = 0
    BY <1>6 DEF DrainPrimary, PrimaryStep, FlushInv
  <2> QED  BY <2>1 DEF FlushInv, FlushSendsQueue
<1>7. CASE PrimaryNotDue
  <2>1. ~force
    BY <1>7 DEF PrimaryNotDue, Due
  <2>2. pc' = "idle"
    BY <1>7, <2>1 DEF PrimaryNotDue, Returned
  <2> QED  BY <2>2 DEF FlushInv, FlushSendsQueue
<1>8. CASE PrimaryEmpty
  BY <1>8, FlushFromEmpty DEF PrimaryEmpty, FlushInv
<1>9. CASE SecondaryStep
  <2>1. active' = 1 /\ pc' \in {"secondary", "idle"}
    BY <1>9 DEF SecondaryStep
  <2> QED  BY <2>1 DEF FlushInv, FlushSendsQueue
<1>10. CASE SecondaryDone
  <2>1. /\ pc = "secondary" /\ pc' = Returned /\ queue' = queue /\ active' = active
        /\ force => queue[1] = << >>
    BY <1>10 DEF SecondaryDone, Due
  <2>2. CASE force
    <3>1. active \in {0, 1} /\ (active = 0 => queue[0] = << >>) /\ queue[1] = << >>
      BY <2>1, <2>2 DEF FlushInv, EngineInv, TypeOK, Stream
    <3>2. queue'[active'] = << >>
      BY <2>1, <3>1
    <3>3. pc' = "stopped"
      BY <2>1, <2>2 DEF Returned
    <3> QED  BY <3>2, <3>3 DEF FlushInv, FlushSendsQueue
  <2>3. CASE ~force
    <3>1. pc' = "idle"
      BY <2>1, <2>3 DEF Returned
    <3> QED  BY <3>1 DEF FlushInv, FlushSendsQueue
  <2> QED  BY <2>2, <2>3
<1> QED
  BY <1>1, <1>2, <1>3, <1>4, <1>5, <1>6, <1>7, <1>8, <1>9, <1>10 DEF Next, EngineStep

(***************************************************************************)
(* recovery_engine_flush, for every delay and hold-off and at any moment:  *)
(* when it returns, the queue that output is on is empty, unless output    *)
(* was about to go back to a primary that had nothing new.                 *)
(***************************************************************************)
THEOREM EngineFlushSendsQueue == Spec => []FlushSendsQueue
<1>1. Init => FlushInv
  BY DEF Init, FlushInv, FlushSendsQueue
<1>2. EngineInv /\ FlushInv /\ [Next]_vars => FlushInv'
  BY FlushInvStep
<1>3. FlushInv => FlushSendsQueue
  BY DEF FlushInv
<1> QED  BY <1>1, <1>2, <1>3, EngineInvariant, PTL DEF Spec

-----------------------------------------------------------------------------
(***************************************************************************)
(* The counters of one turn of the loop over the primary queue.            *)
(***************************************************************************)
LEMMA CountCounts ==
  ASSUME NEW st \in Stats, NEW c \in Counter, NEW n \in Nat
  PROVE  /\ Count(st, c, n) \in Stats /\ Count(st, c, n)[c] = st[c] + n
         /\ \A x \in Counter : x # c => Count(st, c, n)[x] = st[x]
BY DEF Count, Stats

NullsIn(rs) == Cardinality({j \in DOMAIN rs : IsNull(rs[j])})

LEMMA TurnStats ==
  ASSUME NEW st \in Stats, NEW d \in Decision, NEW rs \in Seq(Record),
         NEW x, x = OutputStats(DecisionStats(st, d), rs)
  PROVE  /\ x["output_continuity_errors"] = st["output_continuity_errors"] + CountBreaks(rs)
         /\ x["recovered_null"] = st["recovered_null"] + NullsIn(d.rs)
         /\ x["rejects"] = st["rejects"] + (IF d.kind = "reject" THEN 1 ELSE 0)
         /\ x["source_switches_1"] = st["source_switches_1"]
         /\ x["primary_delay_overflows"] = st["primary_delay_overflows"]
         /\ NullsIn(d.rs) \in Nat /\ CountBreaks(rs) \in Nat
<1> DEFINE nulls == NullsIn(d.rs)
           rejected == IF d.kind = "reject" THEN 1 ELSE 0
           breaks == CountBreaks(rs)
           repeats == CountRepeats(rs)
           content == Len(d.rs) - nulls
           a == Count(st, "rejects", rejected)
           b == Count(a, "unrecoverable_loss", d.loss)
           e == Count(b, "recovered", content)
           f == Count(e, "recovered_null", nulls)
           g == Count(f, "output_continuity_errors", breaks)
           h == Count(g, "output_duplicate_counters", repeats)
<1>1. d.rs \in Seq(Record) /\ d.loss \in Nat /\ rejected \in Nat
  BY DEF Decision
<1>2. nulls \in Nat /\ nulls <= Len(d.rs) /\ Len(d.rs) \in Nat
  BY <1>1, PlacesCount, LenProperties DEF NullsIn
<1>3. breaks \in Nat /\ repeats \in Nat
  BY PlacesCount DEF CountBreaks, CountRepeats, Checked
<1>4. x = h
  BY DEF OutputStats, DecisionStats, NullsIn
<1>5. /\ "rejects" \in Counter /\ "unrecoverable_loss" \in Counter
      /\ "recovered" \in Counter /\ "recovered_null" \in Counter
      /\ "output_continuity_errors" \in Counter /\ "output_duplicate_counters" \in Counter
      /\ "primary_delay_overflows" \in Counter /\ "source_switches_1" \in Counter
  BY DEF Counter
<1> HIDE DEF nulls
<1>6. content \in Nat
  BY <1>2
<1> HIDE DEF rejected, breaks, repeats, content, a, b, e, f, g, h
<1>7. /\ a \in Stats /\ a["rejects"] = st["rejects"] + rejected
      /\ \A y \in Counter : y # "rejects" => a[y] = st[y]
  <2>1. rejected \in Nat /\ "rejects" \in Counter
    BY <1>1, <1>5
  <2> QED  BY <2>1, CountCounts DEF a
<1>8. b \in Stats /\ \A y \in Counter : y # "unrecoverable_loss" => b[y] = a[y]
  <2>1. a \in Stats /\ d.loss \in Nat /\ "unrecoverable_loss" \in Counter
    BY <1>1, <1>5, <1>7
  <2> DEFINE n == d.loss
  <2>2. b = Count(a, "unrecoverable_loss", n) /\ n \in Nat
    BY <2>1 DEF b
  <2> HIDE DEF n
  <2>3. "unrecoverable_loss" \in Counter /\ a \in Stats /\ n \in Nat
    BY <2>1, <2>2
  <2> DEFINE z == Count(a, "unrecoverable_loss", n)
  <2>4. z \in Stats /\ \A y \in Counter : y # "unrecoverable_loss" => z[y] = a[y]
    BY <2>3, CountCounts
  <2> HIDE DEF z
  <2> QED  BY <2>2, <2>4 DEF z
<1>9. e \in Stats /\ \A y \in Counter : y # "recovered" => e[y] = b[y]
  <2>1. b \in Stats /\ content \in Nat /\ "recovered" \in Counter
    BY <1>5, <1>6, <1>8
  <2> QED  BY <2>1, CountCounts DEF e
<1>10. /\ f \in Stats /\ f["recovered_null"] = e["recovered_null"] + nulls
       /\ \A y \in Counter : y # "recovered_null" => f[y] = e[y]
  <2>1. e \in Stats /\ nulls \in Nat /\ "recovered_null" \in Counter
    BY <1>2, <1>5, <1>9
  <2> QED  BY <2>1, CountCounts DEF f
<1>11. /\ g \in Stats
       /\ g["output_continuity_errors"] = f["output_continuity_errors"] + breaks
       /\ \A y \in Counter : y # "output_continuity_errors" => g[y] = f[y]
  <2>1. f \in Stats /\ breaks \in Nat /\ "output_continuity_errors" \in Counter
    BY <1>3, <1>5, <1>10
  <2> QED  BY <2>1, CountCounts DEF g
<1>12. h \in Stats /\ \A y \in Counter : y # "output_duplicate_counters" => h[y] = g[y]
  <2>1. g \in Stats /\ "output_duplicate_counters" \in Counter
    BY <1>5, <1>11
  <2> QED  BY <1>3, <2>1, CountCounts DEF h
<1>13. /\ h["output_continuity_errors"] = st["output_continuity_errors"] + breaks
       /\ h["recovered_null"] = st["recovered_null"] + nulls
       /\ h["rejects"] = st["rejects"] + rejected
       /\ h["source_switches_1"] = st["source_switches_1"]
       /\ h["primary_delay_overflows"] = st["primary_delay_overflows"]
  BY <1>5, <1>7, <1>8, <1>9, <1>10, <1>11, <1>12
<1> QED  BY <1>2, <1>3, <1>4, <1>13 DEF rejected, nulls, breaks

\* What carries the counters on adds no continuity error.
LEMMA FitsIsNoBreak ==
  ASSUME NEW cc, NEW r, FitsCC(cc, r), record_is_informative(r), cc # NoCC
  PROVE  ~Breaks(cc, r)
BY DEF FitsCC, record_is_informative, Breaks

LEMMA CarriedOnNoBreaks ==
  ASSUME NEW rs \in Seq(Record), NEW p \in Record, CarriesOn(out_cc, rs, p)
  PROVE  CountBreaks(Append(rs, p)) = 0
<1> DEFINE a == Append(rs, p)
           n == Len(rs)
<1>1. n \in Nat /\ DOMAIN rs = 1 .. n
  BY LenProperties
<1>2. /\ a \in Seq(Record) /\ Len(a) = n + 1 /\ a[n + 1] = p
      /\ \A j \in 1 .. n : a[j] = rs[j]
  BY AppendProperties
<1>3. DOMAIN a = 1 .. n + 1
  BY <1>2, LenProperties
<1>4. ASSUME NEW j \in 1 .. n + 1
      PROVE  SubSeq(a, 1, j - 1) = SubSeq(rs, 1, j - 1)
  <2> DEFINE k == j - 1
  <2>1. k \in Int /\ k <= n /\ k >= 0
    BY <1>1
  <2>2. /\ \A i \in 1 .. k : a[i] \in Record /\ rs[i] \in Record /\ a[i] = rs[i]
    BY <1>1, <1>2, <2>1, ElementOfSeq
  <2> HIDE DEF k, a
  <2>3. /\ SubSeq(a, 1, k) \in Seq(Record) /\ Len(SubSeq(a, 1, k)) = k
        /\ \A i \in 1 .. k : SubSeq(a, 1, k)[i] = a[i]
    <3>1. /\ SubSeq(a, 1, k) \in Seq(Record)
          /\ Len(SubSeq(a, 1, k)) = IF 1 <= k THEN (k - 1) + 1 ELSE 0
          /\ \A i \in 1 .. (k - 1) + 1 : SubSeq(a, 1, k)[i] = a[(1 + i) - 1]
      BY <2>1, <2>2, SubSeqProperties
    <3> QED  BY <2>1, <3>1
  <2>4. /\ SubSeq(rs, 1, k) \in Seq(Record) /\ Len(SubSeq(rs, 1, k)) = k
        /\ \A i \in 1 .. k : SubSeq(rs, 1, k)[i] = rs[i]
    <3>1. /\ SubSeq(rs, 1, k) \in Seq(Record)
          /\ Len(SubSeq(rs, 1, k)) = IF 1 <= k THEN (k - 1) + 1 ELSE 0
          /\ \A i \in 1 .. (k - 1) + 1 : SubSeq(rs, 1, k)[i] = rs[(1 + i) - 1]
      BY <2>1, <2>2, SubSeqProperties
    <3> QED  BY <2>1, <3>1
  <2> DEFINE x == SubSeq(a, 1, k)
             y == SubSeq(rs, 1, k)
  <2>5. x \in Seq(Record) /\ y \in Seq(Record) /\ Len(x) = Len(y)
        /\ \A i \in 1 .. Len(x) : x[i] = y[i]
    BY <2>2, <2>3, <2>4
  <2> HIDE DEF x, y
  <2>6. x = y
    BY <2>5, SeqEqual
  <2> QED  BY <2>6 DEF x, y, k
<1>5. SubSeq(rs, 1, n) = rs
  <2>1. /\ SubSeq(rs, 1, n) \in Seq(Record)
        /\ Len(SubSeq(rs, 1, n)) = IF 1 <= n THEN (n - 1) + 1 ELSE 0
        /\ \A i \in 1 .. (n - 1) + 1 : SubSeq(rs, 1, n)[i] = rs[(1 + i) - 1]
    <3>1. \A i \in 1 .. n : rs[i] \in Record
      BY <1>1, ElementOfSeq
    <3> HIDE DEF n
    <3> QED  BY <1>1, <3>1, SubSeqProperties
  <2> DEFINE y == SubSeq(rs, 1, n)
  <2>2. y \in Seq(Record) /\ Len(y) = Len(rs) /\ \A i \in 1 .. Len(y) : y[i] = rs[i]
    BY <1>1, <2>1
  <2> HIDE DEF y
  <2>3. y = rs
    BY <2>2, SeqEqual
  <2> QED  BY <2>3 DEF y
<1>6. ASSUME NEW j \in DOMAIN a PROVE FitsCC(CCBefore(a, j), a[j])
  <2>1. SubSeq(a, 1, j - 1) = SubSeq(rs, 1, j - 1) /\ j \in 1 .. n + 1
    BY <1>3, <1>4
  <2>2. CASE j \in 1 .. n
    BY <1>1, <1>2, <2>1, <2>2 DEF CarriesOn, CCBefore, FitsAfter
  <2>3. CASE j = n + 1
    <3>1. j - 1 = n
      BY <1>1, <2>3
    <3>2. SubSeq(a, 1, j - 1) = rs /\ a[j] = p
      BY <1>2, <1>5, <2>1, <2>3, <3>1
    <3> QED  BY <3>2 DEF CarriesOn, CCBefore, FitsAfter
  <2> QED  BY <1>1, <2>1, <2>2, <2>3
<1> HIDE DEF a
<1>7. {j \in Checked(a) : Breaks(CCBefore(a, j), a[j])} = {}
  BY <1>6, FitsIsNoBreak DEF Checked
<1> QED  BY <1>7, FS_EmptySet DEF CountBreaks, a

\* A turn that neither rejects nor inserts nulls adds no continuity error.
LEMMA QuietTurn ==
  ASSUME EngineInv, queue[0] # << >>, NEW p, p = Head(queue[0]), NEW d, d = Decide(View, p),
         d.kind # "reject", NullsIn(d.rs) = 0
  PROVE  CountBreaks(Sent(d, p)) = 0
<1>1. p \in Record /\ d \in Decision /\ (Replaced(d, p) => Len(d.rs) = 1)
  BY FrontDecision
<1>2. View \in EngineView /\ View.cc = out_cc
  BY ViewType DEF View
<1>3. /\ d.kind = "none" => record_fits_next_output(out_cc, p) /\ d.rs = << >> /\ ~p.pkt.tei
      /\ d.kind = "insert" /\ ~p.pkt.tei => OnlyNulls(d.rs) \/ CarriesOn(out_cc, d.rs, p)
      /\ d.kind = "insert" /\ p.pkt.tei =>
           \E c \in Record : d.rs = <<c>> /\ record_fits_next_output(out_cc, c)
  <2> DEFINE v == View
  <2>1. v \in EngineView /\ d = Decide(v, p) /\ v.cc = out_cc
    BY <1>2
  <2> HIDE DEF v
  <2>2. /\ d.kind = "none" => record_fits_next_output(v.cc, p) /\ d.rs = << >> /\ ~p.pkt.tei
        /\ d.kind = "insert" /\ ~p.pkt.tei => OnlyNulls(d.rs) \/ CarriesOn(v.cc, d.rs, p)
        /\ d.kind = "insert" /\ p.pkt.tei =>
             \E c \in Record : d.rs = <<c>> /\ record_fits_next_output(v.cc, c)
    BY <1>1, <2>1, InsertsFit
  <2> QED  BY <2>1, <2>2
<1>4. d.rs \in Seq(Record) /\ d.kind \in {"none", "insert"}
  BY <1>1 DEF Decision
<1>5. ~OnlyNulls(d.rs)
  <2> DEFINE N == {j \in DOMAIN d.rs : IsNull(d.rs[j])}
  <2>1. DOMAIN d.rs = 1 .. Len(d.rs) /\ Len(d.rs) \in Nat
    BY <1>4, LenProperties
  <2>2. IsFiniteSet(N)
    <3> DEFINE n == Len(d.rs)
    <3>1. n \in Nat /\ N \in SUBSET (1 .. n)
      BY <2>1
    <3> HIDE DEF n, N
    <3>2. IsFiniteSet(1 .. n)
      BY <3>1, FS_Interval
    <3> QED  BY <3>1, <3>2, FS_Subset
  <2>3. N = {}
    <3>1. Cardinality(N) = 0
      BY DEF NullsIn
    <3> HIDE DEF N
    <3> QED  BY <2>2, <3>1, FS_EmptySet
  <2>4. d.rs # << >> => 1 \in DOMAIN d.rs
    BY <1>4, <2>1, EmptySeq
  <2> QED  BY <2>3, <2>4 DEF OnlyNulls
<1>6. ASSUME NEW r \in Record, record_fits_next_output(out_cc, r)
      PROVE  CarriesOn(out_cc, << >>, r) /\ Append(<< >>, r) = <<r>>
  <2>1. DOMAIN << >> = {}
    OBVIOUS
  <2>2. LastCC(out_cc, << >>, r.pkt.pid) = out_cc[r.pkt.pid]
    BY <2>1 DEF LastCC
  <2>3. Append(<< >>, r) = <<r>>
    OBVIOUS
  <2> QED  BY <1>6, <2>1, <2>2, <2>3 DEF CarriesOn, FitsAfter, record_fits_next_output
<1>7. << >> \in Seq(Record)
  BY EmptySeq
<1>8. CASE d.kind = "none"
  <2>1. Sent(d, p) = Append(<< >>, p) /\ CarriesOn(out_cc, << >>, p)
    BY <1>1, <1>3, <1>6, <1>8 DEF Sent, Replaced
  <2> QED  BY <1>1, <1>7, <2>1, CarriedOnNoBreaks
<1>9. CASE d.kind = "insert" /\ ~p.pkt.tei
  <2>1. Sent(d, p) = Append(d.rs, p) /\ CarriesOn(out_cc, d.rs, p)
    BY <1>3, <1>5, <1>9 DEF Sent, Replaced
  <2> QED  BY <1>1, <1>4, <2>1, CarriedOnNoBreaks
<1>10. CASE d.kind = "insert" /\ p.pkt.tei
  <2>1. PICK c \in Record : d.rs = <<c>> /\ record_fits_next_output(out_cc, c)
    BY <1>3, <1>10
  <2>2. Sent(d, p) = Append(<< >>, c) /\ CarriesOn(out_cc, << >>, c)
    BY <1>6, <1>10, <2>1 DEF Sent, Replaced
  <2> QED  BY <1>7, <2>2, CarriedOnNoBreaks
<1> QED  BY <1>4, <1>8, <1>9, <1>10
=============================================================================
