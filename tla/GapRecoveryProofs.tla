-------------------------- MODULE GapRecoveryProofs --------------------------
(***************************************************************************)
(* What the recovery decision returns, for every history, anchor and       *)
(* alignment: its type, that a damaged packet is replaced by exactly one,  *)
(* which counters the inserted packets have and where they come from.      *)
(***************************************************************************)
EXTENDS GapRecovery, FiniteSetTheorems, SequenceTheorems, NaturalsInduction,
        WellFoundedInduction, TLAPS

\* A set of naturals that is not empty has a least member, and Min is it.
LEMMA MinOfNaturals ==
  ASSUME NEW S \in SUBSET Nat, S # {}
  PROVE  Min(S) \in S /\ \A y \in S : Min(S) <= y
<1> DEFINE R == {ss \in Nat \X Nat : ss[1] < ss[2]}
<1>1. IsWellFoundedOn(R, Nat)
  BY NatLessThanWellFounded DEF OpToRel
<1>2. S \subseteq Nat /\ S # {}
  OBVIOUS
<1> HIDE DEF R
<1>3. PICK x \in S : \A y \in S : ~(<<y, x>> \in R)
  BY <1>1, <1>2, WFMin
<1>4. ASSUME NEW y \in S, y < x  PROVE FALSE
  <2>1. <<y, x>> \in Nat \X Nat /\ <<y, x>>[1] < <<y, x>>[2]  BY <1>4
  <2>2. <<y, x>> \in R  BY ONLY <2>1 DEF R
  <2> QED  BY <2>2, <1>3, <1>4
<1>5. \A y \in S : x <= y
  BY <1>4
<1> QED  BY <1>5 DEF Min

\* A set of naturals with an upper bound has a greatest member, and Max is it.
LEMMA MaxOfNaturals ==
  ASSUME NEW n \in Nat, NEW S \in SUBSET (0 .. n), S # {}
  PROVE  Max(S) \in S /\ \A y \in S : y <= Max(S)
<1> DEFINE T == {n - x : x \in S}
<1>1. T \in SUBSET Nat /\ T # {}
  <2>1. \A x \in S : n - x \in Nat  OBVIOUS
  <2>2. PICK x : x \in S  OBVIOUS
  <2>3. n - x \in T  BY <2>2
  <2> QED  BY <2>1, <2>3
<1>2. PICK m \in T : \A y \in T : m <= y
  BY <1>1, MinOfNaturals
<1>3. PICK x \in S : m = n - x
  BY <1>2
<1>4. \A y \in S : x >= y
  BY <1>2, <1>3
<1> QED  BY <1>4 DEF Max

-----------------------------------------------------------------------------
(***************************************************************************)
(* Records taken from a history.                                           *)
(***************************************************************************)
\* packet_history_find_index returns records of the history.
LEMMA FindIndexType ==
  ASSUME NEW h \in Seq(Record), NEW i
  PROVE  packet_history_find_index(h, i) \subseteq Record
BY ElementOfSeq DEF packet_history_find_index

\* Any stretch of a sequence is a sequence of the same kind.
LEMMA StretchType ==
  ASSUME NEW S, NEW q \in Seq(S), NEW a \in DOMAIN q, NEW b \in DOMAIN q
  PROVE  SubSeq(q, a, b) \in Seq(S)
<1>1. Len(q) \in Nat /\ DOMAIN q = 1 .. Len(q)
  BY LenProperties
<1>2. CASE b < a
  <2>1. SubSeq(q, a, b) = << >>  BY <1>1, <1>2, SubSeqEmpty
  <2> QED  BY <2>1
<1>3. CASE a <= b
  BY <1>1, <1>3, SubSeqProperties
<1> QED  BY <1>1, <1>2, <1>3

\* Block collects records of the secondary history.
LEMMA BlockType ==
  ASSUME NEW v \in EngineView, NEW first, NEW n
  PROVE  Block(v, first, n) \in Seq(Record)
<1> DEFINE h == v.h[1]
           at == {k \in DOMAIN h : h[k].idx \in first .. first + n - 1}
<1>1. h \in Seq(Record)
  BY DEF EngineView, Stream
<1>2. Len(h) \in Nat /\ DOMAIN h = 1 .. Len(h)
  BY <1>1, LenProperties
<1>3. CASE at = {}
  BY <1>3 DEF Block
<1>4. CASE at # {}
  <2>1. at \in SUBSET Nat /\ at \in SUBSET (0 .. Len(h))
    BY <1>2
  <2> HIDE DEF at
  <2>2. Min(at) \in at
    BY <2>1, <1>4, MinOfNaturals
  <2>3. Max(at) \in at
    BY <2>1, <1>2, <1>4, MaxOfNaturals
  <2>4. Min(at) \in DOMAIN h /\ Max(at) \in DOMAIN h
    BY <2>2, <2>3 DEF at
  <2>5. SubSeq(h, Min(at), Max(at)) \in Seq(Record)
    BY <2>4, <1>1, StretchType
  <2> QED  BY <2>5, <1>4 DEF Block, at
<1> QED  BY <1>3, <1>4

\* The first and the last match are matches.
LEMMA MatchIsMember ==
  ASSUME NEW v \in EngineView, NEW p,
         NEW ms \in SUBSET {v.h[1][k] : k \in DOMAIN v.h[1]}, ms # {}
  PROVE  FirstMatch(v, p, ms) \in ms /\ LastMatch(v, p, ms) \in ms
<1> DEFINE h == v.h[1]
           Z == Zones(v, p, ms)
<1>1. Len(h) \in Nat /\ DOMAIN h = 1 .. Len(h)
  BY LenProperties DEF EngineView, Stream
<1>2. \A z : /\ InZone(v, p, ms, z) \in SUBSET Nat
             /\ InZone(v, p, ms, z) \in SUBSET (0 .. Len(h))
  BY <1>1 DEF InZone
<1>3. PICK k \in DOMAIN h : h[k] \in ms
  OBVIOUS
<1>4. MatchZone(v, p, h[k]) \in 0 .. 2
  BY DEF MatchZone
<1>5. Z \in SUBSET Nat /\ Z \in SUBSET (0 .. 2) /\ Z # {}
  BY <1>3, <1>4 DEF Zones, InZone
<1>6. Min(Z) \in Z /\ Max(Z) \in Z
  BY <1>5, MinOfNaturals, MaxOfNaturals
<1>7. InZone(v, p, ms, Min(Z)) # {} /\ InZone(v, p, ms, Max(Z)) # {}
  BY <1>6 DEF Zones
<1>8. Min(InZone(v, p, ms, Min(Z))) \in InZone(v, p, ms, Min(Z))
  BY <1>2, <1>7, MinOfNaturals
<1>9. Max(InZone(v, p, ms, Max(Z))) \in InZone(v, p, ms, Max(Z))
  BY <1>1, <1>2, <1>7, MaxOfNaturals
<1> QED  BY <1>8, <1>9 DEF InZone, FirstMatch, LastMatch

-----------------------------------------------------------------------------
(***************************************************************************)
(* The counts in the verdicts.                                             *)
(***************************************************************************)
\* A counter gap is a natural number of packets.
LEMMA CounterGapType ==
  ASSUME NEW prev, NEW p
  PROVE  infer_missing_from_cc(prev, p) \subseteq Nat
BY RecordAssumption DEF infer_missing_from_cc

\* The gap by position is an integer.
LEMMA PositionGapType ==
  ASSUME NEW v \in EngineView, NEW p \in Record, NEW s \in Record
  PROVE  MissingByPosition(v, p, s) \in Int
BY DEF MissingByPosition, PrimaryBetween, SecondaryBetween, EngineView, Anchor, Record

\* The gap by counters is a natural number, where it is known.
LEMMA MissingByCounterType ==
  ASSUME NEW v \in EngineView, NEW p \in Record, NEW s \in Record
  PROVE  MissingByCounter(v, p, s) \subseteq Nat
BY CounterGapType, PositionGapType DEF MissingByCounter

\* The three validators count the missing packets with a natural number.
LEMMA VerdictCount ==
  ASSUME NEW v \in EngineView, NEW p \in Record, NEW s \in Record
  PROVE  /\ validate_null_position_candidate(v, p, s).missing \in Nat
         /\ validate_mixed_position_candidate(v, p, s).missing \in Nat
         /\ validate_exact_content_candidate(v, p, s).missing \in Nat
<1> DEFINE n == MissingByPosition(v, p, s)
<1>1. n \in Int
  BY PositionGapType
<1>2. \A why, m : /\ Refuse(why, m).missing = m
                  /\ RefuseNull(why, m).missing = m
                  /\ Accept(m).missing = m
  BY DEF Refuse, RefuseNull, Accept, NotAGap
<1>3. NotAGap.missing = 0
  BY DEF NotAGap
<1> HIDE DEF n
<1>4. validate_null_position_candidate(v, p, s).missing \in {0, n}
      /\ (n <= 0 => validate_null_position_candidate(v, p, s).missing = 0)
  BY <1>1, <1>2, <1>3 DEF validate_null_position_candidate, n
<1>5. validate_mixed_position_candidate(v, p, s).missing \in {0, n}
      /\ (n <= 0 => validate_mixed_position_candidate(v, p, s).missing = 0)
  <2>1. \/ validate_mixed_position_candidate(v, p, s) = NotAGap
        \/ n > 0 /\ \E w : validate_mixed_position_candidate(v, p, s) = Refuse(w, n)
        \/ n > 0 /\ validate_mixed_position_candidate(v, p, s) = Accept(n)
    BY <1>1 DEF validate_mixed_position_candidate, n
  <2> QED  BY <2>1, <1>1, <1>2, <1>3
<1>6. validate_exact_content_candidate(v, p, s).missing \in Nat
  <2> DEFINE byCounter == MissingByCounter(v, p, s)
             m == CHOOSE x \in byCounter : TRUE
  <2>1. CASE byCounter \subseteq {0}
    BY <2>1, <1>3 DEF validate_exact_content_candidate
  <2>2. CASE ~(byCounter \subseteq {0})
    <3>1. m \in Nat
      BY <2>2, MissingByCounterType
    <3> HIDE DEF m
    <3>2. validate_exact_content_candidate(v, p, s).missing \in {0, m}
      BY <1>2, <1>3 DEF validate_exact_content_candidate, m
    <3> QED  BY <3>1, <3>2
  <2> QED  BY <2>1, <2>2
<1> QED  BY <1>1, <1>4, <1>5, <1>6

-----------------------------------------------------------------------------
(***************************************************************************)
(* The decisions.                                                          *)
(***************************************************************************)
\* A rejection that counts with a natural number is a decision.
LEMMA RejectType ==
  ASSUME NEW p, NEW verdict, verdict.missing \in Nat
  PROVE  Reject(p, verdict) \in Decision
BY DEF Reject, Decision

\* Choosing among the matches gives a decision when the validator counts with a
\* natural number and the recover function decides on what the validator accepts.
LEMMA UniqueType ==
  ASSUME NEW v \in EngineView, NEW p,
         NEW matches \in SUBSET {v.h[1][k] : k \in DOMAIN v.h[1]},
         NEW verdict, NEW recovery, NEW log \in BOOLEAN,
         \A m \in matches : verdict[m].missing \in Nat,
         \A m \in matches : verdict[m].ok => recovery[m] \in Decision
  PROVE  try_unique_candidate_recovery(v, p, matches, verdict, recovery, log) \in Decision
<1> DEFINE valid  == {m \in matches : verdict[m].ok}
           rest   == valid \ {FirstMatch(v, p, valid)}
           own    == {m \in matches : verdict[m].why # "missing_candidate"}
           known  == {m \in matches : verdict[m].has}
           best   == BestReject(v, p, matches, verdict)
<1>1. NotAGap.missing \in Nat
  BY DEF NotAGap
<1>2. best.missing \in Nat
  <2>1. own # {} => LastMatch(v, p, own) \in matches
    BY MatchIsMember
  <2>2. known # {} => FirstMatch(v, p, known) \in matches
    BY MatchIsMember
  <2> QED  BY <2>1, <2>2, <1>1 DEF BestReject
<1>3. CASE Cardinality(valid) > 1
  <2>1. rest # {}
    <3>1. SUFFICES ASSUME rest = {}  PROVE FALSE
      OBVIOUS
    <3>2. valid = {} \/ \E x : valid = {x}
      BY <3>1
    <3> HIDE DEF valid
    <3>3. Cardinality(valid) \in {0, 1}
      BY <3>2, FS_EmptySet, FS_Singleton
    <3> QED  BY <3>3, <1>3
  <2>2. FirstMatch(v, p, rest) \in rest
    <3>1. rest \in SUBSET {v.h[1][k] : k \in DOMAIN v.h[1]}
      OBVIOUS
    <3> HIDE DEF rest
    <3> QED  BY <2>1, <3>1, MatchIsMember
  <2>3. Reject(p, verdict[FirstMatch(v, p, rest)]) \in Decision
    BY <2>2, RejectType
  <2>4. Reject(p, NotAGap) \in Decision
    BY <1>1, RejectType
  <2> QED  BY <1>3, <2>3, <2>4 DEF try_unique_candidate_recovery
<1>4. CASE ~(Cardinality(valid) > 1)
  <2>1. Reject(p, best) \in Decision /\ Reject(p, NotAGap) \in Decision
    BY <1>1, <1>2, RejectType
  <2>2. Nothing \in Decision
    BY DEF Nothing, Decision
  <2>3. valid # {} => recovery[CHOOSE m \in valid : TRUE] \in Decision
    OBVIOUS
  <2> HIDE DEF best, valid
  <2>4. try_unique_candidate_recovery(v, p, matches, verdict, recovery, log)
          \in {Reject(p, NotAGap), Reject(p, best), Nothing}
        \/ /\ valid # {}
           /\ try_unique_candidate_recovery(v, p, matches, verdict, recovery, log)
                = recovery[CHOOSE m \in valid : TRUE]
    BY <1>4 DEF try_unique_candidate_recovery, best, valid
  <2> QED  BY <2>1, <2>2, <2>3, <2>4
<1> QED  BY <1>3, <1>4
\* What the recover functions insert, given that the validator accepted.
LEMMA InsertType ==
  ASSUME NEW rs \in Seq(Record)
  PROVE  Insert(rs) \in Decision
BY DEF Insert, Decision

\* try_recover_null_position_gap inserts records of the secondary history.
LEMMA NullRecoveryType ==
  ASSUME NEW v \in EngineView, NEW p, NEW s
  PROVE  try_recover_null_position_gap(v, p, s) \in Decision
<1>1. Insert(GapBlock(v, p, s)) \in Decision
  BY BlockType, InsertType DEF GapBlock
<1>2. Nothing \in Decision
  BY DEF Nothing, Decision
<1> QED  BY <1>1, <1>2 DEF try_recover_null_position_gap

\* try_recover_mixed_position_gap inserts records of the secondary history.
LEMMA MixedRecoveryType ==
  ASSUME NEW v \in EngineView, NEW p, NEW s
  PROVE  try_recover_mixed_position_gap(v, p, s) \in Decision
BY BlockType, InsertType DEF GapBlock, try_recover_mixed_position_gap

\* try_recover_exact_content_gap inserts records of the secondary history.
LEMMA ExactRecoveryType ==
  ASSUME NEW v \in EngineView, NEW p \in Record, NEW s \in Record,
         validate_exact_content_candidate(v, p, s).ok
  PROVE  try_recover_exact_content_gap(v, p, s) \in Decision
<1> DEFINE byCounter == MissingByCounter(v, p, s)
           n == CHOOSE m \in byCounter : TRUE
           bad == {k \in 1 .. n : ExactProblem(v, p, s, k) # "none"}
<1>1. /\ ~NotAGap.ok
      /\ \A w, m : ~Refuse(w, m).ok /\ ~RefuseNull(w, m).ok
  BY DEF NotAGap, Refuse, RefuseNull
<1>2. ~(byCounter \subseteq {0}) /\ bad = {}
  BY <1>1 DEF validate_exact_content_candidate
<1>3. n \in Nat
  BY <1>2, MissingByCounterType
<1>4. \A k \in 1 .. n : ExactCandidate(v, p, s, k) \subseteq Record
  <2>1. v.h[1] \in Seq(Record)
    BY DEF EngineView, Stream
  <2>2. \A k : Possible(v, p, s, k) \subseteq Record
    BY <2>1, ElementOfSeq DEF Possible
  <2>3. Fallback(v, p, s) \subseteq Record
    BY <2>1, FindIndexType DEF Fallback
  <2> QED  BY <2>2, <2>3 DEF ExactCandidate
<1>5. \A k \in 1 .. n : ExactCandidate(v, p, s, k) # {}
  BY <1>2 DEF ExactProblem
<1> HIDE DEF n, bad, byCounter
<1>6. ExactBlock(v, p, s, n) \in [1 .. n -> Record]
  BY <1>4, <1>5 DEF ExactBlock
<1>7. ExactBlock(v, p, s, n) \in Seq(Record)
  BY <1>3, <1>6 
<1> QED  BY <1>7, InsertType DEF try_recover_exact_content_gap, n, byCounter
\* The three tries decide.
LEMMA TriesType ==
  ASSUME NEW v \in EngineView, NEW p \in Record,
         NEW matches \in SUBSET {v.h[1][k] : k \in DOMAIN v.h[1]}
  PROVE  /\ TryNull(v, p, matches) \in Decision
         /\ TryMixed(v, p, matches) \in Decision
         /\ TryExact(v, p, matches) \in Decision
<1>1. v.h[1] \in Seq(Record)
  BY DEF EngineView, Stream
<1>2. matches \subseteq Record
  BY <1>1, ElementOfSeq
<1>3. TryNull(v, p, matches) \in Decision
  <2> DEFINE verdict == [s \in matches |-> validate_null_position_candidate(v, p, s)]
             recovery == [s \in matches |-> try_recover_null_position_gap(v, p, s)]
  <2>1. \A m \in matches : verdict[m].missing \in Nat
    BY <1>2, VerdictCount
  <2>2. \A m \in matches : verdict[m].ok => recovery[m] \in Decision
    BY NullRecoveryType
  <2> HIDE DEF verdict, recovery
  <2>3. try_unique_candidate_recovery(v, p, matches, verdict, recovery, FALSE) \in Decision
    BY <2>1, <2>2, UniqueType
  <2> QED  BY <2>3 DEF TryNull, verdict, recovery
<1>4. TryMixed(v, p, matches) \in Decision
  <2> DEFINE verdict == [s \in matches |-> validate_mixed_position_candidate(v, p, s)]
             recovery == [s \in matches |-> try_recover_mixed_position_gap(v, p, s)]
  <2>1. \A m \in matches : verdict[m].missing \in Nat
    BY <1>2, VerdictCount
  <2>2. \A m \in matches : verdict[m].ok => recovery[m] \in Decision
    BY MixedRecoveryType
  <2> HIDE DEF verdict, recovery
  <2>3. try_unique_candidate_recovery(v, p, matches, verdict, recovery, FALSE) \in Decision
    BY <2>1, <2>2, UniqueType
  <2> QED  BY <2>3 DEF TryMixed, verdict, recovery
<1>5. TryExact(v, p, matches) \in Decision
  <2> DEFINE verdict == [s \in matches |-> validate_exact_content_candidate(v, p, s)]
             recovery == [s \in matches |-> try_recover_exact_content_gap(v, p, s)]
  <2>1. \A m \in matches : verdict[m].missing \in Nat
    BY <1>2, VerdictCount
  <2>2. \A m \in matches : verdict[m].ok => recovery[m] \in Decision
    BY <1>2, ExactRecoveryType
  <2> HIDE DEF verdict, recovery
  <2>3. try_unique_candidate_recovery(v, p, matches, verdict, recovery, TRUE) \in Decision
    BY <2>1, <2>2, UniqueType
  <2> QED  BY <2>3 DEF TryExact, verdict, recovery
<1> QED  BY <1>3, <1>4, <1>5

\* A damaged packet is left alone, reported, or replaced by one record.
LEMMA TeiType ==
  ASSUME NEW v \in EngineView, NEW p \in Record
  PROVE  LET d == try_recover_primary_tei_packet(v, p)
         IN  d \in Decision /\ (d.kind = "insert" => Len(d.rs) = 1)
<1> DEFINE cand == find_aligned_secondary_record(v, p)
           c    == CHOOSE r \in cand : TRUE
<1>1. cand \subseteq Record
  <2>1. v.h[1] \in Seq(Record)
    BY DEF EngineView, Stream
  <2>2. packet_history_find_index(v.h[1], AlignedIndex(v, p)) \subseteq Record
    BY <2>1, FindIndexType
  <2> QED  BY <2>2 DEF find_aligned_secondary_record
<1>2. cand # {} => <<c>> \in Seq(Record) /\ Len(<<c>>) = 1
  BY <1>1
<1> HIDE DEF cand, c
<1>3. \/ try_recover_primary_tei_packet(v, p) \in {Nothing, Reject(p, NotAGap)}
      \/ cand # {} /\ try_recover_primary_tei_packet(v, p) = Insert(<<c>>)
  BY DEF try_recover_primary_tei_packet, cand, c
<1>4. Nothing \in Decision /\ Nothing.kind # "insert"
  BY DEF Nothing, Decision
<1>5. Reject(p, NotAGap) \in Decision /\ Reject(p, NotAGap).kind # "insert"
  <2>1. NotAGap.missing \in Nat
    BY DEF NotAGap
  <2>2. Reject(p, NotAGap).kind = "reject"
    BY DEF Reject
  <2> QED  BY <2>1, <2>2, RejectType
<1>6. cand # {} => Insert(<<c>>) \in Decision /\ Insert(<<c>>).rs = <<c>>
  BY <1>2, InsertType DEF Insert
<1> QED  BY <1>2, <1>3, <1>4, <1>5, <1>6

(***************************************************************************)
(* The decision that recovery_engine_drain takes for a primary packet p:   *)
(* it inserts records of the secondary history or nothing, it counts a     *)
(* natural number of lost packets, and in place of a damaged packet it     *)
(* puts exactly one.                                                       *)
(***************************************************************************)
THEOREM DecideType ==
  ASSUME NEW v \in EngineView, NEW p \in Record
  PROVE  /\ Decide(v, p) \in Decision
         /\ p.pkt.tei /\ Decide(v, p).kind = "insert" => Len(Decide(v, p).rs) = 1
<1> DEFINE ms == find_secondary_boundary_matches(v, p)
<1>1. ms \in SUBSET {v.h[1][k] : k \in DOMAIN v.h[1]}
  BY DEF find_secondary_boundary_matches
<1>2. CASE p.pkt.tei
  BY <1>2, TeiType DEF Decide
<1>3. CASE ~p.pkt.tei
  <2>1. Nothing \in Decision
    BY DEF Nothing, Decision
  <2>2. UnansweredGap(v, p).missing \in Nat
    <3> DEFINE prev == v.cc[p.pkt.pid]
               byCounter == IF prev = NoCC \/ IsNull(p) THEN {}
                            ELSE infer_missing_from_cc(prev, p)
    <3>1. byCounter \subseteq Nat
      BY CounterGapType
    <3> HIDE DEF byCounter
    <3>2. NotAGap.missing \in Nat /\ \A n : Refuse("missing_candidate", n).missing = n
      BY DEF NotAGap, Refuse
    <3> QED  BY <3>1, <3>2 DEF UnansweredGap, byCounter
  <2>3. Unanswered(v, p) \in Decision
    BY <2>2, RejectType DEF Unanswered
  <2> HIDE DEF ms
  <2>4. DecideGap(v, p, ms) \in {TryNull(v, p, ms), TryMixed(v, p, ms), Nothing,
                                 TryExact(v, p, ms), Unanswered(v, p)}
    BY DEF DecideGap
  <2>5. DecideGap(v, p, ms) \in Decision
    BY <1>1, <2>1, <2>3, <2>4, TriesType
  <2> QED  BY <1>3, <2>5 DEF Decide, ms
<1> QED  BY <1>2, <1>3

\* The anchor that the output of p leaves behind.
LEMMA AnchorType ==
  ASSUME NEW v \in EngineView, NEW p \in Record
  PROVE  update_primary_anchor(v, p) \in Anchor
<1>1. v.h[1] \in Seq(Record) /\ v.anchor \in Anchor
  BY DEF EngineView, Stream
<1>2. packet_history_find_index(v.h[1], AlignedIndex(v, p)) \subseteq Record
  BY <1>1, FindIndexType
<1>3. find_secondary_boundary_matches(v, p) \subseteq Record
  BY <1>1, ElementOfSeq DEF find_secondary_boundary_matches
<1>4. AnchorMatch(v, p) \subseteq Record
  BY <1>2, <1>3 DEF AnchorMatch, find_aligned_secondary_record
<1> QED  BY <1>1, <1>4 DEF update_primary_anchor, Anchor, Record

-----------------------------------------------------------------------------
(***************************************************************************)
(* What is inserted carries the counters on.                               *)
(***************************************************************************)
\* A try that inserts does what the recover function does with one match that
\* its validator accepted; so does one that always reports and does not.
LEMMA UniqueInserts ==
  ASSUME NEW v, NEW p, NEW matches, NEW verdict, NEW recovery, NEW log \in BOOLEAN,
         NEW d, d = try_unique_candidate_recovery(v, p, matches, verdict, recovery, log),
         d.kind = "insert" \/ (log /\ d.kind = "none")
  PROVE  \E m \in matches : verdict[m].ok /\ d = recovery[m]
<1> DEFINE valid == {m \in matches : verdict[m].ok}
           best == BestReject(v, p, matches, verdict)
           second == FirstMatch(v, p, valid \ {FirstMatch(v, p, valid)})
<1>1. \A x : Reject(p, x).kind = "reject"
  BY DEF Reject
<1>2. Nothing.kind = "none"
  BY DEF Nothing
<1>3. valid # {} => (CHOOSE m \in valid : TRUE) \in valid
  OBVIOUS
<1> HIDE DEF best, second
<1>4. \/ d = Reject(p, NotAGap) \/ d = Reject(p, verdict[second]) \/ d = Reject(p, best)
      \/ ~log /\ d = Nothing
      \/ valid # {} /\ d = recovery[CHOOSE m \in valid : TRUE]
  <2> HIDE DEF valid
  <2> QED  BY DEF try_unique_candidate_recovery, best, second, valid
<1>5. valid # {} /\ d = recovery[CHOOSE m \in valid : TRUE]
  BY <1>1, <1>2, <1>4
<1> QED  BY <1>3, <1>5

\* Every record of rs fits behind those before it, and p behind them all.
CarriesOn(cc, rs, p) ==
  /\ \A j \in DOMAIN rs : FitsAfter(cc, SubSeq(rs, 1, j - 1), rs[j])
  /\ FitsAfter(cc, rs, p)

OnlyNulls(rs) == rs # << >> /\ \A j \in DOMAIN rs : IsNull(rs[j])

LEMMA RefusalsAreNotOk ==
  ~NotAGap.ok /\ \A w, m : ~Refuse(w, m).ok /\ ~RefuseNull(w, m).ok
BY DEF NotAGap, Refuse, RefuseNull

LEMMA NullInserts ==
  ASSUME NEW v \in EngineView, NEW p, NEW matches, TryNull(v, p, matches).kind = "insert"
  PROVE  OnlyNulls(TryNull(v, p, matches).rs)
<1> DEFINE verdict == [s \in matches |-> validate_null_position_candidate(v, p, s)]
           recovery == [s \in matches |-> try_recover_null_position_gap(v, p, s)]
           log == FALSE
           d == TryNull(v, p, matches)
<1>1. d = try_unique_candidate_recovery(v, p, matches, verdict, recovery, log) /\ log \in BOOLEAN
  BY DEF TryNull
<1>0. d.kind = "insert"
  OBVIOUS
<1> HIDE DEF verdict, recovery, log, d
<1>2. PICK m \in matches : verdict[m].ok /\ d = recovery[m]
  BY <1>0, <1>1, UniqueInserts
<1>3. /\ validate_null_position_candidate(v, p, m).ok
      /\ d = try_recover_null_position_gap(v, p, m)
  BY <1>2 DEF verdict, recovery
<1> DEFINE block == GapBlock(v, p, m)
           n == MissingByPosition(v, p, m)
<1>4. d.rs = block
  <2>1. Nothing.kind # "insert" /\ Insert(block).rs = block
    BY DEF Nothing, Insert
  <2>2. d = Insert(block) \/ d = Nothing
    BY <1>3 DEF try_recover_null_position_gap
  <2> HIDE DEF block
  <2> QED  BY <1>0, <2>1, <2>2
<1>5. /\ ~(n <= 0) /\ Len(block) = n
      /\ {j \in DOMAIN block : ~IsNull(block[j]) \/ Damaged(block[j])} = {}
  <2> HIDE DEF block, n
  <2> QED  BY <1>3, RefusalsAreNotOk DEF validate_null_position_candidate, block, n
<1>6. block # << >>
  <2>1. Len(<< >>) = 0
    OBVIOUS
  <2>2. ~(0 <= 0) => FALSE
    OBVIOUS
  <2> HIDE DEF block, n
  <2> QED  BY <1>5, <2>1, <2>2
<1>7. OnlyNulls(block)
  BY <1>5, <1>6 DEF OnlyNulls
<1> QED  BY <1>4, <1>7 DEF d

LEMMA MixedInserts ==
  ASSUME NEW v \in EngineView, NEW p, NEW matches, TryMixed(v, p, matches).kind = "insert"
  PROVE  CarriesOn(v.cc, TryMixed(v, p, matches).rs, p)
<1> DEFINE verdict == [s \in matches |-> validate_mixed_position_candidate(v, p, s)]
           recovery == [s \in matches |-> try_recover_mixed_position_gap(v, p, s)]
           log == FALSE
           d == TryMixed(v, p, matches)
<1>1. d = try_unique_candidate_recovery(v, p, matches, verdict, recovery, log) /\ log \in BOOLEAN
  BY DEF TryMixed
<1>0. d.kind = "insert"
  OBVIOUS
<1> HIDE DEF verdict, recovery, log, d
<1>2. PICK m \in matches : verdict[m].ok /\ d = recovery[m]
  BY <1>0, <1>1, UniqueInserts
<1>3. /\ validate_mixed_position_candidate(v, p, m).ok
      /\ d = try_recover_mixed_position_gap(v, p, m)
  BY <1>2 DEF verdict, recovery
<1> DEFINE block == GapBlock(v, p, m)
<1>4. d.rs = block
  BY <1>3 DEF try_recover_mixed_position_gap, Insert
<1>5. MixedBad(v, block) = {} /\ FitsAfter(v.cc, block, p)
  <2> HIDE DEF block
  <2> QED  BY <1>3, RefusalsAreNotOk DEF validate_mixed_position_candidate, block
<1>6. CarriesOn(v.cc, block, p)
  BY <1>5 DEF MixedBad, CarriesOn
<1> QED  BY <1>4, <1>6 DEF d

\* This try never leaves it at nothing.
LEMMA ExactInserts ==
  ASSUME NEW v \in EngineView, NEW p \in Record,
         NEW matches \in SUBSET {v.h[1][k] : k \in DOMAIN v.h[1]},
         TryExact(v, p, matches).kind # "reject"
  PROVE  /\ TryExact(v, p, matches).kind = "insert"
         /\ CarriesOn(v.cc, TryExact(v, p, matches).rs, p)
<1> DEFINE verdict == [s \in matches |-> validate_exact_content_candidate(v, p, s)]
           recovery == [s \in matches |-> try_recover_exact_content_gap(v, p, s)]
           log == TRUE
           d == TryExact(v, p, matches)
<1>1. d = try_unique_candidate_recovery(v, p, matches, verdict, recovery, log) /\ log \in BOOLEAN
  BY DEF TryExact
<1>2. d.kind = "insert" \/ (log /\ d.kind = "none")
  <2>1. d \in Decision /\ d.kind # "reject"
    BY TriesType
  <2> HIDE DEF d
  <2> QED  BY <2>1 DEF Decision
<1> HIDE DEF verdict, recovery, log, d
<1>3. PICK m \in matches : verdict[m].ok /\ d = recovery[m]
  BY <1>1, <1>2, UniqueInserts
<1>4. /\ validate_exact_content_candidate(v, p, m).ok
      /\ d = try_recover_exact_content_gap(v, p, m)
  BY <1>3 DEF verdict, recovery
<1> DEFINE n == CHOOSE k \in MissingByCounter(v, p, m) : TRUE
           block == ExactBlock(v, p, m, n)
<1>5. d.rs = block /\ d.kind = "insert"
  BY <1>4 DEF try_recover_exact_content_gap, Insert
<1>6. /\ ~\E k \in 1 .. n : ~FitsAfter(v.cc, SubSeq(block, 1, k - 1), block[k])
      /\ FitsAfter(v.cc, block, p)
  <2> HIDE DEF block
  <2> QED  BY <1>4, RefusalsAreNotOk DEF validate_exact_content_candidate, block
<1>7. DOMAIN block = 1 .. n
  BY DEF ExactBlock
<1>8. CarriesOn(v.cc, block, p)
  <2> HIDE DEF block
  <2> QED  BY <1>6, <1>7 DEF CarriesOn
<1> QED  BY <1>5, <1>8 DEF d

(***************************************************************************)
(* Whatever the histories, the alignment and the anchor are, what          *)
(* recovery_engine_drain inserts in front of an undamaged primary packet   *)
(* is nulls only, or carries the counter of every PID on from the last     *)
(* output one to that packet; what replaces a damaged one fits likewise;   *)
(* and a packet it lets pass without a word has the next counter.          *)
(***************************************************************************)
THEOREM InsertsFit ==
  ASSUME NEW v \in EngineView, NEW p \in Record, NEW d, d = Decide(v, p)
  PROVE  /\ d.kind = "none" => record_fits_next_output(v.cc, p) /\ d.rs = << >> /\ ~p.pkt.tei
         /\ d.kind = "insert" /\ ~p.pkt.tei => OnlyNulls(d.rs) \/ CarriesOn(v.cc, d.rs, p)
         /\ d.kind = "insert" /\ p.pkt.tei =>
              \E c \in Record : d.rs = <<c>> /\ record_fits_next_output(v.cc, c)
<1> DEFINE ms == find_secondary_boundary_matches(v, p)
<1>1. ms \in SUBSET {v.h[1][k] : k \in DOMAIN v.h[1]}
  BY DEF find_secondary_boundary_matches
<1>2. /\ \A x : Reject(p, x).kind = "reject"
      /\ Nothing.kind = "none" /\ Nothing.rs = << >>
  BY DEF Reject, Nothing
<1>3. CASE p.pkt.tei
  <2> DEFINE cand == find_aligned_secondary_record(v, p)
             c    == CHOOSE r \in cand : TRUE
  <2>1. cand \subseteq Record
    <3>1. v.h[1] \in Seq(Record)
      BY DEF EngineView, Stream
    <3> QED  BY <3>1, FindIndexType DEF find_aligned_secondary_record
  <2>2. cand # {} => c \in Record
    BY <2>1
  <2>3. d = try_recover_primary_tei_packet(v, p)
    BY <1>3 DEF Decide
  <2> HIDE DEF cand, c
  <2>4. \/ d = Reject(p, NotAGap)
        \/ d = Insert(<<c>>) /\ cand # {} /\ TeiCopy(v, p, c)
    BY <1>3, <2>3 DEF try_recover_primary_tei_packet, cand, c
  <2>5. Insert(<<c>>).kind = "insert" /\ Insert(<<c>>).rs = <<c>>
    BY DEF Insert
  <2> QED  BY <1>2, <1>3, <2>2, <2>4, <2>5 DEF TeiCopy
<1>4. CASE ~p.pkt.tei
  <2>1. d = DecideGap(v, p, ms)
    BY <1>4 DEF Decide
  <2> HIDE DEF ms
  <2> DEFINE null == TryNull(v, p, ms)
             mixed == TryMixed(v, p, ms)
             exact == TryExact(v, p, ms)
  <2>2. \/ d = null /\ null.kind # "none"
        \/ d = mixed /\ mixed.kind # "none"
        \/ d = Nothing /\ record_fits_next_output(v.cc, p)
        \/ d = exact
        \/ d = Unanswered(v, p)
    BY <2>1 DEF DecideGap
  <2>3. null.kind = "insert" => OnlyNulls(null.rs)
    BY NullInserts
  <2>4. mixed.kind = "insert" => CarriesOn(v.cc, mixed.rs, p)
    BY MixedInserts
  <2>5. exact.kind # "reject" => exact.kind = "insert" /\ CarriesOn(v.cc, exact.rs, p)
    BY <1>1, ExactInserts
  <2>6. Unanswered(v, p).kind = "reject"
    BY <1>2 DEF Unanswered
  <2> HIDE DEF null, mixed, exact
  <2> QED  BY <1>2, <1>4, <2>2, <2>3, <2>4, <2>5, <2>6
<1> QED  BY <1>3, <1>4

-----------------------------------------------------------------------------
(***************************************************************************)
(* Where the inserted packets come from.                                   *)
(***************************************************************************)
\* Two pairs of equal packets enclose the gap in front of p: the last anchor,
\* and p with s.
Enclosed(v, p, s) ==
  BehindAnchor(v, p, s) /\ BeforeAnchorHolds(v) /\ records_are_non_null_exact_anchor(p, s)

\* rs is what the secondary has more than the primary, at its end.
FillsByPosition(v, p, s, rs) ==
  /\ MissingByPosition(v, p, s) > 0
  /\ PrefixMatches(v, PrimaryBetween(v, p))
  /\ rs = GapBlock(v, p, s)

\* rs continues the counters of p's PID up to p.
FillsByCounter(v, p, s, rs) ==
  /\ ~record_fits_next_output(v.cc, p)
  /\ \E n \in MissingByCounter(v, p, s) :
       /\ DOMAIN rs = 1 .. n
       /\ \A k \in 1 .. n :
            /\ rs[k] \in {v.h[1][j] : j \in DOMAIN v.h[1]}
            /\ rs[k].idx \in v.anchor.s + 1 .. s.idx - 1
            /\ ~IsNull(rs[k]) /\ rs[k].pkt.payload
            /\ rs[k].pkt.pid = p.pkt.pid /\ rs[k].pkt.cc = ExpectedCC(v, p, k)

LEMMA NullFills ==
  ASSUME NEW v \in EngineView, NEW p \in Record, NEW matches \in SUBSET Record,
         TryNull(v, p, matches).kind = "insert"
  PROVE  \E s \in matches : Enclosed(v, p, s) /\ FillsByPosition(v, p, s, TryNull(v, p, matches).rs)
<1> DEFINE verdict == [s \in matches |-> validate_null_position_candidate(v, p, s)]
           recovery == [s \in matches |-> try_recover_null_position_gap(v, p, s)]
           log == FALSE
           d == TryNull(v, p, matches)
<1>1. d = try_unique_candidate_recovery(v, p, matches, verdict, recovery, log) /\ log \in BOOLEAN
  BY DEF TryNull
<1>0. d.kind = "insert"
  OBVIOUS
<1> HIDE DEF verdict, recovery, log, d
<1>2. PICK s \in matches : verdict[s].ok /\ d = recovery[s]
  BY <1>0, <1>1, UniqueInserts
<1>3. /\ validate_null_position_candidate(v, p, s).ok
      /\ d = try_recover_null_position_gap(v, p, s)
  BY <1>2 DEF verdict, recovery
<1> DEFINE block == GapBlock(v, p, s)
           n == MissingByPosition(v, p, s)
<1>4. d.rs = block
  <2>1. Nothing.kind # "insert" /\ Insert(block).rs = block
    BY DEF Nothing, Insert
  <2>2. d = Insert(block) \/ d = Nothing
    BY <1>3 DEF try_recover_null_position_gap
  <2> HIDE DEF block
  <2> QED  BY <1>0, <2>1, <2>2
<1>5. /\ BehindAnchor(v, p, s) /\ ~(n <= 0) /\ BeforeAnchorHolds(v)
      /\ records_are_non_null_exact_anchor(p, s) /\ PrefixMatches(v, PrimaryBetween(v, p))
  <2> HIDE DEF block, n
  <2> QED  BY <1>3, RefusalsAreNotOk DEF validate_null_position_candidate, block, n
<1>6. n > 0
  BY <1>5, PositionGapType
<1>7. Enclosed(v, p, s) /\ FillsByPosition(v, p, s, d.rs)
  BY <1>4, <1>5, <1>6 DEF Enclosed, FillsByPosition
<1> QED  BY <1>7 DEF d

LEMMA MixedFills ==
  ASSUME NEW v \in EngineView, NEW p \in Record, NEW matches \in SUBSET Record,
         TryMixed(v, p, matches).kind = "insert"
  PROVE  \E s \in matches : Enclosed(v, p, s) /\ FillsByPosition(v, p, s, TryMixed(v, p, matches).rs)
<1> DEFINE verdict == [s \in matches |-> validate_mixed_position_candidate(v, p, s)]
           recovery == [s \in matches |-> try_recover_mixed_position_gap(v, p, s)]
           log == FALSE
           d == TryMixed(v, p, matches)
<1>1. d = try_unique_candidate_recovery(v, p, matches, verdict, recovery, log) /\ log \in BOOLEAN
  BY DEF TryMixed
<1>0. d.kind = "insert"
  OBVIOUS
<1> HIDE DEF verdict, recovery, log, d
<1>2. PICK s \in matches : verdict[s].ok /\ d = recovery[s]
  BY <1>0, <1>1, UniqueInserts
<1>3. /\ validate_mixed_position_candidate(v, p, s).ok
      /\ d = try_recover_mixed_position_gap(v, p, s)
  BY <1>2 DEF verdict, recovery
<1> DEFINE block == GapBlock(v, p, s)
           n == MissingByPosition(v, p, s)
<1>4. d.rs = block
  BY <1>3 DEF try_recover_mixed_position_gap, Insert
<1>5. /\ BehindAnchor(v, p, s) /\ ~(n <= 0) /\ BeforeAnchorHolds(v)
      /\ records_are_non_null_exact_anchor(p, s) /\ PrefixMatches(v, PrimaryBetween(v, p))
  <2> HIDE DEF block, n
  <2> QED  BY <1>3, RefusalsAreNotOk DEF validate_mixed_position_candidate, block, n
<1>6. n > 0
  BY <1>5, PositionGapType
<1>7. Enclosed(v, p, s) /\ FillsByPosition(v, p, s, d.rs)
  BY <1>4, <1>5, <1>6 DEF Enclosed, FillsByPosition
<1> QED  BY <1>7 DEF d

\* A candidate without a problem lies behind the anchor and in front of s, and
\* has the counter that is missing.
LEMMA CandidateIsBetween ==
  ASSUME NEW v \in EngineView, NEW p \in Record, NEW s \in Record, NEW k,
         BehindAnchor(v, p, s), ExactProblem(v, p, s, k) = "none",
         NEW c, c = CHOOSE r \in ExactCandidate(v, p, s, k) : TRUE
  PROVE  /\ c \in {v.h[1][j] : j \in DOMAIN v.h[1]}
         /\ c.idx \in v.anchor.s + 1 .. s.idx - 1
         /\ ~IsNull(c) /\ c.pkt.payload
         /\ c.pkt.pid = p.pkt.pid /\ c.pkt.cc = ExpectedCC(v, p, k)
<1> DEFINE a == v.anchor.s
           pb == PrimaryBetween(v, p)
           sb == SecondaryBetween(v, s)
           first == ExactFirstIndex(v, p, s)
<1>1. /\ ExactCandidate(v, p, s, k) # {} /\ ~IsNull(c) /\ c.pkt.pid = p.pkt.pid
      /\ c.pkt.payload /\ c.pkt.cc = ExpectedCC(v, p, k)
  BY DEF ExactProblem
<1>2. c \in ExactCandidate(v, p, s, k)
  BY <1>1
<1>3. /\ a \in Nat /\ v.anchor.p \in Nat /\ p.idx \in Nat /\ s.idx \in Nat
      /\ s.idx > a /\ p.idx > v.anchor.p
      /\ pb = p.idx - v.anchor.p - 1 /\ sb = s.idx - a - 1
  BY DEF EngineView, Anchor, Record, BehindAnchor, PrimaryBetween, SecondaryBetween
<1>4. first = a + 1 \/ (first = a + 1 + pb /\ pb > 0)
  <2>1. a + 1 + 0 = a + 1
    BY <1>3
  <2>2. first = a + 1 + 0 \/ (first = a + 1 + pb /\ pb > 0)
    BY DEF ExactFirstIndex
  <2> QED  BY <2>1, <2>2
<1>5. CASE Possible(v, p, s, k) # {}
  <2>1. c \in Possible(v, p, s, k)
    BY <1>2, <1>5 DEF ExactCandidate
  <2>2. c \in {v.h[1][j] : j \in DOMAIN v.h[1]} /\ c.idx \in first .. s.idx - 1
    BY <2>1 DEF Possible
  <2> HIDE DEF first, pb, a
  <2>3. c.idx \in a + 1 .. s.idx - 1
    <3>1. pb \in Int
      BY <1>3
    <3>2. first \in Int /\ first >= a + 1
      BY <1>3, <1>4, <3>1
    <3> QED  BY <1>3, <2>2, <3>2
  <2> QED  BY <1>1, <2>2, <2>3 DEF a
<1>6. CASE Possible(v, p, s, k) = {}
  <2>1. c \in Fallback(v, p, s)
    BY <1>2, <1>6 DEF ExactCandidate
  <2> DEFINE i == IF pb = 0 THEN a + 1 ELSE s.idx - 1
  <2>2. MissingByPosition(v, p, s) = 1 /\ c \in packet_history_find_index(v.h[1], i)
    BY <2>1 DEF Fallback
  <2>3. sb - pb = 1
    BY <2>2 DEF MissingByPosition
  <2>4. c \in {v.h[1][j] : j \in DOMAIN v.h[1]} /\ c.idx = i
    <3> HIDE DEF i
    <3> QED  BY <2>2 DEF packet_history_find_index
  <2> HIDE DEF pb, sb, a
  <2>5. a + 1 <= s.idx - 1
    BY <1>3, <2>3
  <2>6. i \in a + 1 .. s.idx - 1
    BY <1>3, <2>5
  <2> QED  BY <1>1, <2>4, <2>6 DEF a
<1> QED  BY <1>5, <1>6

LEMMA ExactFills ==
  ASSUME NEW v \in EngineView, NEW p \in Record, NEW matches \in SUBSET Record,
         TryExact(v, p, matches).kind = "insert"
  PROVE  \E s \in matches : Enclosed(v, p, s) /\ FillsByCounter(v, p, s, TryExact(v, p, matches).rs)
<1> DEFINE verdict == [s \in matches |-> validate_exact_content_candidate(v, p, s)]
           recovery == [s \in matches |-> try_recover_exact_content_gap(v, p, s)]
           log == TRUE
           d == TryExact(v, p, matches)
<1>1. d = try_unique_candidate_recovery(v, p, matches, verdict, recovery, log) /\ log \in BOOLEAN
  BY DEF TryExact
<1>0. d.kind = "insert"
  OBVIOUS
<1> HIDE DEF verdict, recovery, log, d
<1>2. PICK s \in matches : verdict[s].ok /\ d = recovery[s]
  BY <1>0, <1>1, UniqueInserts
<1>3. /\ validate_exact_content_candidate(v, p, s).ok
      /\ d = try_recover_exact_content_gap(v, p, s)
  BY <1>2 DEF verdict, recovery
<1> DEFINE ns == MissingByCounter(v, p, s)
           n == CHOOSE k \in ns : TRUE
           block == ExactBlock(v, p, s, n)
           bad == {k \in 1 .. n : ExactProblem(v, p, s, k) # "none"}
<1>4. d.rs = block
  BY <1>3 DEF try_recover_exact_content_gap, Insert
<1>5. /\ BehindAnchor(v, p, s) /\ ~record_fits_next_output(v.cc, p) /\ ~(ns \subseteq {0})
      /\ BeforeAnchorHolds(v) /\ records_are_non_null_exact_anchor(p, s) /\ bad = {}
  <2> HIDE DEF block, n, ns, bad
  <2> QED  BY <1>3, RefusalsAreNotOk DEF validate_exact_content_candidate, block, n, ns, bad
<1>6. n \in ns
  BY <1>5
<1> HIDE DEF n, ns
<1>7. ASSUME NEW k \in 1 .. n
      PROVE  /\ block[k] \in {v.h[1][j] : j \in DOMAIN v.h[1]}
             /\ block[k].idx \in v.anchor.s + 1 .. s.idx - 1
             /\ ~IsNull(block[k]) /\ block[k].pkt.payload
             /\ block[k].pkt.pid = p.pkt.pid /\ block[k].pkt.cc = ExpectedCC(v, p, k)
  <2>1. ExactProblem(v, p, s, k) = "none"
    BY <1>5
  <2>2. block[k] = CHOOSE r \in ExactCandidate(v, p, s, k) : TRUE
    BY DEF ExactBlock
  <2>3. s \in Record
    OBVIOUS
  <2> HIDE DEF block
  <2> QED  BY <1>5, <2>1, <2>2, <2>3, CandidateIsBetween
<1>8. DOMAIN block = 1 .. n
  BY DEF ExactBlock
<1> HIDE DEF block
<1>9. Enclosed(v, p, s) /\ FillsByCounter(v, p, s, block)
  BY <1>5, <1>6, <1>7, <1>8 DEF Enclosed, FillsByCounter, ns
<1> QED  BY <1>4, <1>9 DEF d

(***************************************************************************)
(* Whatever the histories, the alignment and the anchor are, what          *)
(* recovery_engine_drain inserts in front of an undamaged primary packet   *)
(* lies in the secondary between two pairs of equal packets, the last      *)
(* anchor and the packet itself; it is inserted because the secondary has  *)
(* more packets in between than the primary, behind those they share, or   *)
(* because the packet's counter does not fit and the inserted ones have    *)
(* the counters that are missing.                                          *)
(***************************************************************************)
THEOREM InsertsAreEnclosed ==
  ASSUME NEW v \in EngineView, NEW p \in Record, ~p.pkt.tei,
         NEW d, d = Decide(v, p), d.kind = "insert"
  PROVE  \E s \in {v.h[1][k] : k \in DOMAIN v.h[1]} :
           /\ Enclosed(v, p, s)
           /\ FillsByPosition(v, p, s, d.rs) \/ FillsByCounter(v, p, s, d.rs)
<1> DEFINE ms == find_secondary_boundary_matches(v, p)
           null == TryNull(v, p, ms)
           mixed == TryMixed(v, p, ms)
           exact == TryExact(v, p, ms)
<1>1. ms \in SUBSET {v.h[1][k] : k \in DOMAIN v.h[1]}
  BY DEF find_secondary_boundary_matches
<1>2. ms \in SUBSET Record
  <2>1. v.h[1] \in Seq(Record)
    BY DEF EngineView, Stream
  <2> QED  BY <1>1, <2>1, ElementOfSeq
<1>3. /\ \A x : Reject(p, x).kind = "reject"
      /\ Nothing.kind = "none"
  BY DEF Reject, Nothing
<1>4. d = DecideGap(v, p, ms)
  BY DEF Decide
<1> HIDE DEF ms
<1>5. d \in {null, mixed, Nothing, exact, Unanswered(v, p)}
  BY <1>4 DEF DecideGap
<1>6. Unanswered(v, p).kind = "reject"
  BY <1>3 DEF Unanswered
<1>7. /\ null.kind = "insert" =>
           \E s \in ms : Enclosed(v, p, s) /\ FillsByPosition(v, p, s, null.rs)
      /\ mixed.kind = "insert" =>
           \E s \in ms : Enclosed(v, p, s) /\ FillsByPosition(v, p, s, mixed.rs)
      /\ exact.kind = "insert" =>
           \E s \in ms : Enclosed(v, p, s) /\ FillsByCounter(v, p, s, exact.rs)
  BY <1>2, NullFills, MixedFills, ExactFills
<1> HIDE DEF null, mixed, exact
<1>8. \E s \in ms : /\ Enclosed(v, p, s)
                    /\ FillsByPosition(v, p, s, d.rs) \/ FillsByCounter(v, p, s, d.rs)
  BY <1>3, <1>5, <1>6, <1>7
<1> QED  BY <1>1, <1>8

\* The copy that stands in for a damaged packet p has its PID and its counter,
\* and the packets behind the two are equal.
LEMMA CopyIsFollowed ==
  ASSUME NEW v, NEW p, p.pkt.tei, NEW d, d = Decide(v, p), d.kind = "insert"
  PROVE  \E c \in {v.h[1][k] : k \in DOMAIN v.h[1]} :
           /\ d.rs = <<c>>
           /\ ~IsNull(p) /\ p.pkt.payload /\ ~IsNull(c) /\ c.pkt.payload
           /\ c.pkt.pid = p.pkt.pid /\ c.pkt.cc = p.pkt.cc
           /\ \E a \in packet_history_find_index(v.h[0], p.idx + 1),
                 b \in packet_history_find_index(v.h[1], c.idx + 1) :
                   records_are_non_null_exact_anchor(a, b)
<1> DEFINE cand == find_aligned_secondary_record(v, p)
           c    == CHOOSE r \in cand : TRUE
<1>1. cand \subseteq {v.h[1][k] : k \in DOMAIN v.h[1]}
  BY DEF find_aligned_secondary_record, packet_history_find_index
<1>2. cand # {} => c \in cand
  OBVIOUS
<1>3. d = try_recover_primary_tei_packet(v, p)
  BY DEF Decide
<1> HIDE DEF cand, c
<1>4. \/ d = Reject(p, NotAGap)
      \/ /\ d = Insert(<<c>>) /\ cand # {} /\ TeiCopy(v, p, c) /\ ~IsNull(p) /\ p.pkt.payload
         /\ \E a \in packet_history_find_index(v.h[0], p.idx + 1),
               b \in packet_history_find_index(v.h[1], c.idx + 1) :
                 records_are_non_null_exact_anchor(a, b)
  BY <1>3 DEF try_recover_primary_tei_packet, cand, c
<1>5. Reject(p, NotAGap).kind = "reject" /\ Insert(<<c>>).rs = <<c>>
  BY DEF Reject, Insert
<1> QED  BY <1>1, <1>2, <1>4, <1>5 DEF TeiCopy

\* A try that rejects inserts nothing.
LEMMA UniqueRejects ==
  ASSUME NEW v, NEW p, NEW matches, NEW verdict, NEW recovery, NEW log,
         \A m \in matches : recovery[m].kind # "reject",
         NEW d, d = try_unique_candidate_recovery(v, p, matches, verdict, recovery, log),
         d.kind = "reject"
  PROVE  d.rs = << >>
<1> DEFINE valid == {m \in matches : verdict[m].ok}
           best == BestReject(v, p, matches, verdict)
           second == FirstMatch(v, p, valid \ {FirstMatch(v, p, valid)})
<1>1. \A x : Reject(p, x).rs = << >>
  BY DEF Reject
<1>2. Nothing.kind = "none"
  BY DEF Nothing
<1>3. valid # {} => (CHOOSE m \in valid : TRUE) \in matches
  OBVIOUS
<1> HIDE DEF best, second
<1>4. \/ d = Reject(p, NotAGap) \/ d = Reject(p, verdict[second]) \/ d = Reject(p, best)
      \/ d = Nothing
      \/ valid # {} /\ d = recovery[CHOOSE m \in valid : TRUE]
  <2> HIDE DEF valid
  <2> QED  BY DEF try_unique_candidate_recovery, best, second, valid
<1> HIDE DEF valid
<1> QED  BY <1>1, <1>2, <1>3, <1>4

\* Only a decision to insert holds packets.
LEMMA RejectsAreEmpty ==
  ASSUME NEW v \in EngineView, NEW p \in Record, NEW d, d = Decide(v, p), d.kind # "insert"
  PROVE  d.rs = << >>
<1>1. d.kind = "none" => d.rs = << >>
  BY InsertsFit
<1>2. d.kind \in {"none", "reject", "insert"}
  BY DecideType DEF Decision
<1>3. /\ \A x : Reject(p, x).rs = << >>
      /\ Nothing.rs = << >> /\ Nothing.kind = "none" /\ \A rs : Insert(rs).kind = "insert"
  BY DEF Reject, Nothing, Insert
<1>4. CASE p.pkt.tei
  <2>1. \/ d = Reject(p, NotAGap) \/ d = Nothing \/ \E rs : d = Insert(rs)
    BY <1>4 DEF Decide, try_recover_primary_tei_packet
  <2> QED  BY <1>3, <2>1
<1>5. CASE ~p.pkt.tei
  <2> DEFINE ms == find_secondary_boundary_matches(v, p)
             null == TryNull(v, p, ms)
             mixed == TryMixed(v, p, ms)
             exact == TryExact(v, p, ms)
  <2>1. d = DecideGap(v, p, ms)
    BY <1>5 DEF Decide
  <2> HIDE DEF ms
  <2>2. d \in {null, mixed, Nothing, exact, Unanswered(v, p)}
    BY <2>1 DEF DecideGap
  <2>3. null.kind = "reject" => null.rs = << >>
    <3> DEFINE recovery == [s \in ms |-> try_recover_null_position_gap(v, p, s)]
    <3>1. \A m \in ms : recovery[m].kind # "reject"
      BY <1>3 DEF try_recover_null_position_gap
    <3> HIDE DEF recovery
    <3>2. null = try_unique_candidate_recovery(v, p, ms,
                   [s \in ms |-> validate_null_position_candidate(v, p, s)], recovery, FALSE)
      BY DEF TryNull, recovery
    <3> QED  BY <3>1, <3>2, UniqueRejects
  <2>4. mixed.kind = "reject" => mixed.rs = << >>
    <3> DEFINE recovery == [s \in ms |-> try_recover_mixed_position_gap(v, p, s)]
    <3>1. \A m \in ms : recovery[m].kind # "reject"
      BY <1>3 DEF try_recover_mixed_position_gap
    <3> HIDE DEF recovery
    <3>2. mixed = try_unique_candidate_recovery(v, p, ms,
                   [s \in ms |-> validate_mixed_position_candidate(v, p, s)], recovery, FALSE)
      BY DEF TryMixed, recovery
    <3> QED  BY <3>1, <3>2, UniqueRejects
  <2>5. exact.kind = "reject" => exact.rs = << >>
    <3> DEFINE recovery == [s \in ms |-> try_recover_exact_content_gap(v, p, s)]
    <3>1. \A m \in ms : recovery[m].kind # "reject"
      BY <1>3 DEF try_recover_exact_content_gap
    <3> HIDE DEF recovery
    <3>2. exact = try_unique_candidate_recovery(v, p, ms,
                   [s \in ms |-> validate_exact_content_candidate(v, p, s)], recovery, TRUE)
      BY DEF TryExact, recovery
    <3> QED  BY <3>1, <3>2, UniqueRejects
  <2>6. Unanswered(v, p).rs = << >>
    BY <1>3 DEF Unanswered
  <2> HIDE DEF null, mixed, exact
  <2> QED  BY <1>1, <1>2, <1>3, <2>2, <2>3, <2>4, <2>5, <2>6
<1> QED  BY <1>4, <1>5
=============================================================================
