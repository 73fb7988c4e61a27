----------------------------- MODULE GapRecovery -----------------------------
(***************************************************************************)
(* The recovery decision of recovery_engine.c: given the primary packet    *)
(* about to be output, which packets of the secondary history (if any) are *)
(* inserted in front of it, or why none is.                                *)
(*                                                                         *)
(* Everything here is a function of a view v of the engine                 *)
(*    v.h       the two packet histories                                   *)
(*    v.cc      the last counter output on each PID (output_pid_state)     *)
(*    v.anchor  last_primary_anchor, the last pair of equal packets        *)
(*    v.align   alignment_state_t                                          *)
(* and of the primary record p and a secondary record s that equals it.    *)
(***************************************************************************)
EXTENDS PacketRecord, RecordBuffers

CONSTANTS
  BoundaryExtra,   \* STAGE1_BOUNDARY_SEARCH_EXTRA (8)
  OversizeScan,    \* OVERSIZE_AFTER_ANCHOR_SCAN_PACKETS (255)
  MaxCandidates,   \* MAX_SECONDARY_AFTER_ANCHOR_CANDIDATES (64)
  MaxBurst,        \* config.max_content_burst_packets (15)
  MinConfidence    \* config.min_alignment_confidence (40)

ASSUME RecoveryAssumption ==
  /\ BoundaryExtra \in Nat /\ OversizeScan \in Nat
  /\ MaxCandidates \in Nat \ {0}
  /\ MaxBurst \in Nat /\ MinConfidence \in Nat

Anchor == [valid: BOOLEAN, p: Nat, s: Nat]
Alignment == [has: BOOLEAN, offset: Int, confidence: 0 .. 100, misses: Nat]
EngineView == [h: [Stream -> Seq(Record)], cc: [Pid -> CC \cup {NoCC}],
               anchor: Anchor, align: Alignment]

\* recovery_reject_reason_t
RejectReason == {"missing_candidate", "ambiguous", "low_alignment", "wrong_pid",
                 "wrong_counter", "burst_too_large", "tei", "discontinuity"}

-----------------------------------------------------------------------------
(***************************************************************************)
(* The secondary records that may be the packet p itself.  The code keeps  *)
(* them in the order it finds them: the aligned record, then               *)
(* the neighbourhood of the aligned index, then everything the last anchor *)
(* leaves room for.                                                        *)
(***************************************************************************)
AlignedIndex(v, p) == p.idx + v.align.offset

find_aligned_secondary_record(v, p) ==
  IF v.align.has THEN packet_history_find_index(v.h[1], AlignedIndex(v, p)) ELSE {}

NearAligned(v, p, r) ==
  v.align.has /\ r.idx \in AlignedIndex(v, p) - BoundaryExtra ..
                           AlignedIndex(v, p) + BoundaryExtra

ScanLimit == Max({MaxBurst + 1, OversizeScan})

AfterAnchor(v, p, r) ==
  /\ v.anchor.valid
  /\ p.idx > v.anchor.p
  /\ r.idx \in v.anchor.s + 1 .. v.anchor.s + p.idx - v.anchor.p + ScanLimit

find_secondary_boundary_matches(v, p) ==
  IF ~record_is_informative(p) THEN {}
  ELSE {r \in {v.h[1][k] : k \in DOMAIN v.h[1]} :
          /\ records_exact_non_error_match(p, r)
          /\ NearAligned(v, p, r) \/ AfterAnchor(v, p, r)}

Truncated(matches) == Cardinality(matches) > MaxCandidates

\* The first and the last of the matches ms (not empty) in that order.
MatchZone(v, p, r) ==
  IF v.align.has /\ r.idx = AlignedIndex(v, p) THEN 0
  ELSE IF NearAligned(v, p, r) THEN 1 ELSE 2

InZone(v, p, ms, z) ==
  {k \in DOMAIN v.h[1] : v.h[1][k] \in ms /\ MatchZone(v, p, v.h[1][k]) = z}

Zones(v, p, ms) == {z \in 0 .. 2 : InZone(v, p, ms, z) # {}}

FirstMatch(v, p, ms) == v.h[1][Min(InZone(v, p, ms, Min(Zones(v, p, ms))))]
LastMatch(v, p, ms)  == v.h[1][Max(InZone(v, p, ms, Max(Zones(v, p, ms))))]

-----------------------------------------------------------------------------
(***************************************************************************)
(* A verdict is a recovery_candidate_validation_t: ok or the reason not to *)
(* recover, and the count of missing packets when it is known.  loss is    *)
(* false for the reasons named "null_...", which                           *)
(* observe_unrecoverable_primary_gap leaves out of unrecoverable_loss.     *)
(***************************************************************************)
Verdict == [ok: BOOLEAN, why: RejectReason, has: BOOLEAN, missing: Nat, loss: BOOLEAN]

NotAGap == [ok |-> FALSE, why |-> "missing_candidate", has |-> FALSE, missing |-> 0,
            loss |-> TRUE]
Refuse(why, n) == [ok |-> FALSE, why |-> why, has |-> TRUE, missing |-> n, loss |-> TRUE]
RefuseNull(why, n) == [ok |-> FALSE, why |-> why, has |-> TRUE, missing |-> n, loss |-> FALSE]
Accept(n) == [ok |-> TRUE, why |-> "missing_candidate", has |-> TRUE, missing |-> n,
              loss |-> TRUE]

PrimaryBetween(v, p) == p.idx - v.anchor.p - 1
SecondaryBetween(v, s) == s.idx - v.anchor.s - 1
MissingByPosition(v, p, s) == SecondaryBetween(v, s) - PrimaryBetween(v, p)

\* p and s both lie behind the last anchor.
BehindAnchor(v, p, s) ==
  /\ record_is_informative(p)
  /\ v.anchor.valid
  /\ s.idx > v.anchor.s /\ p.idx > v.anchor.p

LowConfidence(v) == v.align.confidence < MinConfidence

\* The two records of the last anchor are still in the histories and equal.
BeforeAnchorHolds(v) ==
  \E a \in packet_history_find_index(v.h[0], v.anchor.p),
     b \in packet_history_find_index(v.h[1], v.anchor.s) :
       records_are_non_null_exact_anchor(a, b)

\* What primary delivered since the anchor is what secondary delivered first.
PrefixMatches(v, n) ==
  \A i \in 1 .. n :
    \E a \in packet_history_find_index(v.h[0], v.anchor.p + i),
       b \in packet_history_find_index(v.h[1], v.anchor.s + i) :
         records_exact_non_error_match(a, b)

\* The records with index first .. first+n-1 of the secondary history, or a
\* shorter sequence when some are no longer there.
Block(v, first, n) ==
  LET at == {k \in DOMAIN v.h[1] : v.h[1][k].idx \in first .. first + n - 1}
  IN  IF at = {} THEN << >> ELSE SubSeq(v.h[1], Min(at), Max(at))

\* The records that stand behind the matched prefix and in front of s.
GapBlock(v, p, s) ==
  Block(v, v.anchor.s + PrimaryBetween(v, p) + 1, MissingByPosition(v, p, s))

TooLong_unbounded(n) == FALSE
TooLong(n) == n > MaxBurst

-----------------------------------------------------------------------------
(***************************************************************************)
(* A gap made of null packets only.                                        *)
(***************************************************************************)
\* Why the record r of the block is not one.
NullProblem(r) ==
  IF ~IsNull(r) THEN "missing_candidate"
  ELSE IF r.pkt.tei THEN "tei" ELSE "discontinuity"

validate_null_position_candidate(v, p, s) ==
  LET n     == MissingByPosition(v, p, s)
      over  == Block(v, v.anchor.s + PrimaryBetween(v, p) + 1, MaxBurst + 1)
      block == GapBlock(v, p, s)
      bad   == {j \in DOMAIN block : ~IsNull(block[j]) \/ Damaged(block[j])}
  IN  IF ~BehindAnchor(v, p, s) \/ n <= 0 THEN NotAGap
      ELSE IF TooLong(n) THEN
             IF Len(over) = MaxBurst + 1 /\ \A j \in DOMAIN over : IsNull(over[j])
             THEN RefuseNull("burst_too_large", n)
             ELSE Refuse("missing_candidate", n)
      ELSE IF LowConfidence(v) THEN Refuse("low_alignment", n)
      ELSE IF ~BeforeAnchorHolds(v) THEN Refuse("ambiguous", n)
      ELSE IF ~records_are_non_null_exact_anchor(p, s) THEN Refuse("ambiguous", n)
      ELSE IF ~PrefixMatches(v, PrimaryBetween(v, p)) THEN Refuse("ambiguous", n)
      ELSE IF Len(block) # n THEN Refuse("missing_candidate", n)
      ELSE IF bad # {} THEN Refuse(NullProblem(block[Min(bad)]), n)
      ELSE Accept(n)

(***************************************************************************)
(* A gap of nulls and content: the block must carry every counter on.      *)
(***************************************************************************)
MixedProblem(r) ==
  IF r.pkt.tei THEN "tei" ELSE IF r.pkt.disc THEN "discontinuity" ELSE "wrong_counter"

\* The records of block that are damaged or do not carry the counters on.
MixedBad(v, block) ==
  {j \in DOMAIN block : \/ Damaged(block[j])
                        \/ ~FitsAfter(v.cc, SubSeq(block, 1, j - 1), block[j])}

validate_mixed_position_candidate(v, p, s) ==
  LET n     == MissingByPosition(v, p, s)
      block == GapBlock(v, p, s)
      bad   == MixedBad(v, block)
      content == {j \in DOMAIN block : ~IsNull(block[j])}
      byCounter == IF v.cc[p.pkt.pid] = NoCC THEN {}
                   ELSE infer_missing_from_cc(v.cc[p.pkt.pid], p)
  IN  IF ~BehindAnchor(v, p, s) \/ n <= 0 THEN NotAGap
      ELSE IF TooLong(n) THEN Refuse("burst_too_large", n)
      ELSE IF LowConfidence(v) THEN Refuse("low_alignment", n)
      ELSE IF ~BeforeAnchorHolds(v) THEN Refuse("ambiguous", n)
      ELSE IF ~records_are_non_null_exact_anchor(p, s) THEN Refuse("ambiguous", n)
      ELSE IF ~PrefixMatches(v, PrimaryBetween(v, p)) THEN Refuse("ambiguous", n)
      ELSE IF Len(block) # n THEN Refuse("missing_candidate", n)
      ELSE IF bad # {} THEN Refuse(MixedProblem(block[Min(bad)]), n)
      ELSE IF content = {} THEN Refuse("missing_candidate", n)
      ELSE IF ~FitsAfter(v.cc, block, p)
           THEN IF /\ \E m \in byCounter : m <= n
                   /\ \A j \in content : block[j].pkt.pid # p.pkt.pid
                THEN Refuse("wrong_pid", n) ELSE Refuse("wrong_counter", n)
      ELSE Accept(n)

-----------------------------------------------------------------------------
(***************************************************************************)
(* A gap in the counters of p's own PID.                                   *)
(***************************************************************************)
\* How many packets the counters say are missing before p.
MissingByCounter(v, p, s) ==
  LET prev  == v.cc[p.pkt.pid]
      n     == MissingByPosition(v, p, s)
      delta == infer_missing_from_cc(prev, p)
  IN  IF prev = NoCC THEN {}
      ELSE IF delta # {} THEN delta
      ELSE {m \in {n} : /\ p.pkt.payload
                        /\ m > 0 /\ m <= CCMod - 1
                        /\ p.pkt.cc = (prev + m + 1) % CCMod}

\* Where the search for the missing packets starts.
ExactFirstIndex(v, p, s) ==
  v.anchor.s + 1 +
    (IF /\ PrimaryBetween(v, p) > 0
        /\ SecondaryBetween(v, s) > PrimaryBetween(v, p)
        /\ PrefixMatches(v, PrimaryBetween(v, p))
     THEN PrimaryBetween(v, p) ELSE 0)

ExpectedCC(v, p, k) == (v.cc[p.pkt.pid] + k) % CCMod

\* The records that carry the k-th missing counter.
Possible(v, p, s, k) ==
  {r \in {v.h[1][j] : j \in DOMAIN v.h[1]} :
     /\ r.idx \in ExactFirstIndex(v, p, s) .. s.idx - 1
     /\ ~IsNull(r) /\ r.pkt.payload
     /\ r.pkt.pid = p.pkt.pid /\ r.pkt.cc = ExpectedCC(v, p, k)}

\* With one packet missing by position, the packet at that position is tried.
Fallback(v, p, s) ==
  IF MissingByPosition(v, p, s) # 1 THEN {}
  ELSE packet_history_find_index(v.h[1],
         IF PrimaryBetween(v, p) = 0 THEN v.anchor.s + 1 ELSE s.idx - 1)

ExactCandidate(v, p, s, k) ==
  IF Possible(v, p, s, k) = {} THEN Fallback(v, p, s) ELSE Possible(v, p, s, k)

ExactProblem(v, p, s, k) ==
  LET cand == ExactCandidate(v, p, s, k)
      c    == CHOOSE r \in cand : TRUE
  IN  IF Cardinality(Possible(v, p, s, k)) > 1 THEN "ambiguous"
      ELSE IF cand = {} THEN "missing_candidate"
      ELSE IF IsNull(c) THEN "null_candidate"
      ELSE IF c.pkt.tei THEN "tei"
      ELSE IF c.pkt.disc THEN "discontinuity"
      ELSE IF c.pkt.pid # p.pkt.pid THEN "wrong_pid"
      ELSE IF ~c.pkt.payload \/ c.pkt.cc # ExpectedCC(v, p, k) THEN "wrong_counter"
      ELSE "none"

ExactBlock(v, p, s, n) ==
  [k \in 1 .. n |-> CHOOSE r \in ExactCandidate(v, p, s, k) : TRUE]

validate_exact_content_candidate(v, p, s) ==
  LET byCounter == MissingByCounter(v, p, s)
      n     == CHOOSE m \in byCounter : TRUE
      bad   == {k \in 1 .. n : ExactProblem(v, p, s, k) # "none"}
      why   == ExactProblem(v, p, s, Min(bad))
      block == ExactBlock(v, p, s, n)
  IN  IF \/ ~BehindAnchor(v, p, s)
         \/ MissingByPosition(v, p, s) < 0
         \/ record_fits_next_output(v.cc, p)
         \/ byCounter \subseteq {0}
      THEN NotAGap
      ELSE IF TooLong(n) THEN Refuse("burst_too_large", n)
      ELSE IF LowConfidence(v) THEN Refuse("low_alignment", n)
      ELSE IF ~BeforeAnchorHolds(v) THEN Refuse("ambiguous", n)
      ELSE IF ~records_are_non_null_exact_anchor(p, s) THEN Refuse("ambiguous", n)
      ELSE IF bad # {}
           THEN IF why = "null_candidate" THEN RefuseNull("wrong_pid", n) ELSE Refuse(why, n)
      ELSE IF \/ \E k \in 1 .. n : ~FitsAfter(v.cc, SubSeq(block, 1, k - 1), block[k])
              \/ ~FitsAfter(v.cc, block, p)
           THEN Refuse("wrong_counter", n)
      ELSE Accept(n)

-----------------------------------------------------------------------------
(***************************************************************************)
(* A decision is what one try_... function does: nothing, reject (and      *)
(* count the loss when it is known), or insert the records rs.             *)
(***************************************************************************)
Decision == [kind: {"none", "reject", "insert"}, loss: Nat, rs: Seq(Record)]

Nothing == [kind |-> "none", loss |-> 0, rs |-> << >>]
Insert(rs) == [kind |-> "insert", loss |-> 0, rs |-> rs]

\* recovery_reject_log with observe_unrecoverable_primary_gap.
Reject(p, verdict) ==
  [kind |-> "reject", rs |-> << >>,
   loss |-> IF verdict.has /\ verdict.loss /\ record_is_informative(p)
            THEN verdict.missing ELSE 0]

validation_reject_is_definitive(verdict) ==
  verdict.why \in {"wrong_counter", "tei", "discontinuity", "burst_too_large",
                   "low_alignment"}

\* verdict[m] is the validator's answer for the match m.  The one that speaks for
\* all: the last with a reason of its own, or else the first that knows how many
\* packets are missing.
BestReject(v, p, matches, verdict) ==
  LET own   == {m \in matches : verdict[m].why # "missing_candidate"}
      known == {m \in matches : verdict[m].has}
  IN  IF own # {} THEN verdict[LastMatch(v, p, own)]
      ELSE IF known # {} THEN verdict[FirstMatch(v, p, known)]
      ELSE NotAGap

\* recovery[m] is what the recover function does with the match m.
try_unique_candidate_recovery(v, p, matches, verdict, recovery, log_no_valid) ==
  LET valid  == {m \in matches : verdict[m].ok}
      second == FirstMatch(v, p, valid \ {FirstMatch(v, p, valid)})
      best   == BestReject(v, p, matches, verdict)
  IN  IF Truncated(matches) THEN Reject(p, NotAGap)
      ELSE IF Cardinality(valid) > 1 THEN Reject(p, verdict[second])
      ELSE IF valid # {} THEN recovery[CHOOSE m \in valid : TRUE]
      ELSE IF log_no_valid \/ validation_reject_is_definitive(best) THEN Reject(p, best)
      ELSE Nothing

\* Run only on a pair its validator accepted, the three recover functions
\* repeat the checks and insert the block; the null one adds a condition.
try_recover_null_position_gap(v, p, s) ==
  IF PrimaryBetween(v, p) = 0 THEN Insert(GapBlock(v, p, s)) ELSE Nothing

try_recover_mixed_position_gap(v, p, s) == Insert(GapBlock(v, p, s))

try_recover_exact_content_gap(v, p, s) ==
  Insert(ExactBlock(v, p, s, CHOOSE m \in MissingByCounter(v, p, s) : TRUE))

-----------------------------------------------------------------------------
(***************************************************************************)
(* A primary packet with transport_error set: the secondary's copy takes   *)
(* its place.                                                              *)
(***************************************************************************)
\* c may stand in for p: the same PID and counter, and the next one to output.
TeiCopy_any_counter(v, p, c) ==
  ~Damaged(c) /\ ~IsNull(c) /\ c.pkt.payload /\ c.pkt.pid = p.pkt.pid
TeiCopy(v, p, c) ==
  /\ ~Damaged(c)
  /\ ~IsNull(c) /\ c.pkt.payload /\ c.pkt.pid = p.pkt.pid
  /\ c.pkt.cc = p.pkt.cc
  /\ record_fits_next_output(v.cc, c)

try_recover_primary_tei_packet(v, p) ==
  LET cand == find_aligned_secondary_record(v, p)
      c    == CHOOSE r \in cand : TRUE
      after == \E a \in packet_history_find_index(v.h[0], p.idx + 1),
                  b \in packet_history_find_index(v.h[1], c.idx + 1) :
                    records_are_non_null_exact_anchor(a, b)
  IN  IF ~p.pkt.tei THEN Nothing
      ELSE IF /\ ~IsNull(p) /\ p.pkt.payload /\ ~p.pkt.disc
              /\ ~LowConfidence(v)
              /\ BeforeAnchorHolds(v)
              /\ cand # {} /\ TeiCopy(v, p, c) /\ after
           THEN Insert(<<c>>)
           ELSE Reject(p, NotAGap)

-----------------------------------------------------------------------------
(***************************************************************************)
(* The decision for one primary packet in recovery_engine_drain.  A packet *)
(* with an error is replaced or passed on; any other is tried as the end   *)
(* of a gap of nulls, of a mixed gap, and, if its counter does not fit, of *)
(* a gap in its own PID.  A counter that does not fit is reported unless   *)
(* one of them decided.                                                    *)
(***************************************************************************)
\* The missing count that the last report of recovery_engine_drain carries.
UnansweredGap(v, p) ==
  LET prev == v.cc[p.pkt.pid]
      byCounter == IF prev = NoCC \/ IsNull(p) THEN {} ELSE infer_missing_from_cc(prev, p)
  IN  IF byCounter = {} THEN NotAGap
      ELSE Refuse("missing_candidate", CHOOSE n \in byCounter : TRUE)

Unanswered_silent(v, p) == Nothing
Unanswered(v, p) == Reject(p, UnansweredGap(v, p))

TryNull(v, p, matches) ==
  try_unique_candidate_recovery(v, p, matches,
    [s \in matches |-> validate_null_position_candidate(v, p, s)],
    [s \in matches |-> try_recover_null_position_gap(v, p, s)], FALSE)

TryMixed(v, p, matches) ==
  try_unique_candidate_recovery(v, p, matches,
    [s \in matches |-> validate_mixed_position_candidate(v, p, s)],
    [s \in matches |-> try_recover_mixed_position_gap(v, p, s)], FALSE)

TryExact(v, p, matches) ==
  try_unique_candidate_recovery(v, p, matches,
    [s \in matches |-> validate_exact_content_candidate(v, p, s)],
    [s \in matches |-> try_recover_exact_content_gap(v, p, s)], TRUE)

DecideGap(v, p, matches) ==
  LET try   == v.anchor.valid /\ matches # {}
      null  == TryNull(v, p, matches)
      mixed == TryMixed(v, p, matches)
  IN  IF try /\ null.kind # "none" THEN null
      ELSE IF try /\ mixed.kind # "none" THEN mixed
      ELSE IF record_fits_next_output(v.cc, p) THEN Nothing
      ELSE IF try THEN TryExact(v, p, matches)
      ELSE Unanswered(v, p)

Decide(v, p) ==
  IF p.pkt.tei THEN try_recover_primary_tei_packet(v, p)
  ELSE DecideGap(v, p, find_secondary_boundary_matches(v, p))

\* The secondary record that p is paired with once it is output.
AnchorMatch(v, p) ==
  LET matches == find_secondary_boundary_matches(v, p)
  IN  IF Cardinality(matches) = 1 THEN matches ELSE find_aligned_secondary_record(v, p)

update_primary_anchor(v, p) ==
  LET s == CHOOSE r \in AnchorMatch(v, p) : TRUE
  IN  IF AnchorMatch(v, p) # {} /\ records_are_non_null_exact_anchor(p, s)
      THEN [valid |-> TRUE, p |-> p.idx, s |-> s.idx]
      ELSE v.anchor
=============================================================================
