---------------------------- MODULE FramingProofs ----------------------------
(***************************************************************************)
(* process_datagram, for every packet size, every length of a sync run and *)
(* every datagram: what it hands on is framed, its walk ends, it counts    *)
(* what it loses, and it finds the packets behind damage.                  *)
(***************************************************************************)
EXTENDS Framing, FiniteSetTheorems, WellFoundedInduction, TLAPS

\* The size of a datagram is its number of offsets, and fits a size_t with
\* room for one more packet.
LEMMA SizeType ==
  ASSUME datagram \in Datagram
  PROVE  size \in 1 .. MaxSize /\ DOMAIN datagram = 0 .. size - 1
<1>1. PICK n \in 1 .. MaxSize : datagram \in [0 .. n - 1 -> Kind]
  BY DEF Datagram
<1>2. DOMAIN datagram = 0 .. n - 1
  BY <1>1
<1>3. n \in Nat /\ 0 \in Int /\ n - 1 \in Int
  BY FramingAssumption
<1>4. Cardinality(0 .. n - 1) = IF 0 > n - 1 THEN 0 ELSE (n - 1) - 0 + 1
  BY <1>3, FS_Interval
<1>5. Cardinality(0 .. n - 1) = n
  BY <1>4, <1>3, FramingAssumption
<1> QED
  BY <1>2, <1>5, FramingAssumption DEF size

(***************************************************************************)
(* What holds at every turn: the walk stands within the datagram, and      *)
(* behind every packet it has handed on.                                   *)
(***************************************************************************)
Behind == \A i \in DOMAIN pushed : pushed[i] + PacketSize <= offset

WalkInv ==
  /\ datagram \in Datagram
  /\ offset \in 0 .. size
  /\ pushed \in Seq(Nat)
  /\ PushedAreFramed
  /\ pc = "walk" => Behind

\* Advancing by a packet does not wrap as long as a packet is in reach.
LEMMA Reach ==
  ASSUME WalkInv, InReach(offset)
  PROVE  /\ Wrap(offset + PacketSize) = offset + PacketSize
         /\ offset + PacketSize <= size
<1>1. size \in 1 .. MaxSize
  BY SizeType DEF WalkInv
<1>2. offset \in Nat /\ offset + PacketSize < SizeMod
  BY <1>1, FramingAssumption DEF WalkInv
<1> QED
  BY <1>1, <1>2, FramingAssumption DEF InReach, Wrap

\* The subtraction in front of the loop's addition may wrap; the sum does not.
LEMMA ResyncTarget ==
  ASSUME WalkInv, NEW r \in find_resync_offset(offset)
  PROVE  /\ Wrap(Minus(r, PacketSize) + PacketSize) = r
         /\ r > offset /\ r <= size
<1>1. size \in 1 .. MaxSize
  BY SizeType DEF WalkInv
<1>2. r \in offset + 1 .. size - 1
  BY DEF find_resync_offset, Ahead
<1>3. offset \in Nat /\ r \in Nat /\ r < SizeMod
  BY <1>1, <1>2, FramingAssumption DEF WalkInv
<1>4. CASE r < PacketSize
  BY <1>1, <1>2, <1>3, <1>4, FramingAssumption DEF Minus, Wrap
<1>5. CASE r >= PacketSize
  BY <1>1, <1>2, <1>3, <1>5, FramingAssumption DEF Minus, Wrap
<1> QED
  BY <1>1, <1>2, <1>3, <1>4, <1>5, FramingAssumption

\* A packet handed on from where the walk stands lies behind the others.
LEMMA PushedFramed ==
  ASSUME WalkInv, pc = "walk", InReach(offset), pushed' = Append(pushed, offset),
         UNCHANGED datagram
  PROVE  /\ pushed' \in Seq(Nat)
         /\ PushedAreFramed'
         /\ \A i \in DOMAIN pushed' : pushed'[i] + PacketSize <= offset + PacketSize
<1>1. size \in 1 .. MaxSize /\ offset \in Nat /\ pushed \in Seq(Nat)
  BY SizeType DEF WalkInv
<1>2. size' = size
  BY DEF size
<1>3. /\ pushed' \in Seq(Nat)
      /\ DOMAIN pushed' = 1 .. Len(pushed) + 1
      /\ \A i \in 1 .. Len(pushed) : pushed'[i] = pushed[i]
      /\ pushed'[Len(pushed) + 1] = offset
  BY <1>1
<1>4. \A i \in 1 .. Len(pushed) : pushed[i] \in Nat /\ pushed[i] + PacketSize <= offset
  BY <1>1 DEF WalkInv, Behind
<1>5. offset + PacketSize <= size
  BY Reach
<1>6. \A i \in DOMAIN pushed' : pushed'[i] + PacketSize <= offset + PacketSize
  BY <1>1, <1>3, <1>4, FramingAssumption
<1>7. \A i \in DOMAIN pushed' : pushed'[i] + PacketSize <= size
  BY <1>1, <1>3, <1>5, <1>6, FramingAssumption
<1>8. ASSUME NEW i \in DOMAIN pushed', NEW j \in DOMAIN pushed', i < j
      PROVE  pushed'[i] + PacketSize <= pushed'[j]
  <2>1. i \in 1 .. Len(pushed)
    BY <1>1, <1>3, <1>8
  <2>2. CASE j = Len(pushed) + 1
    BY <1>3, <1>4, <2>1, <2>2
  <2>3. CASE j \in 1 .. Len(pushed)
    BY <1>1, <1>3, <1>8, <2>1, <2>3 DEF WalkInv, PushedAreFramed
  <2> QED
    BY <1>1, <1>3, <2>2, <2>3
<1> QED
  BY <1>2, <1>3, <1>6, <1>7, <1>8 DEF PushedAreFramed

LEMMA WalkInit == Init => WalkInv
<1> SUFFICES ASSUME Init PROVE WalkInv
  OBVIOUS
<1>1. size \in 1 .. MaxSize
  BY SizeType DEF Init
<1> QED
  BY <1>1, FramingAssumption DEF Init, WalkInv, PushedAreFramed, Behind

\* The three kinds of step: a packet, a jump or a skip, the end.
LEMMA WalkStep == WalkInv /\ [Next]_walk_vars => WalkInv'
<1> SUFFICES ASSUME WalkInv, [Next]_walk_vars PROVE WalkInv'
  OBVIOUS
<1> USE DEF WalkInv
<1>0. size \in 1 .. MaxSize /\ offset \in Nat /\ pushed \in Seq(Nat)
  BY SizeType
<1>1. CASE PushPacket
  <2>1. offset' = offset + PacketSize /\ offset + PacketSize <= size
    BY <1>1, Reach DEF PushPacket, Continue
  <2>2. datagram' = datagram /\ size' = size /\ pc' = pc
    BY <1>1 DEF PushPacket, size
  <2>3. /\ pushed' \in Seq(Nat) /\ PushedAreFramed'
        /\ \A i \in DOMAIN pushed' : pushed'[i] + PacketSize <= offset + PacketSize
    BY <1>1, PushedFramed DEF PushPacket
  <2> QED
    BY <1>0, <2>1, <2>2, <2>3, FramingAssumption DEF Behind
<1>2. CASE PushFails
  <2>1. datagram' = datagram /\ size' = size /\ offset' = offset /\ pc' = "failed"
    BY <1>2 DEF PushFails, size
  <2>2. pushed' \in Seq(Nat) /\ PushedAreFramed'
    BY <1>2, PushedFramed DEF PushFails
  <2> QED
    BY <2>1, <2>2
<1>3. CASE Resync
  <2>1. PICK r \in find_resync_offset(offset) : offset' = Wrap(Minus(r, PacketSize) + PacketSize)
    BY <1>3 DEF Resync, Continue
  <2>2. offset' = r /\ r > offset /\ r <= size
    BY <2>1, ResyncTarget
  <2>3. r \in offset + 1 .. size - 1
    BY <2>1 DEF find_resync_offset, Ahead
  <2>4. UNCHANGED <<datagram, size, pc, pushed>>
    BY <1>3 DEF Resync, size
  <2>5. PushedAreFramed'
    BY <2>4 DEF PushedAreFramed
  <2>6. pc = "walk" => Behind'
    <3> SUFFICES ASSUME pc = "walk", NEW i \in DOMAIN pushed
                 PROVE  pushed[i] + PacketSize <= offset'
      BY <2>4 DEF Behind
    <3>1. pushed[i] \in Nat /\ pushed[i] + PacketSize <= offset
      BY <1>0 DEF Behind
    <3> QED
      BY <1>0, <2>2, <2>3, <3>1, FramingAssumption
  <2> QED
    BY <1>0, <2>2, <2>3, <2>4, <2>5, <2>6
<1>4. CASE Skip
  <2>1. offset' = offset + PacketSize /\ offset + PacketSize <= size
    BY <1>4, Reach DEF Skip, Continue
  <2>2. UNCHANGED <<datagram, size, pc, pushed>>
    BY <1>4 DEF Skip, size
  <2>3. PushedAreFramed'
    BY <2>2 DEF PushedAreFramed
  <2>4. pc = "walk" => Behind'
    <3> SUFFICES ASSUME pc = "walk", NEW i \in DOMAIN pushed
                 PROVE  pushed[i] + PacketSize <= offset'
      BY <2>2 DEF Behind
    <3>1. pushed[i] \in Nat /\ pushed[i] + PacketSize <= offset
      BY <1>0 DEF Behind
    <3> QED
      BY <1>0, <2>1, <3>1, FramingAssumption
  <2> QED
    BY <1>0, <2>1, <2>2, <2>3, <2>4, FramingAssumption
<1>5. CASE Finish
  <2>1. UNCHANGED <<datagram, size, offset, pushed>> /\ pc' = "done"
    BY <1>5 DEF Finish, size
  <2> QED
    BY <2>1 DEF PushedAreFramed
<1>6. CASE Returned \/ UNCHANGED walk_vars
  <2>1. UNCHANGED <<datagram, size, offset, pushed, pc>>
    BY <1>6 DEF Returned, walk_vars, size
  <2> QED
    BY <2>1 DEF PushedAreFramed, Behind
<1> QED
  BY <1>1, <1>2, <1>3, <1>4, <1>5, <1>6 DEF Next, Walk

\* A turn of the loop leads forward, to the end of the datagram at most.
LEMMA TurnAdvances ==
  WalkInv /\ [Next]_walk_vars =>
    (~UNCHANGED walk_vars =>
       (pc = "walk" /\ pc' = "walk" => offset' > offset /\ offset' <= size))
<1> SUFFICES ASSUME WalkInv, Next, pc = "walk", pc' = "walk"
             PROVE  offset' > offset /\ offset' <= size
  OBVIOUS
<1>0. size \in 1 .. MaxSize /\ offset \in Nat
  BY SizeType DEF WalkInv
<1>1. CASE PushPacket \/ Skip
  <2>1. offset' = offset + PacketSize /\ offset + PacketSize <= size
    BY <1>1, Reach DEF PushPacket, Skip, Continue
  <2> QED
    BY <1>0, <2>1, FramingAssumption
<1>2. CASE Resync
  BY <1>2, ResyncTarget DEF Resync, Continue
<1>3. ~(PushFails \/ Finish \/ Returned)
  BY DEF PushFails, Finish, Returned
<1> QED
  BY <1>1, <1>2, <1>3 DEF Next, Walk

(***************************************************************************)
(* Whatever the bytes, process_datagram hands on whole packets of the      *)
(* datagram, in order, none overlapping another.                           *)
(***************************************************************************)
THEOREM FramingPushed == Spec => []PushedAreFramed
<1>1. WalkInv => PushedAreFramed
  BY DEF WalkInv
<1> QED
  BY WalkInit, WalkStep, <1>1, PTL DEF Spec

(***************************************************************************)
(* Whatever the bytes, every turn of the walk leads forward, so it takes   *)
(* no more turns than the datagram has bytes, although the subtraction of  *)
(* a resync may wrap.                                                      *)
(***************************************************************************)
THEOREM FramingAdvances == Spec => WalkAdvances
<1>1. WalkInv /\ [Next]_walk_vars =>
        [pc = "walk" /\ pc' = "walk" => offset' > offset /\ offset' <= size]_walk_vars
  BY TurnAdvances
<1> QED
  BY WalkInit, WalkStep, <1>1, PTL DEF Spec, WalkAdvances

\* The part of the type that the argument above does without.
Counted == pc \in {"walk", "done", "failed"} /\ counts \in [Counters -> Nat]

LEMMA CountedStep == Counted /\ [Next]_walk_vars => Counted'
<1> SUFFICES ASSUME Counted, [Next]_walk_vars PROVE Counted'
  OBVIOUS
<1>1. \A cs : Raised(cs) \in [Counters -> Nat]
  BY DEF Counted, Raised
<1>2. counts' = counts \/ \E cs : counts' = Raised(cs)
  BY DEF Next, Walk, PushPacket, PushFails, Resync, Skip, Finish, Returned, walk_vars
<1>3. pc' \in {"walk", "done", "failed"}
  BY DEF Counted, Next, Walk, PushPacket, PushFails, Resync, Skip, Finish, Returned, walk_vars
<1> QED
  BY <1>1, <1>2, <1>3 DEF Counted

(***************************************************************************)
(* The offset of process_datagram is that of a byte of the datagram or of  *)
(* its end, within what a size_t holds, also after a subtraction that has  *)
(* wrapped; the counters are naturals.                                     *)
(***************************************************************************)
THEOREM FramingTypeOK == Spec => []TypeOK
<1>1. WalkInv /\ Counted => TypeOK
  BY SizeType, FramingAssumption DEF WalkInv, Counted, TypeOK
<1>2. Init => Counted
  BY DEF Init, Counted
<1> QED
  BY WalkInit, WalkStep, CountedStep, <1>1, <1>2, PTL DEF Spec

-----------------------------------------------------------------------------
(***************************************************************************)
(* Offsets modulo the packet size: the phase a packet stands in.           *)
(***************************************************************************)
LEMMA Multiple ==
  ASSUME NEW c \in Nat \ {0}, NEW x \in Int, x % c = 0
  PROVE  \E k \in Int : x = c * k
<1>1. x = (c * (x \div c)) + (x % c) /\ x \div c \in Int
  OBVIOUS
<1> QED
  BY <1>1

LEMMA MultipleMod ==
  ASSUME NEW c \in Nat \ {0}, NEW k \in Int
  PROVE  (c * k) % c = 0
<1> DEFINE d == k - ((c * k) \div c)
           r == (c * k) % c
<1>1. /\ c * k = (c * ((c * k) \div c)) + ((c * k) % c)
      /\ (c * k) \div c \in Int /\ (c * k) % c \in 0 .. c - 1
  OBVIOUS
<1>2. r = c * d /\ d \in Int /\ r \in 0 .. c - 1
  BY <1>1
<1> HIDE DEF d, r
<1>3. d > 0 => c * d >= c
  BY <1>2
<1>4. d < 0 => c * d < 0
  BY <1>2
<1>5. r = 0
  BY <1>2, <1>3, <1>4
<1> QED
  BY <1>5 DEF r

LEMMA PhaseKept ==
  ASSUME NEW c \in Nat \ {0}, NEW x \in Int, x % c = 0
  PROVE  (x + c) % c = 0
<1>1. PICK k \in Int : x = c * k
  BY Multiple
<1>2. x + c = c * (k + 1)
  BY <1>1
<1>3. (c * (k + 1)) % c = 0
  BY MultipleMod
<1> QED
  BY <1>2, <1>3

\* Two offsets in one phase are a packet apart.
LEMMA PhaseGap ==
  ASSUME NEW c \in Nat \ {0}, NEW x \in Int, NEW y \in Int,
         x % c = 0, y % c = 0, x < y
  PROVE  x + c <= y
<1>1. PICK k \in Int : x = c * k
  BY Multiple
<1>2. PICK m \in Int : y = c * m
  BY Multiple
<1>3. k < m
  BY <1>1, <1>2
<1>4. c * (k + 1) <= c * m
  BY <1>3
<1> QED
  BY <1>1, <1>2, <1>4

LEMMA PhaseRun ==
  ASSUME NEW c \in Nat \ {0}, NEW n \in Nat \ {0}, NEW i \in 0 .. n - 1
  PROVE  (i * c) + c <= n * c /\ (i * c) % c = 0 /\ i * c \in Nat
<1>1. (i + 1) * c <= n * c /\ i * c \in Nat
  OBVIOUS
<1>2. i * c = c * i
  OBVIOUS
<1>3. (c * i) % c = 0
  BY MultipleMod
<1> QED
  BY <1>1, <1>2, <1>3

-----------------------------------------------------------------------------
(***************************************************************************)
(* While nothing is counted, the packets handed on cover what the walk has *)
(* passed, and the walk ends at the end of the datagram.                   *)
(***************************************************************************)
Covered(b) == \E i \in DOMAIN pushed : b \in Bytes(pushed[i])

Covering ==
  counts["sync_errors"] = 0 =>
    /\ pc # "failed" => \A b \in 0 .. offset - 1 : Covered(b)
    /\ pc = "done" => offset = size

CoverInv == WalkInv /\ Counted /\ Covering

\* A counter that is raised is not zero.
LEMMA RaisedErrors ==
  ASSUME Counted, NEW cs, counts' = Raised(cs)
  PROVE  /\ counts'["sync_errors"] = 0 => counts["sync_errors"] = 0 /\ "sync_errors" \notin cs
BY DEF Counted, Raised, Counters

LEMMA CoverStep == CoverInv /\ [Next]_walk_vars => Covering'
<1> SUFFICES ASSUME CoverInv, [Next]_walk_vars, counts'["sync_errors"] = 0
             PROVE  /\ pc' # "failed" => \A b \in 0 .. offset' - 1 : Covered(b)'
                    /\ pc' = "done" => offset' = size'
  BY DEF Covering
<1>0. size \in 1 .. MaxSize /\ offset \in Nat /\ pushed \in Seq(Nat) /\ WalkInv /\ Counted
  BY SizeType DEF CoverInv, WalkInv
<1>1. CASE PushPacket
  <2>1. offset' = offset + PacketSize /\ counts' = counts /\ pc' = "walk" /\ pc = "walk"
    BY <1>0, <1>1, Reach DEF PushPacket, Continue
  <2>2. /\ DOMAIN pushed' = 1 .. Len(pushed) + 1 /\ DOMAIN pushed = 1 .. Len(pushed)
        /\ \A i \in 1 .. Len(pushed) : pushed'[i] = pushed[i]
        /\ pushed'[Len(pushed) + 1] = offset /\ Len(pushed) \in Nat
    BY <1>0, <1>1 DEF PushPacket
  <2>3. ASSUME NEW b \in 0 .. offset' - 1 PROVE Covered(b)'
    <3>1. CASE b < offset
      <4>1. Covered(b)
        BY <1>0, <2>1, <2>3, <3>1 DEF CoverInv, Covering
      <4>2. PICK i \in DOMAIN pushed : b \in Bytes(pushed[i])
        BY <4>1 DEF Covered
      <4>3. i \in DOMAIN pushed' /\ pushed'[i] = pushed[i]
        BY <2>2, <4>2
      <4> QED
        BY <4>2, <4>3 DEF Covered, Bytes
    <3>2. CASE b >= offset
      <4>1. b \in Bytes(offset)
        BY <1>0, <2>1, <2>3, <3>2, FramingAssumption DEF Bytes
      <4>2. Len(pushed) + 1 \in DOMAIN pushed'
        BY <2>2
      <4> QED
        BY <2>2, <4>1, <4>2 DEF Covered, Bytes
    <3> QED
      BY <1>0, <2>3, <3>1, <3>2
  <2> QED
    BY <2>1, <2>3
<1>2. CASE PushFails
  BY <1>2 DEF PushFails
<1>3. CASE Resync \/ Skip
  BY <1>0, <1>3, RaisedErrors DEF Resync, Skip
<1>4. CASE Finish
  <2>1. /\ counts["sync_errors"] = 0 /\ ~EndsShort(offset)
        /\ UNCHANGED <<datagram, offset, pushed>> /\ pc = "walk"
    BY <1>0, <1>4, RaisedErrors DEF Finish
  <2>2. offset = size /\ size' = size
    BY <2>1 DEF EndsShort, size
  <2> QED
    BY <2>1, <2>2 DEF CoverInv, Covering, Covered
<1>5. CASE Returned \/ UNCHANGED walk_vars
  BY <1>5 DEF Returned, walk_vars, CoverInv, Covering, Covered, size
<1> QED
  BY <1>1, <1>2, <1>3, <1>4, <1>5 DEF Next, Walk

\* The packets reach no further than the datagram, so what covers it is it.
LEMMA CoverIsAll == CoverInv => LossIsCounted
<1> SUFFICES ASSUME CoverInv, pc = "done", counts["sync_errors"] = 0
             PROVE  UNION {Bytes(o) : o \in PushedSet} = DOMAIN datagram
  BY DEF LossIsCounted
<1>1. /\ size \in 1 .. MaxSize /\ pushed \in Seq(Nat) /\ DOMAIN datagram = 0 .. size - 1
      /\ size \in Nat
  BY SizeType, FramingAssumption DEF CoverInv, WalkInv
<1>2. ASSUME NEW b \in DOMAIN datagram PROVE b \in UNION {Bytes(o) : o \in PushedSet}
  <2>1. Covered(b)
    BY <1>1, <1>2 DEF CoverInv, Covering
  <2> QED
    BY <2>1 DEF Covered, PushedSet
<1>3. ASSUME NEW o \in PushedSet, NEW b \in Bytes(o) PROVE b \in DOMAIN datagram
  <2>1. PICK i \in DOMAIN pushed : o = pushed[i]
    BY <1>3 DEF PushedSet
  <2>2. o \in Nat /\ o + PacketSize <= size
    BY <1>1, <2>1 DEF CoverInv, WalkInv, PushedAreFramed
  <2> QED
    BY <1>1, <1>3, <2>2, FramingAssumption DEF Bytes
<1> QED
  BY <1>2, <1>3

(***************************************************************************)
(* No byte is lost silently, whatever the datagram holds: when             *)
(* process_datagram has counted no sync error, every byte of the datagram  *)
(* went to the engine in a packet.                                         *)
(***************************************************************************)
THEOREM FramingCountsLosses == Spec => []LossIsCounted
<1>1. Init => CoverInv
  <2> SUFFICES ASSUME Init PROVE CoverInv
    OBVIOUS
  <2>1. offset = 0 /\ pc = "walk" /\ Counted
    BY DEF Init, Counted
  <2> QED
    BY <2>1, WalkInit DEF CoverInv, Covering
<1>2. CoverInv /\ [Next]_walk_vars => CoverInv'
  BY WalkStep, CountedStep, CoverStep DEF CoverInv
<1> QED
  BY <1>1, <1>2, CoverIsAll, PTL DEF Spec

-----------------------------------------------------------------------------
(***************************************************************************)
(* A row of intact packets from t to the end of the datagram, with no sync *)
(* byte out of its phase.  The walk meets the row at one of its packets    *)
(* (or in an earlier one of its phase), and stays on it.                   *)
(***************************************************************************)
Row(t) == IntactFrom(t) /\ OnlyPhase(t)

Kept(t) ==
  /\ offset > t => (offset - t) % PacketSize = 0
  /\ \A o \in t .. size - 1 : (o - t) % PacketSize = 0 /\ o < offset => o \in PushedSet
  /\ pc = "done" => offset = size

KeepInv == WalkInv /\ \A t \in 0 .. size - 1 : Row(t) => Kept(t)

\* A set of offsets that is not empty has a first one.
LEMMA FirstOffset ==
  ASSUME NEW S, S \subseteq Nat, S # {}
  PROVE  \E r \in S : \A q \in S : r <= q
<1> DEFINE R == {ss \in Nat \X Nat : ss[1] < ss[2]}
<1>1. IsWellFoundedOn(R, Nat)
  BY NatLessThanWellFounded DEF OpToRel
<1> HIDE DEF R
<1>2. PICK r \in S : \A q \in S : <<q, r>> \notin R
  BY <1>1, WFMin
<1>3. ASSUME NEW q \in S, q < r PROVE FALSE
  <2>1. <<q, r>> \in Nat \X Nat /\ <<q, r>>[1] < <<q, r>>[2]
    BY <1>3
  <2>2. <<q, r>> \in R
    BY ONLY <2>1 DEF R
  <2> QED
    BY <2>2, <1>2, <1>3
<1> QED
  BY <1>3

\* The row is a run of sync bytes at its start.
LEMMA RowIsRun ==
  ASSUME datagram \in Datagram, NEW t \in 0 .. size - 1, IntactFrom(t)
  PROVE  has_sync_run(t)
<1>0. size \in 1 .. MaxSize /\ t \in Nat /\ size \in Nat
  BY SizeType, FramingAssumption
<1> SUFFICES ASSUME NEW i \in 0 .. SyncRun - 1 PROVE HasSync(t + i * PacketSize)
  BY DEF has_sync_run
<1> DEFINE p == i * PacketSize
           run == SyncRun * PacketSize
<1>1. p + PacketSize <= run /\ p % PacketSize = 0 /\ p \in Nat
  BY PhaseRun, FramingAssumption
<1>2. size - t >= run /\ run \in Nat
  BY FramingAssumption DEF IntactFrom
<1> HIDE DEF p, run
<1>3. t + p \in t .. size - 1 /\ (t + p) - t = p
  BY <1>0, <1>1, <1>2, FramingAssumption
<1>4. datagram[t + p] = "intact"
  BY <1>1, <1>3 DEF IntactFrom
<1>5. t + p < size
  BY <1>0, <1>3
<1> QED
  BY <1>4, <1>5 DEF HasSync, p

\* A packet the parser refuses in front of the row: the search for a run
\* stops in the row's phase, at its start at the latest.
LEMMA SearchStops ==
  ASSUME WalkInv, NEW t \in 0 .. size - 1, Row(t), offset < t
  PROVE  /\ find_resync_offset(offset) # {}
         /\ \A r \in find_resync_offset(offset) : r <= t /\ (r - t) % PacketSize = 0
<1>0. size \in 1 .. MaxSize /\ offset \in Nat /\ t \in Nat /\ size \in Nat
  BY SizeType, FramingAssumption DEF WalkInv
<1> DEFINE runs == {r \in Ahead(offset) : has_sync_run(r)}
<1>1. t \in runs
  BY <1>0, RowIsRun DEF Ahead, Row, WalkInv
<1>2. runs \subseteq Nat
  BY <1>0 DEF Ahead
<1> HIDE DEF runs
<1>3. \E r \in runs : \A q \in runs : r <= q
  BY <1>1, <1>2, FirstOffset
<1>4. find_resync_offset(offset) = {r \in runs : \A q \in runs : r <= q}
  BY DEF find_resync_offset, runs
<1>5. ASSUME NEW r \in find_resync_offset(offset)
      PROVE  r <= t /\ (r - t) % PacketSize = 0
  <2>1. r \in runs /\ r <= t
    BY <1>1, <1>4, <1>5
  <2>2. has_sync_run(r) /\ r \in 0 .. size - 1
    BY <1>0, <2>1 DEF runs, Ahead
  <2>3. HasSync(r + 0 * PacketSize)
    BY <2>2, FramingAssumption DEF has_sync_run
  <2>4. HasSync(r)
    BY <2>2, <2>3, FramingAssumption
  <2> QED
    BY <2>1, <2>2, <2>4 DEF Row, OnlyPhase
<1> QED
  BY <1>3, <1>4, <1>5

\* A packet handed on from the walk's offset joins the others.
LEMMA PushedGrows ==
  ASSUME pushed \in Seq(Nat), offset \in Nat, pushed' = Append(pushed, offset)
  PROVE  PushedSet' = PushedSet \cup {offset}
<1>1. /\ DOMAIN pushed' = 1 .. Len(pushed) + 1 /\ DOMAIN pushed = 1 .. Len(pushed)
      /\ \A i \in 1 .. Len(pushed) : pushed'[i] = pushed[i]
      /\ pushed'[Len(pushed) + 1] = offset /\ Len(pushed) \in Nat
  OBVIOUS
<1>2. DOMAIN pushed' = DOMAIN pushed \cup {Len(pushed) + 1}
  BY <1>1
<1> QED
  BY <1>1, <1>2 DEF PushedSet

\* Where the walk stands in the row there is a packet, and nowhere else in
\* front of the row's end.
LEMMA RowPhases ==
  ASSUME KeepInv, NEW t \in 0 .. size - 1, Row(t), pc = "walk"
  PROVE  /\ InReach(offset) /\ offset >= t => ts_packet_parse(offset)
         /\ ~InReach(offset) => offset = size
         /\ InReach(offset) /\ ts_packet_parse(offset) => (offset - t) % PacketSize = 0
<1>0. /\ size \in Nat /\ offset \in Nat /\ t \in Nat /\ t < size /\ offset <= size
      /\ size \in 1 .. MaxSize /\ datagram \in Datagram
  BY SizeType, FramingAssumption DEF KeepInv, WalkInv
<1>1. Kept(t)
  BY DEF KeepInv
<1>2. (t - t) % PacketSize = 0 /\ (size - t) % PacketSize = 0
  BY <1>0, FramingAssumption DEF Row, IntactFrom
<1>3. offset >= t => (offset - t) % PacketSize = 0
  BY <1>0, <1>1, <1>2 DEF Kept
<1>4. t + PacketSize <= size
  <2>1. (t - t) + PacketSize <= size - t
    BY <1>0, <1>2, PhaseGap, FramingAssumption
  <2> QED
    BY <1>0, <2>1, FramingAssumption
<1>5. offset >= t /\ offset < size => offset + PacketSize <= size
  <2> SUFFICES ASSUME offset >= t, offset < size PROVE offset + PacketSize <= size
    OBVIOUS
  <2> DEFINE x == offset - t
             y == size - t
  <2>1. x \in Int /\ y \in Int /\ x % PacketSize = 0 /\ y % PacketSize = 0 /\ x < y
    BY <1>0, <1>2, <1>3
  <2> HIDE DEF x, y
  <2>2. x + PacketSize <= y
    BY <2>1, PhaseGap, FramingAssumption
  <2> QED
    BY <1>0, <2>2, FramingAssumption DEF x, y
<1>6. InReach(offset) <=> offset + PacketSize <= size
  BY <1>0, FramingAssumption DEF InReach, Wrap
<1>7. InReach(offset) => offset < size
  BY <1>0, <1>6, FramingAssumption
<1>8. ASSUME InReach(offset), offset >= t PROVE datagram[offset] = "intact"
  BY <1>0, <1>3, <1>7, <1>8 DEF Row, IntactFrom
<1>9. ~InReach(offset) => offset = size
  BY <1>0, <1>4, <1>5, <1>6, FramingAssumption
<1>10. InReach(offset) /\ ts_packet_parse(offset) => HasSync(offset)
  BY <1>7 DEF HasSync, ts_packet_parse
<1> QED
  BY <1>0, <1>7, <1>8, <1>9, <1>10 DEF ts_packet_parse, Row, OnlyPhase

\* A packet further, still in the row's phase, the row's packets behind it
\* all handed on.
LEMMA RowContinues ==
  ASSUME KeepInv, NEW t \in 0 .. size - 1, Row(t),
         InReach(offset), (offset - t) % PacketSize = 0, offset < size,
         offset' = offset + PacketSize, PushedSet' = PushedSet \cup {offset},
         pc' # "done", UNCHANGED datagram
  PROVE  Kept(t)'
<1>0. size \in Nat /\ offset \in Nat /\ t \in Nat /\ size' = size
  BY SizeType, FramingAssumption DEF KeepInv, WalkInv, size
<1>1. Kept(t)
  BY DEF KeepInv
<1>2. (offset' - t) % PacketSize = 0
  <2> DEFINE x == offset - t
  <2>1. x \in Int /\ x % PacketSize = 0
    BY <1>0
  <2>2. offset' - t = x + PacketSize
    BY <1>0, FramingAssumption
  <2> HIDE DEF x
  <2>3. (x + PacketSize) % PacketSize = 0
    BY <2>1, PhaseKept, FramingAssumption
  <2> QED
    BY <2>2, <2>3
<1>3. ASSUME NEW o \in t .. size - 1, (o - t) % PacketSize = 0, o < offset'
      PROVE  o \in PushedSet'
  <2>1. CASE o < offset
    BY <1>1, <1>3, <2>1 DEF Kept
  <2>2. CASE o = offset
    BY <2>2
  <2>3. ~(o > offset)
    <3> SUFFICES ASSUME o > offset PROVE FALSE
      OBVIOUS
    <3> DEFINE x == offset - t
               y == o - t
    <3>1. x + PacketSize <= y
      <4>1. x \in Int /\ y \in Int /\ x % PacketSize = 0 /\ y % PacketSize = 0 /\ x < y
        BY <1>0, <1>3
      <4> HIDE DEF x, y
      <4> QED  BY <4>1, PhaseGap, FramingAssumption
    <3> QED
      BY <1>0, <1>3, <3>1, FramingAssumption
  <2> QED
    BY <1>0, <1>3, <2>1, <2>2, <2>3
<1> QED
  BY <1>0, <1>2, <1>3 DEF Kept

LEMMA KeepStep == KeepInv /\ [Next]_walk_vars =>
                    (\A t \in 0 .. size - 1 : Row(t) => Kept(t))'
<1> SUFFICES ASSUME KeepInv, [Next]_walk_vars, NEW t \in 0 .. size' - 1, Row(t)'
             PROVE  Kept(t)'
  OBVIOUS
<1>0. datagram' = datagram /\ size' = size
  BY DEF Next, Walk, PushPacket, PushFails, Resync, Skip, Finish, Returned, walk_vars, size
<1>1. t \in 0 .. size - 1 /\ Row(t) /\ WalkInv /\ pushed \in Seq(Nat)
  BY <1>0 DEF Row, IntactFrom, OnlyPhase, HasSync, KeepInv, WalkInv
<1>2. size \in Nat /\ offset \in Nat /\ t \in Nat /\ Kept(t) /\ datagram \in Datagram
  BY <1>1, SizeType, FramingAssumption DEF KeepInv, WalkInv
<1>3. ASSUME InReach(offset) PROVE offset < size
  BY <1>1, <1>2, <1>3, Reach, FramingAssumption
<1>4. CASE PushPacket
  <2>1. offset' = offset + PacketSize /\ pc = "walk" /\ pc' = "walk" /\ InReach(offset)
    BY <1>1, <1>4, Reach DEF PushPacket, Continue
  <2>2. PushedSet' = PushedSet \cup {offset} /\ (offset - t) % PacketSize = 0
    BY <1>1, <1>2, <1>4, <2>1, PushedGrows, RowPhases DEF PushPacket
  <2> QED
    BY <1>0, <1>1, <1>3, <2>1, <2>2, RowContinues
<1>5. CASE PushFails
  <2>1. PushedSet' = PushedSet \cup {offset} /\ offset' = offset /\ pc' = "failed"
    BY <1>1, <1>2, <1>5, PushedGrows DEF PushFails
  <2> QED
    BY <1>0, <1>2, <2>1 DEF Kept
<1>6. CASE Resync
  <2>1. /\ pc = "walk" /\ pc' = pc /\ InReach(offset) /\ ~ts_packet_parse(offset)
        /\ pushed' = pushed
    BY <1>6 DEF Resync
  <2>2. offset < t
    BY <1>1, <1>2, <2>1, RowPhases
  <2>3. PICK r \in find_resync_offset(offset) : offset' = Wrap(Minus(r, PacketSize) + PacketSize)
    BY <1>6 DEF Resync, Continue
  <2>4. offset' = r /\ r <= t /\ (r - t) % PacketSize = 0 /\ r \in Nat
    BY <1>1, <1>2, <2>2, <2>3, ResyncTarget, SearchStops DEF find_resync_offset, Ahead
  <2> QED
    BY <1>0, <1>2, <2>1, <2>4 DEF Kept
<1>7. CASE Skip
  <2>1. /\ pc = "walk" /\ InReach(offset) /\ ~ts_packet_parse(offset)
        /\ find_resync_offset(offset) = {}
    BY <1>7 DEF Skip
  <2>2. offset < t
    BY <1>1, <1>2, <2>1, RowPhases
  <2> QED
    BY <1>1, <2>1, <2>2, SearchStops
<1>8. CASE Finish
  <2>1. pc = "walk" /\ ~InReach(offset) /\ offset' = offset /\ pushed' = pushed
    BY <1>8 DEF Finish
  <2>2. offset = size
    BY <1>1, <2>1, RowPhases
  <2> QED
    BY <1>0, <1>2, <2>1, <2>2 DEF Kept, PushedSet
<1>9. CASE Returned \/ UNCHANGED walk_vars
  BY <1>0, <1>2, <1>9 DEF Returned, walk_vars, Kept, PushedSet
<1> QED
  BY <1>4, <1>5, <1>6, <1>7, <1>8, <1>9 DEF Next, Walk

(***************************************************************************)
(* Whatever damage stands before them, and wherever they start, a row of   *)
(* intact packets long enough for has_sync_run is handed on entirely, as   *)
(* long as no sync byte out of their phase leads find_resync_offset astray. *)
(***************************************************************************)
THEOREM FramingKeepsPackets == Spec => []ValidPacketsKept
<1>1. Init => KeepInv
  <2> SUFFICES ASSUME Init PROVE KeepInv
    OBVIOUS
  <2>1. offset = 0 /\ pc = "walk" /\ WalkInv
    BY WalkInit DEF Init
  <2>2. size \in Nat
    BY <2>1, SizeType, FramingAssumption DEF WalkInv
  <2> QED
    BY <2>1, <2>2 DEF KeepInv, Kept
<1>2. KeepInv /\ [Next]_walk_vars => KeepInv'
  BY WalkStep, KeepStep DEF KeepInv
<1>3. KeepInv => ValidPacketsKept
  <2> SUFFICES ASSUME KeepInv, pc = "done", NEW t \in 0 .. size - 1, Row(t),
                      NEW o \in t .. size - 1, (o - t) % PacketSize = 0
               PROVE  o \in PushedSet
    BY DEF ValidPacketsKept, Row
  <2>1. Kept(t) /\ size \in Nat
    BY SizeType, FramingAssumption DEF KeepInv, WalkInv
  <2> QED
    BY <2>1 DEF Kept
<1> QED
  BY <1>1, <1>2, <1>3, PTL DEF Spec
=============================================================================
