-------------------------- MODULE RingBuffersProofs --------------------------
(***************************************************************************)
(* The rings of recovery_engine.c, for every capacity, retention and       *)
(* schedule: they implement the sequences of StreamBuffers, and a lookup   *)
(* by stream index finds a record exactly if it is held.                   *)
(***************************************************************************)
EXTENDS RingBuffers, SequenceTheorems, WellFoundedInduction, TLAPS

\* A set of naturals that is not empty has a least member.
LEMMA LeastNatural ==
  ASSUME NEW S \in SUBSET Nat, S # {}
  PROVE  \E x \in S : \A y \in S : x <= y
<1> DEFINE R == {ss \in Nat \X Nat : ss[1] < ss[2]}
<1>1. IsWellFoundedOn(R, Nat)
  BY NatLessThanWellFounded DEF OpToRel
<1> HIDE DEF R
<1>2. PICK x \in S : \A y \in S : ~(<<y, x>> \in R)
  BY <1>1, WFMin
<1>3. ASSUME NEW y \in S, y < x  PROVE FALSE
  <2>1. <<y, x>> \in Nat \X Nat /\ <<y, x>>[1] < <<y, x>>[2]
    BY <1>3
  <2>2. <<y, x>> \in R
    BY ONLY <2>1 DEF R
  <2> QED  BY <2>2, <1>2, <1>3
<1> QED  BY <1>3
-----------------------------------------------------------------------------
(***************************************************************************)
(* Places.                                                                 *)
(***************************************************************************)
\* Within two turns of the ring, % subtracts the capacity at most once.
LEMMA Wrapped ==
  ASSUME NEW a \in Nat, a < 2 * Capacity
  PROVE  a % Capacity = IF a < Capacity THEN a ELSE a - Capacity
BY RingAssumption

\* A ring is the record of its fields.
LEMMA RingFields ==
  ASSUME NEW ring \in Ring
  PROVE  ring = [records |-> ring.records, start |-> ring.start, count |-> ring.count]
BY DEF Ring

\* The records of a ring lie at different places of the array.
LEMMA Places ==
  ASSUME NEW ring \in Ring, NEW k \in 0 .. Capacity
  PROVE  /\ PlaceOf(ring, k) = IF ring.start + k < Capacity THEN ring.start + k
                               ELSE ring.start + k - Capacity
         /\ PlaceOf(ring, k) \in Place
         /\ ring.records[PlaceOf(ring, k)] \in Slot
<1>1. ring.start \in 0 .. Capacity - 1 /\ ring.records \in [Place -> Slot]
  BY DEF Ring, Place
<1>2. ring.start + k \in Nat /\ ring.start + k < 2 * Capacity
  BY <1>1, RingAssumption
<1>3. PlaceOf(ring, k) = IF ring.start + k < Capacity THEN ring.start + k
                         ELSE ring.start + k - Capacity
  <2> DEFINE a == ring.start + k
  <2>1. a \in Nat /\ a < 2 * Capacity
    BY <1>2
  <2> HIDE DEF a
  <2>2. a % Capacity = IF a < Capacity THEN a ELSE a - Capacity
    BY <2>1, Wrapped
  <2>3. PlaceOf(ring, k) = a % Capacity
    BY DEF PlaceOf, a
  <2> QED  BY <1>1, <1>2, <2>2, <2>3, RingAssumption DEF a
<1>4. PlaceOf(ring, k) \in Place
  BY <1>1, <1>3, RingAssumption DEF Place
<1> QED  BY <1>1, <1>3, <1>4

\* Contents is a sequence of as many records as count says.
LEMMA ContentsType ==
  ASSUME NEW ring \in Ring
  PROVE  /\ Contents(ring) \in Seq(Slot)
         /\ Len(Contents(ring)) = ring.count
         /\ DOMAIN Contents(ring) = 1 .. ring.count
         /\ \A k \in 1 .. ring.count :
              Contents(ring)[k] = ring.records[PlaceOf(ring, k - 1)]
<1>1. ring.count \in Nat /\ ring.count <= Capacity
  BY RingAssumption DEF Ring
<1>2. \A k \in 1 .. ring.count : ring.records[PlaceOf(ring, k - 1)] \in Slot
  BY <1>1, Places, RingAssumption
<1>3. Contents(ring) \in [1 .. ring.count -> Slot]
  BY <1>2 DEF Contents
<1>4. Contents(ring) \in Seq(Slot)
  BY <1>1, <1>3, SeqDef
<1>5. Len(Contents(ring)) \in Nat /\ DOMAIN Contents(ring) = 1 .. Len(Contents(ring))
  BY <1>4, LenProperties
<1>6. DOMAIN Contents(ring) = 1 .. ring.count
  BY DEF Contents
<1>7. Len(Contents(ring)) = ring.count
  BY <1>1, <1>5, <1>6
<1> QED  BY <1>4, <1>6, <1>7 DEF Contents
-----------------------------------------------------------------------------
(***************************************************************************)
(* What each operation on a ring does to its contents.                     *)
(***************************************************************************)
\* Taking records off the front keeps the ring and the rest of its contents.
LEMMA WithoutFront ==
  ASSUME NEW ring \in Ring, NEW n \in 0 .. ring.count
  PROVE  /\ Without(ring, n) \in Ring
         /\ Without(ring, n).count = ring.count - n
         /\ Contents(Without(ring, n)) = SubSeq(Contents(ring), n + 1, ring.count)
<1> DEFINE left == Without(ring, n)
<1>1. /\ ring.count \in 0 .. Capacity /\ ring.start \in 0 .. Capacity - 1
      /\ n \in 0 .. Capacity /\ ring.records \in [Place -> Slot]
  BY RingAssumption DEF Ring, Place
<1>2. /\ left.records = ring.records /\ left.start = PlaceOf(ring, n)
      /\ left.count = ring.count - n
      /\ left = [records |-> ring.records, start |-> PlaceOf(ring, n),
                 count |-> ring.count - n]
  <2> DEFINE rs == ring.records
             st == ring.start
             ct == ring.count
             place == PlaceOf(ring, n)
             rest == ct - n
  <2>1. ring = [records |-> rs, start |-> st, count |-> ct]
    BY RingFields
  <2>2. left = [ring EXCEPT !.start = place, !.count = rest]
    BY DEF Without
  <2> HIDE DEF rs, st, ct, place, rest, left
  <2>3. left = [records |-> rs, start |-> place, count |-> rest]
    BY <2>1, <2>2
  <2> QED  BY <2>3 DEF rs, st, ct, place, rest
<1>3. left \in Ring
  BY <1>1, <1>2, Places, RingAssumption DEF Ring
<1> HIDE DEF left
<1>4. /\ Contents(left) \in Seq(Slot) /\ Len(Contents(left)) = ring.count - n
      /\ \A k \in 1 .. ring.count - n :
           Contents(left)[k] = ring.records[PlaceOf(left, k - 1)]
  BY <1>2, <1>3, ContentsType
<1>5. /\ Contents(ring) \in Seq(Slot) /\ Len(Contents(ring)) = ring.count
      /\ \A k \in 1 .. ring.count : /\ Contents(ring)[k] = ring.records[PlaceOf(ring, k - 1)]
                                    /\ Contents(ring)[k] \in Slot
  BY ContentsType, ElementOfSeq
<1>6. /\ SubSeq(Contents(ring), n + 1, ring.count) \in Seq(Slot)
      /\ Len(SubSeq(Contents(ring), n + 1, ring.count)) = ring.count - n
      /\ \A k \in 1 .. ring.count - n :
           SubSeq(Contents(ring), n + 1, ring.count)[k] = Contents(ring)[k + n]
  <2>1. \A k \in n + 1 .. ring.count : Contents(ring)[k] \in Slot
    BY <1>1, <1>5
  <2>2. n + 1 \in Int /\ ring.count \in Int
    BY <1>1
  <2> QED  BY <1>1, <2>1, <2>2, SubSeqProperties
<1>7. ASSUME NEW k \in 1 .. ring.count - n
      PROVE  Contents(left)[k] = SubSeq(Contents(ring), n + 1, ring.count)[k]
  <2>1. k - 1 \in 0 .. Capacity /\ n + k - 1 \in 0 .. Capacity /\ n + k \in 1 .. ring.count
    BY <1>1, RingAssumption
  <2>2. PlaceOf(left, k - 1) = PlaceOf(ring, n + k - 1)
    <3>1. PlaceOf(left, k - 1) = IF left.start + (k - 1) < Capacity THEN left.start + (k - 1)
                                 ELSE left.start + (k - 1) - Capacity
      BY <1>3, <2>1, Places
    <3>2. PlaceOf(ring, n + k - 1) =
            IF ring.start + (n + k - 1) < Capacity THEN ring.start + (n + k - 1)
            ELSE ring.start + (n + k - 1) - Capacity
      BY <2>1, Places
    <3>3. left.start = IF ring.start + n < Capacity THEN ring.start + n
                       ELSE ring.start + n - Capacity
      BY <1>1, <1>2, Places
    <3> QED  BY <1>1, <2>1, <3>1, <3>2, <3>3, RingAssumption
  <2>3. Contents(ring)[k + n] = ring.records[PlaceOf(ring, n + k - 1)]
    BY <1>1, <1>5, <2>1
  <2> QED  BY <1>4, <1>6, <2>2, <2>3
<1>8. Contents(left) = SubSeq(Contents(ring), n + 1, ring.count)
  BY <1>4, <1>6, <1>7, SeqEqual
<1> QED  BY <1>2, <1>3, <1>8 DEF left

\* Writing behind the newest record of a ring with room appends to its contents.
LEMMA WrittenBehind ==
  ASSUME NEW ring \in Ring, NEW r \in Slot, ring.count < Capacity
  PROVE  /\ QueueAdd(ring, r) \in Ring
         /\ QueueAdd(ring, r).count = ring.count + 1
         /\ Contents(QueueAdd(ring, r)) = Append(Contents(ring), r)
<1> DEFINE longer == QueueAdd(ring, r)
<1>1. /\ ring.count \in 0 .. Capacity - 1 /\ ring.start \in 0 .. Capacity - 1
      /\ ring.records \in [Place -> Slot]
  BY RingAssumption DEF Ring, Place
<1>2. longer = [records |-> [ring.records EXCEPT ![PlaceOf(ring, ring.count)] = r],
                start |-> ring.start, count |-> ring.count + 1]
  <2> DEFINE rs == ring.records
             st == ring.start
             ct == ring.count
             written == [rs EXCEPT ![PlaceOf(ring, ct)] = r]
             more == ct + 1
  <2>1. ring = [records |-> rs, start |-> st, count |-> ct]
    BY RingFields
  <2>2. longer = [ring EXCEPT !.records = written, !.count = more]
    BY DEF QueueAdd
  <2> HIDE DEF rs, st, ct, written, more, longer
  <2>3. longer = [records |-> written, start |-> st, count |-> more]
    BY <2>1, <2>2
  <2> QED  BY <2>3 DEF rs, st, ct, written, more
<1>3. PlaceOf(ring, ring.count) \in Place
  <2>1. ring.count \in 0 .. Capacity
    BY <1>1, RingAssumption
  <2> QED  BY <2>1, Places
<1>4. longer \in Ring
  <2>1. [ring.records EXCEPT ![PlaceOf(ring, ring.count)] = r] \in [Place -> Slot]
    BY <1>1
  <2>2. ring.count + 1 \in 0 .. Capacity /\ ring.start \in Place
    BY <1>1, RingAssumption DEF Place
  <2> QED  BY <1>2, <2>1, <2>2 DEF Ring
<1>5. /\ longer.start = ring.start /\ longer.count = ring.count + 1
      /\ longer.records[PlaceOf(ring, ring.count)] = r
      /\ \A p \in Place : p # PlaceOf(ring, ring.count) => longer.records[p] = ring.records[p]
  BY <1>1, <1>2, <1>3
<1> HIDE DEF longer
<1>6. /\ Contents(longer) \in Seq(Slot) /\ Len(Contents(longer)) = ring.count + 1
      /\ \A k \in 1 .. ring.count + 1 :
           Contents(longer)[k] = longer.records[PlaceOf(ring, k - 1)]
  <2>1. \A k : PlaceOf(longer, k) = PlaceOf(ring, k)
    BY <1>5 DEF PlaceOf
  <2> QED  BY <1>4, <1>5, <2>1, ContentsType
<1>7. /\ Contents(ring) \in Seq(Slot) /\ Len(Contents(ring)) = ring.count
      /\ \A k \in 1 .. ring.count : Contents(ring)[k] = ring.records[PlaceOf(ring, k - 1)]
  BY ContentsType
<1>8. /\ Append(Contents(ring), r) \in Seq(Slot)
      /\ Len(Append(Contents(ring), r)) = ring.count + 1
      /\ \A k \in 1 .. ring.count : Append(Contents(ring), r)[k] = Contents(ring)[k]
      /\ Append(Contents(ring), r)[ring.count + 1] = r
  BY <1>7, AppendProperties
<1>9. ASSUME NEW k \in 1 .. ring.count + 1
      PROVE  Contents(longer)[k] = Append(Contents(ring), r)[k]
  <2>1. CASE k = ring.count + 1
    BY <1>1, <1>5, <1>6, <1>8, <2>1
  <2>2. CASE k \in 1 .. ring.count
    <3>1. PlaceOf(ring, k - 1) # PlaceOf(ring, ring.count)
      BY <1>1, <2>2, Places, RingAssumption
    <3>2. PlaceOf(ring, k - 1) \in Place
      BY <1>1, <2>2, Places, RingAssumption
    <3> QED  BY <1>5, <1>6, <1>7, <1>8, <2>2, <3>1, <3>2
  <2>3. k = ring.count + 1 \/ k \in 1 .. ring.count
    BY <1>1, RingAssumption
  <2> QED  BY <2>1, <2>2, <2>3
<1>10. Contents(longer) = Append(Contents(ring), r)
  BY <1>6, <1>8, <1>9, SeqEqual
<1> QED  BY <1>4, <1>5, <1>10 DEF longer

\* A full ring gives up its oldest record: to write over it is to drop it and to
\* write behind the newest one.
LEMMA FullRing ==
  ASSUME NEW ring \in Ring, ~(ring.count < Capacity), NEW r \in Slot
  PROVE  /\ Without(ring, 1) \in Ring /\ Without(ring, 1).count < Capacity
         /\ Contents(Without(ring, 1)) = Tail(Contents(ring))
         /\ HistoryPush(ring, r) = QueueAdd(Without(ring, 1), r)
<1> DEFINE rest == Without(ring, 1)
<1>1. /\ ring.count = Capacity /\ ring.start \in 0 .. Capacity - 1
      /\ 1 \in 0 .. ring.count /\ 1 \in 0 .. Capacity /\ Capacity - 1 \in 0 .. Capacity
  BY RingAssumption DEF Ring, Place
<1>2. /\ rest \in Ring /\ rest.count = Capacity - 1
      /\ Contents(rest) = SubSeq(Contents(ring), 2, Capacity)
  BY <1>1, WithoutFront
<1>3. Contents(rest) = Tail(Contents(ring))
  <2>1. Contents(ring) \in Seq(Slot) /\ Len(Contents(ring)) = Capacity
    BY <1>1, ContentsType
  <2>2. Contents(ring) # << >>
    BY <2>1, EmptySeq, RingAssumption
  <2> QED  BY <1>2, <2>1, <2>2, TailIsSubSeq
<1>4. rest = [records |-> ring.records, start |-> PlaceOf(ring, 1), count |-> Capacity - 1]
  <2> DEFINE rs == ring.records
             st == ring.start
             place == PlaceOf(ring, 1)
             less == Capacity - 1
  <2>1. ring = [records |-> rs, start |-> st, count |-> Capacity]
    BY <1>1, RingFields
  <2>2. rest = [ring EXCEPT !.start = place, !.count = less]
    BY <1>1 DEF Without
  <2> HIDE DEF rs, st, place, less, rest
  <2>3. rest = [records |-> rs, start |-> place, count |-> less]
    BY <2>1, <2>2
  <2> QED  BY <2>3 DEF rs, place, less
<1>5. PlaceOf(rest, Capacity - 1) = ring.start
  <2>1. PlaceOf(ring, 1) = IF ring.start + 1 < Capacity THEN ring.start + 1
                           ELSE ring.start + 1 - Capacity
    BY <1>1, Places
  <2>2. PlaceOf(rest, Capacity - 1) =
          IF rest.start + (Capacity - 1) < Capacity THEN rest.start + (Capacity - 1)
          ELSE rest.start + (Capacity - 1) - Capacity
    BY <1>1, <1>2, Places
  <2>3. rest.start = PlaceOf(ring, 1)
    BY <1>4
  <2> QED  BY <1>1, <2>1, <2>2, <2>3, RingAssumption
<1>6. HistoryPush(ring, r) = QueueAdd(rest, r)
  <2> DEFINE rs == ring.records
             st == ring.start
             place == PlaceOf(ring, 1)
             less == Capacity - 1
             written == [rs EXCEPT ![st] = r]
  <2>1. ring = [records |-> rs, start |-> st, count |-> Capacity]
    BY <1>1, RingFields
  <2>2. HistoryPush(ring, r) = [ring EXCEPT !.records = written, !.start = place]
    BY DEF HistoryPush
  <2>3. rest = [records |-> rs, start |-> place, count |-> less]
    BY <1>4
  <2>4. QueueAdd(rest, r) = [rest EXCEPT !.records = [rs EXCEPT ![PlaceOf(rest, less)] = r],
                                         !.count = less + 1]
    <3>1. rest.records = rs /\ rest.count = less
      BY <2>3
    <3> QED  BY ONLY <3>1 DEF QueueAdd
  <2>5. PlaceOf(rest, less) = st
    BY <1>5
  <2>6. less + 1 = Capacity
    BY RingAssumption
  <2> HIDE DEF rs, st, place, less, rest, written
  <2>7. HistoryPush(ring, r) = [records |-> written, start |-> place, count |-> Capacity]
    BY <2>1, <2>2
  <2>8. QueueAdd(rest, r) = [records |-> written, start |-> place, count |-> Capacity]
    BY <2>3, <2>4, <2>5, <2>6 DEF written
  <2> QED  BY <2>7, <2>8
<1> QED  BY <1>1, <1>2, <1>3, <1>6, RingAssumption

\* packet_history_push and delay_queue_push do to the contents what the
\* sequences promise.
LEMMA Pushed ==
  ASSUME NEW ring \in Ring, NEW r \in Slot
  PROVE  /\ HistoryPush(ring, r) \in Ring
         /\ Contents(HistoryPush(ring, r)) = Abstract!packet_history_push(Contents(ring), r)
         /\ LET roomy == IF ring.count < Capacity THEN ring ELSE Without(ring, 1)
            IN  /\ QueueAdd(roomy, r) \in Ring
                /\ Contents(QueueAdd(roomy, r)) = Abstract!QueuePush(Contents(ring), r)
<1>1. Len(Contents(ring)) = ring.count
  BY ContentsType
<1>2. CASE ring.count < Capacity
  <2>1. HistoryPush(ring, r) = QueueAdd(ring, r)
    BY <1>2 DEF HistoryPush, QueueAdd
  <2> QED  BY <1>1, <1>2, <2>1, WrittenBehind
           DEF Abstract!packet_history_push, Abstract!QueuePush
<1>3. CASE ~(ring.count < Capacity)
  <2>1. /\ Without(ring, 1) \in Ring /\ Without(ring, 1).count < Capacity
        /\ Contents(Without(ring, 1)) = Tail(Contents(ring))
        /\ HistoryPush(ring, r) = QueueAdd(Without(ring, 1), r)
    BY <1>3, FullRing
  <2>2. /\ QueueAdd(Without(ring, 1), r) \in Ring
        /\ Contents(QueueAdd(Without(ring, 1), r)) = Append(Tail(Contents(ring)), r)
    BY <2>1, WrittenBehind
  <2> QED  BY <1>1, <1>3, <2>1, <2>2
           DEF Abstract!packet_history_push, Abstract!QueuePush, Abstract!delay_queue_pop
<1> QED  BY <1>2, <1>3

\* packet_history_prune_older_than drops what lies before the first record that
\* is new enough.
LEMMA Pruned ==
  ASSUME NEW ring \in Ring, NEW cutoff \in Int
  PROVE  /\ Prune(ring, cutoff) \in Ring
         /\ Contents(Prune(ring, cutoff)) =
              Abstract!packet_history_prune_older_than(Contents(ring), cutoff)
<1> DEFINE q == Contents(ring)
           kept == {k \in DOMAIN q : ~(q[k].at < cutoff)}
           at(k) == ring.records[PlaceOf(ring, k)].at
           Stop(n) == /\ \A k \in 0 .. n - 1 : at(k) < cutoff
                      /\ n = ring.count \/ at(n) >= cutoff
           stop == CHOOSE n \in 0 .. ring.count : Stop(n)
<1>1. ring.count \in Nat /\ DOMAIN q = 1 .. ring.count /\ q \in Seq(Slot) /\ Len(q) = ring.count
  BY ContentsType, RingAssumption DEF Ring
<1>2. \A k \in 1 .. ring.count : q[k].at = at(k - 1) /\ at(k - 1) \in Nat
  <2>1. \A k \in 1 .. ring.count : q[k] = ring.records[PlaceOf(ring, k - 1)] /\ q[k] \in Slot
    BY <1>1, ContentsType, ElementOfSeq
  <2> QED  BY <2>1 DEF Slot
<1>3. \A k \in 0 .. ring.count - 1 : at(k) = q[k + 1].at /\ at(k) \in Nat
  <2> SUFFICES ASSUME NEW k \in 0 .. ring.count - 1
               PROVE  at(k) = q[k + 1].at /\ at(k) \in Nat
    OBVIOUS
  <2>1. k + 1 \in 1 .. ring.count /\ (k + 1) - 1 = k
    BY <1>1
  <2> HIDE DEF q
  <2> QED  BY <1>2, <2>1
<1>4. Prune(ring, cutoff) = Without(ring, stop)
  BY DEF Prune
<1>5. Abstract!packet_history_prune_older_than(q, cutoff) =
        IF kept = {} THEN << >> ELSE SubSeq(q, Abstract!Min(kept), Len(q))
  BY DEF Abstract!packet_history_prune_older_than, Abstract!DropWhile
<1> HIDE DEF q, at
<1>6. CASE kept = {}
  <2>1. Stop(ring.count)
    <3> SUFFICES ASSUME NEW k \in 0 .. ring.count - 1 PROVE at(k) < cutoff
      OBVIOUS
    <3>1. k + 1 \in DOMAIN q
      BY <1>1
    <3>2. q[k + 1].at < cutoff
      BY <1>6, <3>1
    <3> QED  BY <1>3, <3>2
  <2>2. stop \in 0 .. ring.count /\ Stop(stop)
    BY <1>1, <2>1
  <2> HIDE DEF stop
  <2>3. stop = ring.count
    <3> SUFFICES ASSUME stop # ring.count PROVE FALSE
      OBVIOUS
    <3>1. stop \in 0 .. ring.count - 1 /\ at(stop) >= cutoff
      BY <1>1, <2>2
    <3>2. stop + 1 \in DOMAIN q /\ ~(q[stop + 1].at < cutoff)
      BY <1>1, <1>3, <3>1
    <3> QED  BY <1>6, <3>2
  <2>4. /\ Without(ring, stop) \in Ring
        /\ Contents(Without(ring, stop)) = SubSeq(q, ring.count + 1, ring.count)
    BY <2>2, <2>3, WithoutFront DEF q
  <2>5. SubSeq(q, ring.count + 1, ring.count) = << >>
    BY <1>1, SubSeqEmpty
  <2> QED  BY <1>4, <1>5, <1>6, <2>4, <2>5 DEF q, stop
<1>7. CASE kept # {}
  <2> DEFINE m == Abstract!Min(kept)
  <2>1. m \in kept /\ \A k \in kept : m <= k
    <3>1. kept \in SUBSET Nat
      BY <1>1
    <3> HIDE DEF kept
    <3> QED  BY <3>1, <1>7, LeastNatural DEF Abstract!Min
  <2> HIDE DEF m
  <2>2. m \in 1 .. ring.count /\ ~(q[m].at < cutoff)
    BY <1>1, <2>1
  <2>3. ASSUME NEW k \in 0 .. ring.count - 1, k < m - 1
        PROVE  at(k) < cutoff
    <3>1. k + 1 \in 1 .. ring.count /\ k + 1 < m
      BY <1>1, <2>2, <2>3
    <3>2. k + 1 \notin kept
      BY <2>1, <2>2, <3>1
    <3> QED  BY <1>1, <1>3, <3>1, <3>2
  <2>4. m - 1 \in 0 .. ring.count /\ Stop(m - 1)
    <3>1. m - 1 \in 0 .. ring.count - 1 /\ m - 1 \in 0 .. ring.count /\ (m - 1) + 1 = m
      BY <1>1, <2>2
    <3>2. at(m - 1) >= cutoff
      <4>1. at(m - 1) = q[m].at /\ at(m - 1) \in Nat
        BY <1>3, <3>1
      <4> QED  BY <2>2, <4>1
    <3>3. ASSUME NEW k \in 0 .. (m - 1) - 1 PROVE at(k) < cutoff
      <4>1. k \in 0 .. ring.count - 1 /\ k < m - 1
        BY <1>1, <2>2
      <4> QED  BY <2>3, <4>1
    <3> QED  BY <3>1, <3>2, <3>3
  <2>5. stop \in 0 .. ring.count /\ Stop(stop)
    BY <2>4
  <2> HIDE DEF stop
  <2>6. at(m - 1) \in Nat /\ ~(at(m - 1) < cutoff)
    BY <1>1, <1>3, <2>2
  <2>7. ~(m - 1 < stop)
    BY <1>1, <2>2, <2>5, <2>6
  <2>8. ~(stop < m - 1)
    <3> SUFFICES ASSUME stop < m - 1 PROVE FALSE
      OBVIOUS
    <3>1. stop \in 0 .. ring.count - 1
      BY <1>1, <2>2, <2>5
    <3> QED  BY <1>3, <2>3, <2>5, <3>1
  <2>9. stop + 1 = m
    BY <1>1, <2>2, <2>5, <2>7, <2>8
  <2>10. /\ Without(ring, stop) \in Ring
         /\ Contents(Without(ring, stop)) = SubSeq(q, m, ring.count)
    BY <2>5, <2>9, WithoutFront DEF q
  <2> QED  BY <1>1, <1>4, <1>5, <1>7, <2>10 DEF m, q, stop
<1> QED  BY <1>6, <1>7
-----------------------------------------------------------------------------
(***************************************************************************)
(* The invariant: the rings are rings, and the history numbers its records *)
(* without a gap up to the newest one.                                     *)
(***************************************************************************)
Numbered(q, n) == \A k \in 1 .. Len(q) : q[k].idx = n - Len(q) + k - 1

RingInv == TypeOK /\ Numbered(Contents(hist), next)

\* The next record continues the numbers.
LEMMA AppendNumbered ==
  ASSUME NEW n \in Nat, NEW q \in Seq(Slot), Numbered(q, n), NEW r \in Slot, r.idx = n
  PROVE  Append(q, r) \in Seq(Slot) /\ Numbered(Append(q, r), n + 1)
<1>1. Len(q) \in Nat
  BY LenProperties
<1>2. /\ Append(q, r) \in Seq(Slot) /\ Len(Append(q, r)) = Len(q) + 1
      /\ \A k \in 1 .. Len(q) : Append(q, r)[k] = q[k]
      /\ Append(q, r)[Len(q) + 1] = r
  BY AppendProperties
<1> QED  BY <1>1, <1>2 DEF Numbered

\* What is left behind a place keeps its numbers.
LEMMA RestNumbered ==
  ASSUME NEW n \in Nat, NEW q \in Seq(Slot), Numbered(q, n), NEW m \in 1 .. Len(q)
  PROVE  SubSeq(q, m, Len(q)) \in Seq(Slot) /\ Numbered(SubSeq(q, m, Len(q)), n)
<1>1. Len(q) \in Nat /\ \A k \in 1 .. Len(q) : q[k] \in Slot
  BY LenProperties, ElementOfSeq
<1>2. \A k \in m .. Len(q) : q[k] \in Slot
  BY <1>1
<1>3. m \in Int /\ Len(q) \in Int
  BY <1>1
<1> DEFINE rest == SubSeq(q, m, Len(q))
<1>4. /\ rest \in Seq(Slot) /\ Len(rest) = IF m <= Len(q) THEN Len(q) - m + 1 ELSE 0
      /\ \A k \in 1 .. Len(q) - m + 1 : rest[k] = q[m + k - 1]
  BY <1>2, <1>3, SubSeqProperties
<1> HIDE DEF rest
<1>5. Len(rest) = Len(q) - m + 1
  BY <1>1, <1>4
<1>6. ASSUME NEW k \in 1 .. Len(rest)
      PROVE  rest[k].idx = n - Len(rest) + k - 1
  <2>1. m + k - 1 \in 1 .. Len(q) /\ rest[k] = q[m + k - 1]
    BY <1>1, <1>4, <1>5
  <2>2. q[m + k - 1].idx = n - Len(q) + (m + k - 1) - 1
    BY <2>1 DEF Numbered
  <2> QED  BY <1>1, <1>5, <2>1, <2>2
<1> QED  BY <1>4, <1>6 DEF Numbered, rest

\* packet_history_push and packet_history_prune_older_than keep the numbers.
LEMMA HistoryNumbered ==
  ASSUME NEW q \in Seq(Slot), NEW n \in Nat, Numbered(q, n), NEW r \in Slot, r.idx = n
  PROVE  /\ Numbered(Abstract!packet_history_push(q, r), n + 1)
         /\ Abstract!packet_history_push(q, r) \in Seq(Slot)
<1>1. Len(q) \in Nat
  BY LenProperties
<1>2. CASE Len(q) < Capacity
  BY <1>2, AppendNumbered DEF Abstract!packet_history_push
<1>3. CASE ~(Len(q) < Capacity)
  <2>1. q # << >>
    BY <1>1, <1>3, EmptySeq, RingAssumption
  <2>2. Tail(q) = SubSeq(q, 2, Len(q))
    BY <2>1, TailIsSubSeq
  <2>3. Tail(q) \in Seq(Slot) /\ Numbered(Tail(q), n)
    <3>1. CASE Len(q) >= 2
      <4>1. 2 \in 1 .. Len(q)
        BY <1>1, <3>1
      <4>2. SubSeq(q, 2, Len(q)) \in Seq(Slot) /\ Numbered(SubSeq(q, 2, Len(q)), n)
        BY <4>1, RestNumbered
      <4> QED  BY <2>2, <4>2 DEF Numbered
    <3>2. CASE ~(Len(q) >= 2)
      <4>1. SubSeq(q, 2, Len(q)) = << >>
        BY <1>1, <3>2, SubSeqEmpty
      <4>2. << >> \in Seq(Slot) /\ Numbered(<< >>, n)
        BY EmptySeq DEF Numbered
      <4> QED  BY <2>2, <4>1, <4>2 DEF Numbered
    <3> QED  BY <3>1, <3>2
  <2> DEFINE rest == Tail(q)
  <2> HIDE DEF rest
  <2>4. Append(rest, r) \in Seq(Slot) /\ Numbered(Append(rest, r), n + 1)
    BY <2>3, AppendNumbered DEF rest
  <2> QED  BY <1>3, <2>4 DEF rest, Abstract!packet_history_push
<1> QED  BY <1>2, <1>3

LEMMA PrunedNumbered ==
  ASSUME NEW q \in Seq(Slot), NEW n \in Nat, Numbered(q, n), NEW cutoff \in Int
  PROVE  Numbered(Abstract!packet_history_prune_older_than(q, cutoff), n)
<1> DEFINE kept == {k \in DOMAIN q : ~(q[k].at < cutoff)}
<1>1. Len(q) \in Nat /\ DOMAIN q = 1 .. Len(q)
  BY LenProperties
<1>2. Abstract!packet_history_prune_older_than(q, cutoff) =
        IF kept = {} THEN << >> ELSE SubSeq(q, Abstract!Min(kept), Len(q))
  BY DEF Abstract!packet_history_prune_older_than, Abstract!DropWhile
<1>3. kept \in SUBSET Nat /\ kept \in SUBSET (1 .. Len(q))
  BY <1>1
<1> HIDE DEF kept
<1>4. CASE kept = {}
  <2>1. Numbered(<< >>, n)
    BY EmptySeq DEF Numbered
  <2> QED  BY <1>2, <1>4, <2>1
<1>5. CASE kept # {}
  <2>1. Abstract!Min(kept) \in kept
    BY <1>3, <1>5, LeastNatural DEF Abstract!Min
  <2> QED  BY <1>2, <1>3, <1>5, <2>1, RestNumbered
<1> QED  BY <1>4, <1>5

\* An empty ring has no contents.
LEMMA FreshRing ==
  ASSUME NEW ring, ring = [records |-> [i \in Place |-> Blank], start |-> 0, count |-> 0]
  PROVE  ring \in Ring /\ Contents(ring) = << >>
<1>1. Blank \in Slot /\ 0 \in Place /\ 0 \in 0 .. Capacity
  BY RingAssumption DEF Blank, Slot, Place
<1>2. ring \in Ring
  BY <1>1 DEF Ring
<1>3. Contents(ring) \in Seq(Slot) /\ Len(Contents(ring)) = 0
  BY <1>2, ContentsType
<1> QED  BY <1>2, <1>3, EmptySeq

LEMMA RingInit == Init => RingInv /\ Abstract!BuffersInit
<1> SUFFICES ASSUME Init PROVE RingInv /\ Abstract!BuffersInit
  OBVIOUS
<1>1. hist \in Ring /\ Contents(hist) = << >> /\ dq \in Ring /\ Contents(dq) = << >>
  BY FreshRing DEF Init
<1>2. Numbered(<< >>, next)
  BY EmptySeq DEF Numbered
<1> QED  BY <1>1, <1>2 DEF Init, RingInv, TypeOK, Abstract!BuffersInit

\* Every step keeps the invariant, and is the step of the sequences with the
\* same name or none of theirs.
LEMMA RingStep ==
  ASSUME RingInv, [Next]_ring_vars
  PROVE  RingInv' /\ [Abstract!BuffersNext]_(Abstract!buffer_vars)
<1>0. /\ now \in Nat /\ next \in Nat /\ hist \in Ring /\ dq \in Ring
      /\ Numbered(Contents(hist), next)
  BY DEF RingInv, TypeOK
<1>1. CASE Push
  <2> DEFINE r == [idx |-> next, at |-> now]
             pushed == HistoryPush(hist, r)
             roomy == IF dq.count < Capacity THEN dq ELSE Without(dq, 1)
             appended == Abstract!packet_history_push(Contents(hist), r)
  <2>1. r \in Slot /\ r.idx = next
    BY <1>0 DEF Slot
  <2>2. /\ next < MaxPackets /\ next' = next + 1 /\ now' = now
        /\ hist' = IF Retention > 0 /\ now > Retention
                   THEN Prune(pushed, now - Retention) ELSE pushed
        /\ dq' = QueueAdd(roomy, r)
    BY <1>1 DEF Push
  <2> HIDE DEF r
  <2>3. /\ pushed \in Ring /\ Contents(pushed) = appended
        /\ QueueAdd(roomy, r) \in Ring
        /\ Contents(QueueAdd(roomy, r)) = Abstract!QueuePush(Contents(dq), r)
    BY <1>0, <2>1, Pushed
  <2>4. appended \in Seq(Slot) /\ Numbered(appended, next + 1)
    BY <1>0, <2>1, HistoryNumbered, ContentsType
  <2> HIDE DEF pushed, roomy, appended
  <2>5. CASE Retention > 0 /\ now > Retention
    <3>1. now - Retention \in Int
      BY <1>0, RingAssumption
    <3>2. /\ hist' \in Ring
          /\ Contents(hist') = Abstract!packet_history_prune_older_than(appended, now - Retention)
      BY <2>2, <2>3, <2>5, <3>1, Pruned
    <3>3. Numbered(Contents(hist'), next + 1)
      BY <1>0, <2>4, <3>1, <3>2, PrunedNumbered
    <3> QED  BY <1>0, <2>2, <2>3, <2>5, <3>2, <3>3
             DEF RingInv, TypeOK, Abstract!BuffersNext, Abstract!PushRecord,
                 Abstract!Retained, r, appended
  <2>6. CASE ~(Retention > 0 /\ now > Retention)
    BY <1>0, <2>2, <2>3, <2>4, <2>6
       DEF RingInv, TypeOK, Abstract!BuffersNext, Abstract!PushRecord,
           Abstract!Retained, r, appended
  <2> QED  BY <2>5, <2>6
<1>2. CASE Pop
  <2>1. dq.count > 0 /\ dq' = Without(dq, 1) /\ UNCHANGED <<now, next, hist>>
    BY <1>2 DEF Pop
  <2>2. dq.count \in Nat /\ 1 \in 0 .. dq.count
    BY <1>0, <2>1, RingAssumption DEF Ring
  <2>3. dq' \in Ring /\ Contents(dq') = SubSeq(Contents(dq), 2, dq.count)
    BY <1>0, <2>1, <2>2, WithoutFront
  <2>4. Contents(dq) \in Seq(Slot) /\ Len(Contents(dq)) = dq.count
    BY <1>0, ContentsType
  <2>5. Contents(dq) # << >>
    BY <2>1, <2>2, <2>4, EmptySeq
  <2>6. Contents(dq') = Tail(Contents(dq))
    BY <2>3, <2>4, <2>5, TailIsSubSeq
  <2> QED  BY <1>0, <2>1, <2>3, <2>5, <2>6
           DEF RingInv, TypeOK, Abstract!BuffersNext, Abstract!PopRecord,
               Abstract!delay_queue_pop
<1>3. CASE Tick
  BY <1>0, <1>3 DEF Tick, RingInv, TypeOK, Abstract!BuffersNext, Abstract!Advance
<1>4. CASE BoundsReached \/ UNCHANGED ring_vars
  <2>1. UNCHANGED <<now, next, hist, dq>>
    BY <1>4 DEF BoundsReached, ring_vars
  <2> QED  BY <2>1 DEF RingInv, TypeOK, Abstract!buffer_vars
<1> QED  BY <1>1, <1>2, <1>3, <1>4 DEF Next

(***************************************************************************)
(* The rings of recovery_engine.c implement the sequences the engine is    *)
(* modelled with: whatever the order of pushes, pops, prunes and           *)
(* overflows, wrapping around the end of the array loses, repeats and      *)
(* reorders nothing.                                                       *)
(***************************************************************************)
THEOREM RingsImplementBuffers == Spec => ImplementsBuffers
<1>1. RingInv /\ [Next]_ring_vars => [Abstract!BuffersNext]_(Abstract!buffer_vars)
  BY RingStep
<1>2. RingInv /\ [Next]_ring_vars => RingInv'
  BY RingStep
<1> QED
  BY RingInit, <1>1, <1>2, PTL DEF Spec, ImplementsBuffers, Abstract!BuffersSpec

\* A record is where its index says, and no record that is not held is found.
LEMMA IndexIsExact == RingInv => FindIndexIsExact
<1> SUFFICES ASSUME RingInv, NEW i \in 0 .. next + Capacity
             PROVE  FindIndex(hist, i) =
                      Abstract!packet_history_find_index(Contents(hist), i)
  BY DEF FindIndexIsExact
<1> DEFINE q == Contents(hist)
           n == hist.count
           first == hist.records[hist.start].idx
           found == Abstract!packet_history_find_index(q, i)
           place == PlaceOf(hist, i - first)
<1> SUFFICES FindIndex(hist, i) = found
  OBVIOUS
<1>0. next \in Nat /\ hist \in Ring /\ n \in Nat /\ i \in Nat /\ n \in 0 .. Capacity
  BY RingAssumption DEF RingInv, TypeOK, Ring
<1>1. /\ Len(q) = n /\ DOMAIN q = 1 .. n
      /\ \A k \in 1 .. n : q[k] = hist.records[PlaceOf(hist, k - 1)]
      /\ \A k \in 1 .. n : q[k].idx = next - n + k - 1
  BY <1>0, ContentsType DEF RingInv, Numbered
<1>2. found = {q[k] : k \in {j \in DOMAIN q : q[j].idx = i}}
  BY DEF Abstract!packet_history_find_index
<1>3. FindIndex(hist, i) = IF \/ n = 0 \/ i < first \/ i - first >= n
                              \/ hist.records[place].idx # i
                           THEN {} ELSE {hist.records[place]}
  BY DEF FindIndex
<1>4. CASE n = 0
  <2> HIDE DEF q, n, found
  <2>1. DOMAIN q = {}
    BY <1>1, <1>4
  <2>2. found = {}
    BY <1>2, <2>1
  <2> QED  BY <1>3, <1>4, <2>2
<1>5. CASE n # 0
  <2>1. first = next - n
    <3>1. PlaceOf(hist, 0) = hist.start
      <4>1. hist.start \in 0 .. Capacity - 1
        BY <1>0 DEF Ring, Place
      <4>2. 0 \in 0 .. Capacity
        BY RingAssumption
      <4> QED  BY <1>0, <4>1, <4>2, Places, RingAssumption
    <3>2. 1 \in 1 .. n /\ 1 - 1 = 0
      BY <1>0, <1>5
    <3>3. q[1] = hist.records[hist.start]
      BY <1>1, <3>1, <3>2
    <3> HIDE DEF q, n
    <3>4. q[1].idx = next - n
      BY <1>0, <1>1, <3>2
    <3> QED  BY <3>3, <3>4
  <2> HIDE DEF q, n, first, found
  <2>2. CASE i < first \/ i - first >= n
    <3>1. \A k \in 1 .. n : q[k].idx # i
      BY <1>0, <1>1, <2>1, <2>2
    <3>2. found = {}
      BY <1>1, <1>2, <3>1
    <3> QED  BY <1>3, <2>2, <3>2
  <2>3. CASE ~(i < first \/ i - first >= n)
    <3> DEFINE j == i - first + 1
    <3>1. j \in 1 .. n /\ j - 1 = i - first /\ next - n + j - 1 = i
      BY <1>0, <2>1, <2>3
    <3>2. \A k \in 1 .. n : q[k].idx = i <=> k = j
      BY <1>0, <1>1, <2>1, <3>1
    <3>3. q[j] = hist.records[place] /\ q[j].idx = i
      BY <1>1, <3>1, <3>2
    <3> HIDE DEF j, place
    <3>4. {k \in DOMAIN q : q[k].idx = i} = {j}
      BY <1>1, <3>1, <3>2
    <3>5. found = {q[j]}
      BY <1>2, <3>4
    <3> QED  BY <1>3, <1>5, <2>3, <3>3, <3>5
  <2> QED  BY <2>2, <2>3
<1> QED  BY <1>4, <1>5

(***************************************************************************)
(* packet_history_find_index finds a record exactly if the history holds   *)
(* it, although it computes the place from the oldest record's index.      *)
(***************************************************************************)
THEOREM LookupIsExact == Spec => []FindIndexIsExact
<1>1. RingInv /\ [Next]_ring_vars => RingInv'
  BY RingStep
<1> QED
  BY RingInit, <1>1, IndexIsExact, PTL DEF Spec

(***************************************************************************)
(* start and count of packet_history_t and primary_delay_queue_t stay      *)
(* within the array that calloc returned.                                  *)
(***************************************************************************)
THEOREM RingsAreTyped == Spec => []TypeOK
<1>1. RingInv /\ [Next]_ring_vars => RingInv'
  BY RingStep
<1>2. RingInv => TypeOK
  BY DEF RingInv
<1> QED
  BY RingInit, <1>1, <1>2, PTL DEF Spec
=============================================================================
