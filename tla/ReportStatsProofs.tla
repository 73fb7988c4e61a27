-------------------------- MODULE ReportStatsProofs --------------------------
(***************************************************************************)
(* report_stats.c, for every set of PIDs, every length of the window and   *)
(* every threshold: its ring of samples is read where it was written, its  *)
(* continuity errors stand for losses, and a health judgement sees the     *)
(* trouble of its window and nothing older.                                *)
(***************************************************************************)
EXTENDS ReportStats, FiniteSetTheorems, SequenceTheorems, TLAPS

-----------------------------------------------------------------------------
(***************************************************************************)
(* The invariant.                                                          *)
(***************************************************************************)
Feed == [cc: [Pid -> CC], fresh: SUBSET Pid, gaps: Nat, damaged: Nat, malformed: Nat,
         trouble: Nat, captures: Seq(Sample), first: Nat]

Typed ==
  /\ now \in Nat \ {0}
  /\ packets_received \in Nat /\ cc_errors \in Nat /\ problems \in Nat
  /\ last_packet \in Nat
  /\ last_cc \in [Pid -> CC \cup {NoCC}]
  /\ ring \in [0 .. RollingSeconds - 1 -> Sample]
  /\ rolling_index \in 0 .. RollingSeconds - 1
  /\ rolling_count \in 0 .. RollingSeconds
  /\ last_sample \in Nat /\ last_health \in Nat /\ health \in Health
  /\ feed \in Feed

\* How many of n samples a ring keeps.
Kept(n) == IF n < RollingSeconds THEN n ELSE RollingSeconds

\* A ring with the newest of the samples caps: the k-th before the newest lies k
\* places before the one that was written last.
Holds(rg, index, count, caps) ==
  /\ index \in 0 .. RollingSeconds - 1
  /\ count = Kept(Len(caps))
  /\ count < RollingSeconds => index = count
  /\ \A k \in 0 .. count - 1 :
       rg[(index + RollingSeconds - 1 - k) % RollingSeconds] = caps[Len(caps) - k]

Sampled == Holds(ring, rolling_index, rolling_count, feed.captures)

\* When sample m was taken: one a second, from the first one on.
TakenAt(m) == feed.first + m - 1

Timed ==
  /\ last_sample \in {now - 1, now}
  /\ IF feed.captures = << >> THEN last_sample = 1 /\ feed.first = 0
     ELSE last_sample = TakenAt(Len(feed.captures))
  /\ last_packet <= now /\ feed.trouble <= now
  /\ problems = 0 => feed.trouble = 0

\* What a sample tells of the time behind it.
Telling ==
  \A m \in 1 .. Len(feed.captures) :
    /\ feed.captures[m].packets <= packets_received
    /\ feed.captures[m].packets = packets_received => last_packet <= TakenAt(m)
    /\ feed.captures[m].problems <= problems
    /\ feed.captures[m].problems = problems => feed.trouble <= TakenAt(m)
    /\ feed.trouble < TakenAt(m) => feed.captures[m].problems = problems

\* The PIDs whose next packet will be charged although the feed is in order: a
\* damaged packet left a counter behind that is not the feed's.
Misled == {pid \in Pid : last_cc[pid] # NoCC /\ feed.cc[pid] # NextCC(last_cc[pid])}

Accounted ==
  /\ \A pid \in Pid : pid \in feed.fresh <=> last_cc[pid] = NoCC
  /\ IsFiniteSet(Misled)
  /\ cc_errors + Cardinality(Misled) <= feed.gaps + feed.damaged

StatsInv == Typed /\ Sampled /\ Timed /\ Telling /\ Accounted
-----------------------------------------------------------------------------
(***************************************************************************)
(* The ring of samples.                                                    *)
(***************************************************************************)
\* Within two turns of a ring of n places, % subtracts n at most once.
LEMMA Wrapped ==
  ASSUME NEW n \in Nat \ {0}, NEW a \in Nat, a < 2 * n
  PROVE  a % n = IF a < n THEN a ELSE a - n
OBVIOUS

\* The place of the k-th sample before the newest, without the arithmetic.
LEMMA Places ==
  ASSUME NEW index \in 0 .. RollingSeconds - 1, NEW k \in 0 .. RollingSeconds - 1
  PROVE  (index + RollingSeconds - 1 - k) % RollingSeconds =
           IF k < index THEN index - 1 - k ELSE index + RollingSeconds - 1 - k
<1> DEFINE a == index + RollingSeconds - 1 - k
<1>1. a \in Nat /\ a < 2 * RollingSeconds /\ RollingSeconds \in Nat \ {0}
  BY StatsAssumption
<1>2. a < RollingSeconds <=> ~(k < index)
  BY StatsAssumption
<1>3. a - RollingSeconds = index - 1 - k
  BY StatsAssumption
<1> HIDE DEF a
<1>4. a % RollingSeconds = IF a < RollingSeconds THEN a ELSE a - RollingSeconds
  BY <1>1, Wrapped
<1>5. a % RollingSeconds = IF k < index THEN index - 1 - k ELSE a
  BY <1>2, <1>3, <1>4
<1> QED  BY <1>5 DEF a

\* rolling_sample_ago reads the sample that was asked for, or the oldest one.
LEMMA ReadRight ==
  ASSUME NEW rg, NEW index, NEW count, NEW caps \in Seq(Sample), caps # << >>,
         Holds(rg, index, count, caps), NEW n \in Nat
  PROVE  rolling_sample_ago(rg, index, count, n) =
           caps[Len(caps) - (IF n < count THEN n ELSE count - 1)]
<1> DEFINE k == IF n < count THEN n ELSE count - 1
<1>1. /\ Len(caps) \in Nat \ {0} /\ RollingSeconds \in Nat /\ RollingSeconds >= 2
  BY EmptySeq, StatsAssumption
<1>2. /\ index \in 0 .. RollingSeconds - 1 /\ count \in 1 .. RollingSeconds
      /\ count < RollingSeconds => index = count
  BY <1>1 DEF Holds, Kept
<1>3. k \in 0 .. count - 1 /\ k \in 0 .. RollingSeconds - 1
  BY <1>1, <1>2
<1>4. rg[(index + RollingSeconds - 1 - k) % RollingSeconds] = caps[Len(caps) - k]
  BY <1>3 DEF Holds
<1>5. (index + RollingSeconds - 1 - k) % RollingSeconds =
        IF k < index THEN index - 1 - k ELSE index + RollingSeconds - 1 - k
  BY <1>2, <1>3, Places
<1>6. CASE n >= count
  <2>1. k = count - 1
    BY <1>2, <1>6
  <2>2. rolling_sample_ago(rg, index, count, n) =
          IF count < RollingSeconds THEN rg[0] ELSE rg[index]
    BY <1>6 DEF rolling_sample_ago, oldest_rolling_sample
  <2> HIDE DEF k
  <2>3. CASE count < RollingSeconds
    <3>1. (index + RollingSeconds - 1 - k) % RollingSeconds = 0
      BY <1>1, <1>2, <1>5, <2>1, <2>3
    <3> QED  BY <1>4, <2>2, <2>3, <3>1 DEF k
  <2>4. CASE ~(count < RollingSeconds)
    <3>1. (index + RollingSeconds - 1 - k) % RollingSeconds = index
      BY <1>1, <1>2, <1>5, <2>1, <2>4
    <3> QED  BY <1>4, <2>2, <2>4, <3>1 DEF k
  <2> QED  BY <2>3, <2>4
<1>7. CASE ~(n >= count)
  <2>1. k = n /\ n \in 0 .. RollingSeconds - 1
    BY <1>1, <1>2, <1>7
  <2> DEFINE b == NewestIndex(index) + RollingSeconds - n
  <2>2. NewestIndex(index) = IF index = 0 THEN RollingSeconds - 1 ELSE index - 1
    BY DEF NewestIndex
  <2>3. b \in Nat /\ b < 2 * RollingSeconds
    BY <1>1, <1>2, <2>1, <2>2
  <2>4. rolling_sample_ago(rg, index, count, n) = rg[b % RollingSeconds]
    BY <1>7, Zenon DEF rolling_sample_ago
  <2>5. b - RollingSeconds = NewestIndex(index) - n
    BY <1>1, <1>2, <2>1, <2>2
  <2>6. (index + RollingSeconds - 1 - k) % RollingSeconds =
          IF b < RollingSeconds THEN b ELSE NewestIndex(index) - n
    BY <1>1, <1>2, <1>5, <2>1, <2>2
  <2> HIDE DEF b, k
  <2>7. b % RollingSeconds = IF b < RollingSeconds THEN b ELSE b - RollingSeconds
    <3>1. RollingSeconds \in Nat \ {0}
      BY <1>1
    <3> QED  BY <2>3, <3>1, Wrapped
  <2>8. (index + RollingSeconds - 1 - k) % RollingSeconds = b % RollingSeconds
    BY <2>5, <2>6, <2>7
  <2> QED  BY <1>4, <2>4, <2>8 DEF k
<1> QED  BY <1>6, <1>7

\* One more sample: the ring forgets the oldest one when it is full.
LEMMA CaptureKept ==
  ASSUME NEW rg \in [0 .. RollingSeconds - 1 -> Sample], NEW index, NEW count,
         NEW caps \in Seq(Sample), Holds(rg, index, count, caps), NEW new \in Sample
  PROVE  Holds([rg EXCEPT ![index] = new], (index + 1) % RollingSeconds,
               IF count < RollingSeconds THEN count + 1 ELSE count, Append(caps, new))
<1> DEFINE rg1 == [rg EXCEPT ![index] = new]
           index1 == (index + 1) % RollingSeconds
           count1 == IF count < RollingSeconds THEN count + 1 ELSE count
           caps1 == Append(caps, new)
<1>1. /\ Len(caps) \in Nat /\ RollingSeconds \in Nat /\ RollingSeconds >= 2
      /\ index \in 0 .. RollingSeconds - 1 /\ count \in 0 .. RollingSeconds
      /\ count = Kept(Len(caps)) /\ (count < RollingSeconds => index = count)
  BY LenProperties, StatsAssumption DEF Holds, Kept
<1>2. /\ Len(caps1) = Len(caps) + 1 /\ caps1[Len(caps) + 1] = new
      /\ \A i \in 1 .. Len(caps) : caps1[i] = caps[i]
  BY AppendProperties
<1>3. index1 = IF index + 1 < RollingSeconds THEN index + 1 ELSE 0
  <2> DEFINE a == index + 1
  <2>1. a \in Nat /\ a < 2 * RollingSeconds /\ RollingSeconds \in Nat \ {0}
        /\ (~(a < RollingSeconds) => a - RollingSeconds = 0)
    BY <1>1
  <2> HIDE DEF a
  <2>2. a % RollingSeconds = IF a < RollingSeconds THEN a ELSE a - RollingSeconds
    BY <2>1, Wrapped
  <2>3. index1 = a % RollingSeconds
    BY DEF a
  <2>4. a % RollingSeconds = IF a < RollingSeconds THEN a ELSE 0
    BY <2>1, <2>2
  <2> QED  BY <2>3, <2>4 DEF a
<1>4. \A i \in 0 .. RollingSeconds - 1 : rg1[i] = IF i = index THEN new ELSE rg[i]
  BY <1>1
<1> HIDE DEF rg1, index1, caps1
<1>5. /\ index1 \in 0 .. RollingSeconds - 1 /\ count1 = Kept(Len(caps1))
      /\ count1 < RollingSeconds => index1 = count1
  BY <1>1, <1>2, <1>3 DEF Kept
<1>6. count1 \in 1 .. RollingSeconds
  BY <1>1
<1>7. ASSUME NEW k \in 0 .. count1 - 1
      PROVE  rg1[(index1 + RollingSeconds - 1 - k) % RollingSeconds] = caps1[Len(caps1) - k]
  <2>1. k \in 0 .. RollingSeconds - 1
    BY <1>1, <1>6
  <2>2. (index1 + RollingSeconds - 1 - k) % RollingSeconds =
          IF k < index1 THEN index1 - 1 - k ELSE index1 + RollingSeconds - 1 - k
    BY <1>5, <2>1, Places
  <2> HIDE DEF count1
  <2>3. CASE k = 0
    <3>1. (index1 + RollingSeconds - 1 - k) % RollingSeconds = index
      BY <1>1, <1>3, <2>2, <2>3
    <3>2. Len(caps1) - k = Len(caps) + 1
      BY <1>1, <1>2, <2>3
    <3> QED  BY <1>1, <1>2, <1>4, <3>1, <3>2
  <2>4. CASE k # 0
    <3>1. k - 1 \in 0 .. count - 1 /\ k - 1 \in 0 .. RollingSeconds - 1
      <4>1. count1 <= count + 1
        BY <1>1 DEF count1
      <4> QED  BY <1>1, <1>6, <2>1, <2>4, <4>1
    <3>2. rg[(index + RollingSeconds - 1 - (k - 1)) % RollingSeconds] = caps[Len(caps) - (k - 1)]
      BY <3>1 DEF Holds
    <3>3. (index + RollingSeconds - 1 - (k - 1)) % RollingSeconds =
            IF k - 1 < index THEN index - 1 - (k - 1)
            ELSE index + RollingSeconds - 1 - (k - 1)
      BY <1>1, <3>1, Places
    <3>4. (index1 + RollingSeconds - 1 - k) % RollingSeconds =
            (index + RollingSeconds - 1 - (k - 1)) % RollingSeconds
      BY <1>1, <1>3, <2>1, <2>2, <2>4, <3>3
    <3>5. (index1 + RollingSeconds - 1 - k) % RollingSeconds \in 0 .. RollingSeconds - 1
          /\ (index1 + RollingSeconds - 1 - k) % RollingSeconds # index
      BY <1>1, <1>3, <2>1, <2>2, <2>4
    <3>6. Len(caps) - (k - 1) \in 1 .. Len(caps) /\ Len(caps1) - k = Len(caps) - (k - 1)
      <4> DEFINE l == Len(caps)
                 l1 == Len(caps1)
      <4>1. l \in Nat /\ l1 = l + 1 /\ count \in Nat /\ count <= l
        BY <1>1, <1>2 DEF Kept
      <4>2. k \in Nat /\ k - 1 \in 0 .. count - 1
        BY <2>1, <3>1
      <4> HIDE DEF l, l1
      <4>3. l - (k - 1) \in 1 .. l /\ l1 - k = l - (k - 1)
        BY <4>1, <4>2
      <4> QED  BY <4>3 DEF l, l1
    <3> QED  BY <1>2, <1>4, <3>2, <3>4, <3>5, <3>6
  <2> QED  BY <2>3, <2>4
<1>8. Holds(rg1, index1, count1, caps1)
  BY <1>5, <1>7 DEF Holds
<1> QED  BY <1>8 DEF rg1, index1, caps1
-----------------------------------------------------------------------------
(***************************************************************************)
(* Packets.                                                                *)
(***************************************************************************)
\* The feed owns up to what it has missed and hurt.
OwnsUp(missed, hurt) ==
  feed'.gaps = feed.gaps + missed /\ feed'.damaged = feed.damaged + hurt

\* What Sends changes of the feed.
LEMMA SendsFields ==
  ASSUME feed \in Feed, now \in Nat, NEW pid \in Pid, NEW c \in CC,
         NEW missed \in Nat, NEW hurt \in Nat, Sends(pid, c, missed, hurt)
  PROVE  /\ feed' \in Feed
         /\ feed'.cc = [feed.cc EXCEPT ![pid] = NextCC(c)]
         /\ feed'.fresh = Fresh \ {pid}
         /\ OwnsUp(missed, hurt)
         /\ feed'.trouble = IF problems' > problems THEN now ELSE feed.trouble
         /\ feed'.captures = feed.captures /\ feed'.first = feed.first
<1>1. /\ feed.cc \in [Pid -> CC] /\ feed.fresh \in SUBSET Pid /\ feed.gaps \in Nat
      /\ feed.damaged \in Nat /\ feed.malformed \in Nat /\ feed.trouble \in Nat
      /\ feed.captures \in Seq(Sample) /\ feed.first \in Nat
  BY DEF Feed
<1>2. feed = [cc |-> feed.cc, fresh |-> feed.fresh, gaps |-> feed.gaps,
              damaged |-> feed.damaged, malformed |-> feed.malformed,
              trouble |-> feed.trouble, captures |-> feed.captures, first |-> feed.first]
  BY DEF Feed
<1> DEFINE cc1 == [feed.cc EXCEPT ![pid] = NextCC(c)]
           fresh1 == Fresh \ {pid}
           gaps1 == feed.gaps + missed
           damaged1 == feed.damaged + hurt
           trouble1 == IF problems' > problems THEN now ELSE feed.trouble
<1>3. feed' = [feed EXCEPT !.cc = cc1, !.fresh = fresh1, !.gaps = gaps1,
                           !.damaged = damaged1, !.trouble = trouble1]
  BY <1>2 DEF Sends
<1>4. NextCC(c) \in CC
  BY StatsAssumption DEF NextCC, CC
<1>5. /\ cc1 \in [Pid -> CC] /\ fresh1 \in SUBSET Pid /\ gaps1 \in Nat
      /\ damaged1 \in Nat /\ trouble1 \in Nat
  BY <1>1, <1>4, SMTT(30) DEF Fresh
<1> HIDE DEF cc1, fresh1, gaps1, damaged1, trouble1
<1>6. feed' = [cc |-> cc1, fresh |-> fresh1, gaps |-> gaps1,
               damaged |-> damaged1, malformed |-> feed.malformed,
               trouble |-> trouble1, captures |-> feed.captures, first |-> feed.first]
  BY <1>2, <1>3
<1>7. feed' \in Feed
  BY <1>1, <1>5, <1>6 DEF Feed
<1> QED  BY <1>6, <1>7 DEF cc1, fresh1, gaps1, damaged1, trouble1, OwnsUp

\* No sample was taken later than now.
LEMMA TakenByNow ==
  ASSUME Typed, Timed, NEW m \in 1 .. Len(feed.captures)
  PROVE  TakenAt(m) \in Nat /\ TakenAt(m) <= now
<1>1. feed.captures \in Seq(Sample) /\ feed.first \in Nat /\ now \in Nat
  BY DEF Typed, Feed
<1>2. Len(feed.captures) \in Nat \ {0} /\ feed.captures # << >>
  BY <1>1, EmptySeq, LenProperties
<1>3. TakenAt(Len(feed.captures)) = last_sample /\ last_sample <= now /\ last_sample \in Nat
  BY <1>1, <1>2 DEF Timed, Typed
<1> QED  BY <1>1, <1>2, <1>3 DEF TakenAt

\* A packet leaves everything but the accounts of the counters in order.
LEMMA ObservedStep ==
  ASSUME Typed, Sampled, Timed, Telling, NEW pid \in Pid, NEW cc \in CC, NEW c \in CC,
         NEW payload \in BOOLEAN, NEW tei \in BOOLEAN, NEW flagged \in BOOLEAN,
         NEW missed \in Nat, NEW hurt \in Nat,
         ObservePacket(pid, cc, payload, tei, flagged), Sends(pid, c, missed, hurt)
  PROVE  Typed' /\ Sampled' /\ Timed' /\ Telling'
<1>1. /\ now \in Nat \ {0} /\ packets_received \in Nat /\ problems \in Nat
      /\ cc_errors \in Nat /\ last_packet \in Nat /\ feed \in Feed
      /\ last_cc \in [Pid -> CC \cup {NoCC}]
  BY DEF Typed
<1>2. /\ feed' \in Feed /\ feed'.captures = feed.captures /\ feed'.first = feed.first
      /\ feed'.trouble = IF problems' > problems THEN now ELSE feed.trouble
  BY <1>1, SendsFields
<1>3. /\ packets_received' = packets_received + 1 /\ last_packet' = now
      /\ cc_errors' \in Nat
      /\ UNCHANGED <<now, ring, rolling_index, rolling_count, last_sample, last_health, health>>
  BY <1>1 DEF ObservePacket
<1>4. \E new \in Nat : problems' = problems + new
  BY DEF ObservePacket
<1>5. last_cc' \in [Pid -> CC \cup {NoCC}]
  <2>1. Known(pid) \in [Pid -> CC \cup {NoCC}]
    BY <1>1 DEF Known
  <2>2. last_cc' = [Known(pid) EXCEPT ![pid] = cc]
    BY DEF ObservePacket
  <2> QED  BY <2>1, <2>2
<1>6. Typed'
  BY <1>1, <1>2, <1>3, <1>4, <1>5 DEF Typed
<1>7. Sampled'
  BY <1>2, <1>3 DEF Sampled
<1>8. /\ feed.trouble \in Nat /\ feed.trouble <= now
      /\ problems = 0 => feed.trouble = 0
      /\ feed'.trouble <= now /\ (problems' = 0 => feed'.trouble = 0)
  BY <1>1, <1>2, <1>4 DEF Timed, Feed
<1>9. Timed'
  BY <1>1, <1>2, <1>3, <1>8 DEF Timed, TakenAt
<1>10. Telling'
  <2> SUFFICES ASSUME NEW m \in 1 .. Len(feed.captures)
               PROVE  /\ feed.captures[m].packets <= packets_received'
                      /\ feed.captures[m].packets = packets_received' => last_packet' <= TakenAt(m)
                      /\ feed.captures[m].problems <= problems'
                      /\ feed.captures[m].problems = problems' => feed'.trouble <= TakenAt(m)
                      /\ feed'.trouble < TakenAt(m) => feed.captures[m].problems = problems'
    BY <1>2 DEF Telling, TakenAt
  <2>1. feed.captures[m].packets \in Nat /\ feed.captures[m].problems \in Nat
    <3>1. feed.captures \in Seq(Sample)
      BY <1>1 DEF Feed
    <3>2. feed.captures[m] \in Sample
      BY <3>1, ElementOfSeq
    <3> QED  BY <3>2 DEF Sample
  <2>2. TakenAt(m) \in Nat /\ TakenAt(m) <= now
    BY TakenByNow
  <2>3. /\ feed.captures[m].packets <= packets_received
        /\ feed.captures[m].problems <= problems
        /\ feed.captures[m].problems = problems => feed.trouble <= TakenAt(m)
        /\ feed.trouble < TakenAt(m) => feed.captures[m].problems = problems
    BY DEF Telling
  <2>4. PICK new \in Nat : problems' = problems + new
    BY <1>4
  <2> DEFINE had == feed.captures[m].packets
             bad == feed.captures[m].problems
             at == TakenAt(m)
             before == feed.trouble
             after == feed'.trouble
  <2>a. /\ problems \in Nat /\ problems' = problems + new /\ now \in Nat
        /\ bad \in Nat /\ bad <= problems /\ at \in Nat /\ at <= now
        /\ bad = problems => before <= at
        /\ before < at => bad = problems
        /\ after = IF problems' > problems THEN now ELSE before
    BY <1>1, <1>2, <2>1, <2>2, <2>3, <2>4
  <2>b. had < packets_received' /\ had \in Nat /\ packets_received' \in Nat
    <3>1. had \in Nat /\ had <= packets_received
      BY <2>1, <2>3
    <3> HIDE DEF had
    <3> QED  BY <1>1, <1>3, <3>1
  <2> HIDE DEF had, bad, at, before, after
  <2>5. CASE new = 0
    <3>1. problems' = problems /\ after = before
      BY <2>a, <2>5
    <3>2. /\ bad <= problems' /\ (bad = problems' => after <= at)
          /\ (after < at => bad = problems')
      BY <2>a, <3>1
    <3> QED  BY <2>b, <3>2 DEF had, bad, at, after
  <2>6. CASE new # 0
    <3>1. bad < problems' /\ bad \in Nat /\ problems' \in Nat /\ after = now
      BY <2>a, <2>6
    <3>2. ~(after < at)
      BY <2>a, <3>1
    <3>3. bad <= problems' /\ bad # problems'
      BY <3>1
    <3>4. had <= packets_received' /\ had # packets_received'
      BY <2>b
    <3> QED  BY <3>2, <3>3, <3>4 DEF had, bad, at, after
  <2> QED  BY <2>5, <2>6
<1> QED  BY <1>6, <1>7, <1>9, <1>10
-----------------------------------------------------------------------------
(***************************************************************************)
(* The accounts of the continuity counters.                                *)
(***************************************************************************)
\* A packet misleads at most about its own PID, and not at all if the feed goes
\* on from the counter it carried.
LEMMA MisledAfter ==
  ASSUME Typed, Accounted, NEW pid \in Pid, NEW cc \in CC, NEW c \in CC,
         NEW payload \in BOOLEAN, NEW tei \in BOOLEAN, NEW flagged \in BOOLEAN,
         NEW missed \in Nat, NEW hurt \in Nat,
         ObservePacket(pid, cc, payload, tei, flagged), Sends(pid, c, missed, hurt)
  PROVE  /\ \A p \in Pid : p \in feed'.fresh <=> last_cc'[p] = NoCC
         /\ Misled' \subseteq Misled \cup {pid}
         /\ c = cc => Misled' \subseteq Misled \ {pid}
<1>1. feed \in Feed /\ now \in Nat /\ last_cc \in [Pid -> CC \cup {NoCC}]
  BY DEF Typed
<1>2. /\ feed'.cc = [feed.cc EXCEPT ![pid] = NextCC(c)] /\ feed.cc \in [Pid -> CC]
      /\ feed'.fresh = Fresh \ {pid}
  BY <1>1, SendsFields DEF Feed
<1>3. last_cc' = [Known(pid) EXCEPT ![pid] = cc] /\ Known(pid) \in [Pid -> CC \cup {NoCC}]
  BY <1>1 DEF ObservePacket, Known
<1>4. cc # NoCC
  BY StatsAssumption DEF CC, NoCC
<1>5. ASSUME NEW p \in Pid, p # pid
      PROVE  /\ last_cc'[p] = IF IsSilent THEN NoCC ELSE last_cc[p]
             /\ feed'.cc[p] = feed.cc[p]
             /\ p \in feed'.fresh <=> IsSilent \/ p \in feed.fresh
  BY <1>1, <1>2, <1>3, <1>5 DEF Known, Fresh
<1>6. last_cc'[pid] = cc /\ feed'.cc[pid] = NextCC(c) /\ pid \notin feed'.fresh
  BY <1>2, <1>3
<1>7. \A p \in Pid : p \in feed'.fresh <=> last_cc'[p] = NoCC
  BY <1>4, <1>5, <1>6 DEF Accounted
<1>8. \A p \in Pid : p \in Misled' => p = pid \/ p \in Misled
  BY <1>5 DEF Misled
<1>9. c = cc => pid \notin Misled'
  BY <1>6 DEF Misled, NextCC
<1> QED  BY <1>7, <1>8, <1>9 DEF Misled

\* A counter counted as an error was skipped by the feed or the PID was misled.
LEMMA ErrorIsExcused ==
  ASSUME Typed, Accounted, NEW pid \in Pid, NEW cc \in CC, NEW payload \in BOOLEAN,
         Unexpected(Known(pid)[pid], cc, payload), pid \notin Misled
  PROVE  /\ pid \notin Fresh
         /\ cc # IF payload THEN feed.cc[pid] ELSE (feed.cc[pid] + CCMod - 1) % CCMod
<1>1. feed.cc \in [Pid -> CC] /\ last_cc \in [Pid -> CC \cup {NoCC}]
  BY DEF Typed, Feed
<1>2. Known(pid)[pid] # NoCC
  BY DEF Unexpected
<1>3. ~IsSilent /\ Known(pid) = last_cc /\ last_cc[pid] # NoCC
  BY <1>2 DEF Known
<1>4. pid \notin Fresh
  BY <1>3 DEF Fresh, Accounted
<1> DEFINE prev == last_cc[pid]
<1>5. prev \in CC /\ feed.cc[pid] = NextCC(prev)
  BY <1>1, <1>3 DEF Misled
<1>6. cc # IF payload THEN NextCC(prev) ELSE prev
  BY <1>3 DEF Unexpected
<1> HIDE DEF prev
<1>7. prev \in 0 .. CCMod - 1 /\ CCMod \in Nat /\ CCMod >= 2
  BY <1>5, StatsAssumption DEF CC
<1>8. NextCC(prev) = IF prev + 1 < CCMod THEN prev + 1 ELSE 0
  <2> DEFINE a == prev + 1
  <2>1. a \in Nat /\ a < 2 * CCMod /\ CCMod \in Nat \ {0} /\ (~(a < CCMod) => a - CCMod = 0)
    BY <1>7
  <2> HIDE DEF a
  <2>2. a % CCMod = IF a < CCMod THEN a ELSE 0
    BY <2>1, Wrapped
  <2> QED  BY <2>2 DEF a, NextCC
<1>9. (NextCC(prev) + CCMod - 1) % CCMod = prev
  <2> DEFINE a == NextCC(prev) + CCMod - 1
  <2>1. a \in Nat /\ a < 2 * CCMod /\ CCMod \in Nat \ {0}
        /\ (IF a < CCMod THEN a ELSE a - CCMod) = prev
    BY <1>7, <1>8
  <2> HIDE DEF a
  <2>2. a % CCMod = IF a < CCMod THEN a ELSE a - CCMod
    BY <2>1, Wrapped
  <2> QED  BY <2>1, <2>2 DEF a
<1> QED  BY <1>4, <1>5, <1>6, <1>9

\* Fewer PIDs are misled, or one more.
LEMMA MisledCount ==
  ASSUME IsFiniteSet(Misled), NEW pid, NEW S
  PROVE  /\ S \subseteq Misled \cup {pid} =>
              IsFiniteSet(S) /\ Cardinality(S) \in Nat
              /\ Cardinality(S) <= Cardinality(Misled) + 1
         /\ S \subseteq Misled \ {pid} =>
              IsFiniteSet(S) /\ Cardinality(S) \in Nat
              /\ Cardinality(S) <= Cardinality(Misled) - IF pid \in Misled THEN 1 ELSE 0
         /\ Cardinality(Misled) \in Nat
<1>1. Cardinality(Misled) \in Nat
  BY FS_CardinalityType
<1>2. /\ IsFiniteSet(Misled \cup {pid})
      /\ Cardinality(Misled \cup {pid}) = IF pid \in Misled THEN Cardinality(Misled)
                                          ELSE Cardinality(Misled) + 1
  BY FS_AddElement
<1>3. /\ IsFiniteSet(Misled \ {pid})
      /\ Cardinality(Misled \ {pid}) = IF pid \in Misled THEN Cardinality(Misled) - 1
                                       ELSE Cardinality(Misled)
  BY FS_RemoveElement
<1>4. CASE S \subseteq Misled \cup {pid}
  <2>1. IsFiniteSet(S) /\ Cardinality(S) <= Cardinality(Misled \cup {pid})
    BY <1>2, <1>4, FS_Subset
  <2>2. Cardinality(S) \in Nat
    BY <2>1, FS_CardinalityType
  <2>3. Cardinality(S) <= Cardinality(Misled) + 1
    BY <1>1, <1>2, <2>1, <2>2
  <2>4. S \subseteq Misled \ {pid} =>
          Cardinality(S) <= Cardinality(Misled) - IF pid \in Misled THEN 1 ELSE 0
    <3>1. S \subseteq Misled \ {pid} => Cardinality(S) <= Cardinality(Misled \ {pid})
      BY <1>3, FS_Subset
    <3> QED  BY <1>1, <1>3, <2>2, <3>1
  <2> QED  BY <1>1, <2>1, <2>2, <2>3, <2>4
<1>5. CASE ~(S \subseteq Misled \cup {pid})
  BY <1>1, <1>5
<1> QED  BY <1>4, <1>5

\* A packet keeps the invariant, if an error that is counted is one the feed
\* owes, and the feed owns up to a counter it does not go on from.
LEMMA ChargedStep ==
  ASSUME StatsInv, NEW pid \in Pid, NEW cc \in CC, NEW c \in CC,
         NEW payload \in BOOLEAN, NEW tei \in BOOLEAN, NEW flagged \in BOOLEAN,
         NEW missed \in Nat, NEW hurt \in Nat,
         ObservePacket(pid, cc, payload, tei, flagged), Sends(pid, c, missed, hurt),
         c = cc => flagged \/ ~Unexpected(Known(pid)[pid], cc, payload)
                   \/ pid \in Misled \/ missed > 0,
         c # cc => flagged /\ hurt > 0
  PROVE  StatsInv'
<1> DEFINE bad == IF ~flagged /\ Unexpected(Known(pid)[pid], cc, payload) THEN 1 ELSE 0
           less == IF pid \in Misled THEN 1 ELSE 0
<1>0. /\ Typed /\ Sampled /\ Timed /\ Telling /\ Accounted /\ IsFiniteSet(Misled)
      /\ cc_errors \in Nat /\ feed.gaps \in Nat /\ feed.damaged \in Nat
      /\ feed \in Feed /\ now \in Nat
      /\ cc_errors + Cardinality(Misled) <= feed.gaps + feed.damaged
  BY DEF StatsInv, Typed, Accounted, Feed
<1>1. Typed' /\ Sampled' /\ Timed' /\ Telling'
  BY <1>0, ObservedStep
<1>2. /\ \A p \in Pid : p \in feed'.fresh <=> last_cc'[p] = NoCC
      /\ Misled' \subseteq Misled \cup {pid}
      /\ c = cc => Misled' \subseteq Misled \ {pid}
  BY <1>0, MisledAfter
<1>3. feed'.gaps = feed.gaps + missed /\ feed'.damaged = feed.damaged + hurt
  <2>1. feed \in Feed /\ now \in Nat
    BY <1>0
  <2>2. OwnsUp(missed, hurt)
    BY <2>1, SendsFields
  <2> QED  BY <2>2 DEF OwnsUp
<1>4. cc_errors' = cc_errors + bad
  BY DEF ObservePacket
<1>5. /\ IsFiniteSet(Misled') /\ Cardinality(Misled') \in Nat /\ Cardinality(Misled) \in Nat
      /\ Cardinality(Misled') <= Cardinality(Misled) + 1
      /\ c = cc => Cardinality(Misled') <= Cardinality(Misled) - less
  BY <1>0, <1>2, MisledCount
<1>6. /\ bad \in {0, 1} /\ less \in {0, 1}
      /\ c = cc => bad = 0 \/ less = 1 \/ missed > 0
      /\ c # cc => bad = 0 /\ hurt > 0
  OBVIOUS
<1> HIDE DEF bad, less
<1>7. cc_errors' + Cardinality(Misled') <= feed'.gaps + feed'.damaged
  <2>1. CASE c = cc
    BY <1>0, <1>3, <1>4, <1>5, <1>6, <2>1
  <2>2. CASE c # cc
    BY <1>0, <1>3, <1>4, <1>5, <1>6, <2>2
  <2> QED  BY <2>1, <2>2
<1> QED  BY <1>1, <1>2, <1>5, <1>7 DEF StatsInv, Accounted

\* The three kinds of packet keep the invariant.
LEMMA PacketStep ==
  ASSUME StatsInv, NEW pid \in Pid, NEW payload \in BOOLEAN,
         Packet(pid, payload) \/ Renumbered(pid) \/ Damaged(pid)
  PROVE  StatsInv'
<1> DEFINE zero == 0
           one == 1
           off == FALSE
           on == TRUE
<1>0. /\ zero \in Nat /\ one \in Nat /\ one > 0 /\ off \in BOOLEAN /\ on \in BOOLEAN
      /\ ~off /\ on
  OBVIOUS
<1>1. CASE Packet(pid, payload)
  <2> DEFINE next == IF payload THEN feed.cc[pid] ELSE (feed.cc[pid] + CCMod - 1) % CCMod
             gap(cc) == IF cc # next /\ pid \notin Fresh THEN one ELSE zero
  <2>1. PICK cc \in CC : /\ ObservePacket(pid, cc, payload, off, off)
                         /\ Sends(pid, cc, gap(cc), zero)
    BY <1>1 DEF Packet
  <2>2. gap(cc) \in Nat
    OBVIOUS
  <2>3. Unexpected(Known(pid)[pid], cc, payload) /\ pid \notin Misled => gap(cc) > 0
    BY ErrorIsExcused DEF StatsInv
  <2> HIDE DEF zero, one, off, on, gap
  <2> QED  BY <1>0, <2>1, <2>2, <2>3, ChargedStep
<1>2. CASE Renumbered(pid)
  <2>1. PICK cc \in CC : ObservePacket(pid, cc, on, off, on) /\ Sends(pid, cc, zero, zero)
    BY <1>2 DEF Renumbered
  <2> HIDE DEF zero, one, off, on
  <2> QED  BY <1>0, <2>1, ChargedStep
<1>3. CASE Damaged(pid)
  <2> DEFINE c == feed.cc[pid]
  <2>1. PICK cc \in CC : ObservePacket(pid, cc, on, on, on)
    BY <1>3 DEF Damaged
  <2>2. c \in CC /\ Sends(pid, c, zero, one)
    BY <1>3 DEF Damaged, StatsInv, Typed, Feed
  <2> HIDE DEF zero, one, off, on, c
  <2> QED  BY <1>0, <2>1, <2>2, ChargedStep
<1> QED  BY <1>1, <1>2, <1>3

\* Bytes that are no packets are trouble, and nothing else.
LEMMA MalformedStep ==
  ASSUME StatsInv, Malformed
  PROVE  StatsInv'
<1>1. /\ feed.cc \in [Pid -> CC] /\ feed.fresh \in SUBSET Pid /\ feed.gaps \in Nat
      /\ feed.damaged \in Nat /\ feed.malformed \in Nat /\ feed.trouble \in Nat
      /\ feed.captures \in Seq(Sample) /\ feed.first \in Nat
      /\ now \in Nat /\ problems \in Nat
  BY DEF StatsInv, Typed, Feed
<1>2. feed = [cc |-> feed.cc, fresh |-> feed.fresh, gaps |-> feed.gaps,
              damaged |-> feed.damaged, malformed |-> feed.malformed,
              trouble |-> feed.trouble, captures |-> feed.captures, first |-> feed.first]
  BY DEF StatsInv, Typed, Feed
<1> DEFINE malformed1 == feed.malformed + 1
<1>3. feed' = [feed EXCEPT !.malformed = malformed1, !.trouble = now]
  BY <1>2 DEF Malformed
<1>4. malformed1 \in Nat
  BY <1>1
<1> HIDE DEF malformed1
<1>5. feed' = [cc |-> feed.cc, fresh |-> feed.fresh, gaps |-> feed.gaps,
               damaged |-> feed.damaged, malformed |-> malformed1,
               trouble |-> now, captures |-> feed.captures, first |-> feed.first]
  BY <1>2, <1>3
<1>6. feed' \in Feed
  BY <1>1, <1>4, <1>5 DEF Feed
<1>7. /\ problems' = problems + 1
      /\ UNCHANGED <<now, packets_received, cc_errors, last_packet, last_cc, ring,
                     rolling_index, rolling_count, last_sample, last_health, health>>
  BY DEF Malformed
<1>8. /\ feed'.cc = feed.cc /\ feed'.fresh = feed.fresh /\ feed'.gaps = feed.gaps
      /\ feed'.damaged = feed.damaged /\ feed'.trouble = now
      /\ feed'.captures = feed.captures /\ feed'.first = feed.first
  BY <1>5
<1>9. Typed' /\ Sampled'
  BY <1>1, <1>6, <1>7, <1>8 DEF StatsInv, Typed, Sampled
<1>10. Timed'
  BY <1>1, <1>7, <1>8 DEF StatsInv, Timed, TakenAt
<1>11. Accounted'
  BY <1>7, <1>8 DEF StatsInv, Accounted, Misled
<1>12. Telling'
  <2> SUFFICES ASSUME NEW m \in 1 .. Len(feed.captures)
               PROVE  /\ feed.captures[m].packets <= packets_received
                      /\ feed.captures[m].packets = packets_received => last_packet <= TakenAt(m)
                      /\ feed.captures[m].problems < problems + 1
                      /\ ~(now < TakenAt(m))
    <3>1. ASSUME NEW m \in 1 .. Len(feed.captures)
          PROVE  feed.captures[m].problems \in Nat
      <4>1. feed.captures[m] \in Sample
        BY <1>1, ElementOfSeq
      <4> QED  BY <4>1 DEF Sample
    <3>2. ASSUME NEW n \in Nat, n < problems + 1
          PROVE  n <= problems + 1 /\ n # problems + 1
      BY <1>1, <3>2
    <3> QED  BY <1>7, <1>8, <3>1, <3>2 DEF Telling, TakenAt
  <2>1. feed.captures[m].problems \in Nat /\ feed.captures[m].problems <= problems
    <3>1. feed.captures[m] \in Sample
      BY <1>1, ElementOfSeq
    <3> QED  BY <3>1 DEF StatsInv, Telling, Sample
  <2>2. TakenAt(m) \in Nat /\ TakenAt(m) <= now
    BY TakenByNow DEF StatsInv
  <2>3. /\ feed.captures[m].packets <= packets_received
        /\ feed.captures[m].packets = packets_received => last_packet <= TakenAt(m)
    BY DEF StatsInv, Telling
  <2> DEFINE bad == feed.captures[m].problems
             at == TakenAt(m)
  <2>4. bad \in Nat /\ bad <= problems /\ at \in Nat /\ at <= now
    BY <2>1, <2>2
  <2> HIDE DEF bad, at
  <2>5. bad < problems + 1 /\ ~(now < at)
    BY <1>1, <2>4
  <2> QED  BY <2>3, <2>5 DEF bad, at
<1> QED  BY <1>9, <1>10, <1>11, <1>12 DEF StatsInv
-----------------------------------------------------------------------------
(***************************************************************************)
(* Samples and judgements.                                                 *)
(***************************************************************************)
\* report_stats_tick keeps the ring, and every sample tells what it told.
LEMMA TickStep ==
  ASSUME StatsInv, Tick,
         UNCHANGED <<now, packets_received, cc_errors, problems, last_packet, last_cc>>,
         last_health' \in Nat, health' \in Health
  PROVE  StatsInv' /\ last_sample' = now
<1>0. /\ feed.cc \in [Pid -> CC] /\ feed.fresh \in SUBSET Pid /\ feed.gaps \in Nat
      /\ feed.damaged \in Nat /\ feed.malformed \in Nat /\ feed.trouble \in Nat
      /\ feed.captures \in Seq(Sample) /\ feed.first \in Nat
      /\ now \in Nat \ {0} /\ packets_received \in Nat /\ problems \in Nat
      /\ last_sample \in {now - 1, now} /\ last_sample \in Nat
  BY DEF StatsInv, Typed, Feed, Timed
<1>1. CASE ~TickDue
  <2>1. UNCHANGED <<ring, rolling_index, rolling_count, last_sample, feed>>
    BY <1>1 DEF Tick
  <2>2. last_sample = now
    BY <1>0, <1>1 DEF TickDue
  <2> QED  BY <2>1, <2>2
           DEF StatsInv, Typed, Sampled, Timed, Telling, TakenAt, Accounted, Misled
<1>2. CASE TickDue
  <2> DEFINE new == [packets |-> packets_received, problems |-> problems]
             caps == feed.captures
             caps1 == Append(caps, new)
             first1 == IF rolling_count = 0 THEN now ELSE feed.first
             count1 == IF rolling_count < RollingSeconds THEN rolling_count + 1
                       ELSE rolling_count
             index1 == (rolling_index + 1) % RollingSeconds
  <2>1. /\ ring \in [0 .. RollingSeconds - 1 -> Sample]
        /\ rolling_index \in 0 .. RollingSeconds - 1 /\ rolling_count \in 0 .. RollingSeconds
        /\ Holds(ring, rolling_index, rolling_count, caps)
        /\ new \in Sample /\ caps \in Seq(Sample)
        /\ RollingSeconds \in Nat /\ RollingSeconds >= 2
    BY <1>0, StatsAssumption DEF StatsInv, Typed, Sampled, Sample
  <2>2. ring' = [ring EXCEPT ![rolling_index] = new] /\ ring'[rolling_index] = new
    BY <1>2, <2>1 DEF Tick, Captured
  <2>3. /\ rolling_index' = index1 /\ rolling_count' = count1 /\ last_sample' = now
        /\ feed' = [feed EXCEPT !.captures = caps1, !.first = first1]
    <3>1. feed' = [feed EXCEPT !.captures = Append(@, Captured[rolling_index]),
                               !.first = IF rolling_count = 0 THEN now ELSE @]
      BY <1>2 DEF Tick
    <3>2. Captured[rolling_index] = new
      BY <2>1 DEF Captured
    <3>3. feed = [cc |-> feed.cc, fresh |-> feed.fresh, gaps |-> feed.gaps,
                  damaged |-> feed.damaged, malformed |-> feed.malformed,
                  trouble |-> feed.trouble, captures |-> feed.captures, first |-> feed.first]
      BY DEF StatsInv, Typed, Feed
    <3>4. rolling_index' = index1 /\ rolling_count' = count1 /\ last_sample' = now
      BY <1>2 DEF Tick
    <3> HIDE DEF new
    <3> QED  BY <3>1, <3>2, <3>3, <3>4
  <2> HIDE DEF new
  <2>4. /\ Len(caps) \in Nat /\ caps1 \in Seq(Sample) /\ Len(caps1) = Len(caps) + 1
        /\ \A m \in 1 .. Len(caps) : caps1[m] = caps[m]
        /\ caps1[Len(caps) + 1] = new /\ caps1 # << >>
    BY <2>1, AppendProperties, LenProperties, EmptySeq, SMTT(30)
  <2>5. Holds(ring', rolling_index', rolling_count', caps1)
    BY <2>1, <2>2, <2>3, CaptureKept
  <2>6. rolling_count = 0 <=> caps = << >>
    <3>1. Len(caps) = 0 <=> caps = << >>
      BY <2>1, EmptySeq
    <3> QED  BY <2>1, <2>4, <3>1 DEF Holds, Kept
  <2>7. first1 \in Nat /\ first1 + Len(caps) = now /\ (caps # << >> => first1 = feed.first)
    <3>1. last_sample = now - 1
      BY <1>0, <1>2 DEF TickDue
    <3>2. CASE caps = << >>
      <4>1. Len(caps) = 0
        BY <3>2, EmptySeq
      <4> QED  BY <1>0, <2>6, <3>2, <4>1
    <3>3. CASE caps # << >>
      <4>1. first1 = feed.first
        BY <2>6, <3>3
      <4>2. last_sample = feed.first + Len(caps) - 1
        BY <3>3 DEF StatsInv, Timed, TakenAt
      <4> HIDE DEF caps, first1
      <4> QED  BY <1>0, <2>4, <3>1, <4>1, <4>2
    <3> QED  BY <3>2, <3>3
  <2> HIDE DEF caps1, first1, count1, index1
  <2>8. feed' = [cc |-> feed.cc, fresh |-> feed.fresh, gaps |-> feed.gaps,
                 damaged |-> feed.damaged, malformed |-> feed.malformed,
                 trouble |-> feed.trouble, captures |-> caps1, first |-> first1]
    <3>1. feed = [cc |-> feed.cc, fresh |-> feed.fresh, gaps |-> feed.gaps,
                  damaged |-> feed.damaged, malformed |-> feed.malformed,
                  trouble |-> feed.trouble, captures |-> feed.captures, first |-> feed.first]
      BY DEF StatsInv, Typed, Feed
    <3> QED  BY <2>3, <3>1
  <2>9. feed' \in Feed /\ feed'.captures = caps1 /\ feed'.first = first1
        /\ feed'.trouble = feed.trouble /\ feed'.cc = feed.cc /\ feed'.fresh = feed.fresh
        /\ feed'.gaps = feed.gaps /\ feed'.damaged = feed.damaged
    BY <1>0, <2>4, <2>7, <2>8 DEF Feed
  <2>10. Typed' /\ Sampled'
    <3>1. rolling_index' \in 0 .. RollingSeconds - 1 /\ rolling_count' \in 0 .. RollingSeconds
      BY <2>1, <2>3, <2>5 DEF Holds, count1
    <3>2. ring' \in [0 .. RollingSeconds - 1 -> Sample]
      BY <2>1, <2>2
    <3> QED  BY <1>0, <2>3, <2>5, <2>9, <3>1, <3>2 DEF StatsInv, Typed, Sampled
  <2>11. Timed'
    <3>1. first1 + (Len(caps) + 1) - 1 = now
      BY <1>0, <2>4, <2>7
    <3> QED  BY <1>0, <2>3, <2>4, <2>9, <3>1 DEF StatsInv, Timed, TakenAt
  <2>12. Accounted'
    BY <2>9 DEF StatsInv, Accounted, Misled
  <2>13. Telling'
    <3> SUFFICES ASSUME NEW m \in 1 .. Len(caps1)
                 PROVE  /\ caps1[m].packets <= packets_received
                        /\ caps1[m].packets = packets_received => last_packet <= first1 + m - 1
                        /\ caps1[m].problems <= problems
                        /\ caps1[m].problems = problems => feed.trouble <= first1 + m - 1
                        /\ feed.trouble < first1 + m - 1 => caps1[m].problems = problems
      BY <2>9 DEF Telling, TakenAt
    <3>1. CASE m \in 1 .. Len(caps)
      <4>1. caps # << >>
        BY <2>4, <3>1, EmptySeq
      <4>2. first1 = feed.first /\ caps1[m] = caps[m]
        BY <2>4, <2>7, <3>1, <4>1
      <4> QED  BY <3>1, <4>2 DEF StatsInv, Telling, TakenAt
    <3>2. CASE m = Len(caps) + 1
      <4>1. first1 + m - 1 = now
        BY <1>0, <2>4, <2>7, <3>2
      <4>2. caps1[m].packets = packets_received /\ caps1[m].problems = problems
        BY <2>4, <3>2 DEF new
      <4>3. last_packet <= now /\ feed.trouble <= now
        BY DEF StatsInv, Timed
      <4> QED  BY <1>0, <4>1, <4>2, <4>3
    <3> QED  BY <2>4, <3>1, <3>2
  <2> QED  BY <2>3, <2>10, <2>11, <2>12, <2>13 DEF StatsInv
<1> QED  BY <1>1, <1>2

\* What update_stream_health makes of the samples caps, the first of which was
\* taken at time first and the last one now.
LEMMA Judgement ==
  ASSUME Typed, Timed, NEW rg, NEW index, NEW count, NEW caps \in Seq(Sample), caps # << >>,
         Holds(rg, index, count, caps), NEW first \in Nat, first + Len(caps) - 1 = now,
         \A m \in 1 .. Len(caps) :
           /\ caps[m].packets <= packets_received
           /\ caps[m].packets = packets_received => last_packet <= first + m - 1
           /\ caps[m].problems <= problems
           /\ caps[m].problems = problems => feed.trouble <= first + m - 1
           /\ feed.trouble < first + m - 1 => caps[m].problems = problems
  PROVE  LET start == IF first > now - (RollingSeconds - 1) THEN first
                      ELSE now - (RollingSeconds - 1)
         IN  /\ HealthFrom(rg, index, count) = "healthy" => feed.trouble <= start
             /\ ~IsSilent /\ last_packet > start /\ feed.trouble < start =>
                  HealthFrom(rg, index, count) = "healthy"
<1> DEFINE start == IF first > now - (RollingSeconds - 1) THEN first
                    ELSE now - (RollingSeconds - 1)
           m == Len(caps) - (count - 1)
           j == Len(caps) - (IF QuietSeconds < count THEN QuietSeconds ELSE count - 1)
           window == caps[m]
           quiet == caps[j]
<1>1. /\ Len(caps) \in Nat \ {0} /\ RollingSeconds \in Nat /\ RollingSeconds >= 2
      /\ QuietSeconds \in Nat /\ now \in Nat
      /\ packets_received \in Nat /\ problems \in Nat /\ last_packet \in Nat
      /\ feed.trouble \in Nat
  BY EmptySeq, StatsAssumption DEF Typed, Feed
<1>2. count = Kept(Len(caps)) /\ count \in 1 .. Len(caps) /\ count \in Nat
  <2> DEFINE l == Len(caps)
  <2>1. count = Kept(l) /\ l \in Nat \ {0}
    BY <1>1 DEF Holds
  <2> HIDE DEF l
  <2>2. count \in 1 .. l /\ count \in Nat
    BY <1>1, <2>1 DEF Kept
  <2> QED  BY <2>1, <2>2 DEF l
<1>3. m \in 1 .. Len(caps) /\ j \in m .. Len(caps) /\ j \in 1 .. Len(caps)
  <2> DEFINE l == Len(caps)
             back == IF QuietSeconds < count THEN QuietSeconds ELSE count - 1
  <2>1. l \in Nat /\ count \in 1 .. l /\ back \in 0 .. count - 1
    BY <1>1, <1>2
  <2>2. m = l - (count - 1) /\ j = l - back
    OBVIOUS
  <2> HIDE DEF l, back, m, j
  <2>3. m \in 1 .. l /\ j \in m .. l /\ j \in 1 .. l
    BY <2>1, <2>2
  <2> QED  BY <2>3 DEF l
<1>4. first + m - 1 = start
  <2>1. first = now - Len(caps) + 1
    BY <1>1
  <2>2. CASE Len(caps) < RollingSeconds
    <3>1. count = Len(caps) /\ first > now - (RollingSeconds - 1)
      BY <1>1, <1>2, <2>1, <2>2 DEF Kept
    <3> QED  BY <1>1, <3>1
  <2>3. CASE ~(Len(caps) < RollingSeconds)
    <3>1. count = RollingSeconds /\ ~(first > now - (RollingSeconds - 1))
      BY <1>1, <1>2, <2>1, <2>3 DEF Kept
    <3> QED  BY <1>1, <2>1, <3>1
  <2> QED  BY <2>2, <2>3
<1>5. oldest_rolling_sample(rg, index, count) = window
  <2>1. rolling_sample_ago(rg, index, count, count) = caps[Len(caps) - (count - 1)]
    BY <1>2, ReadRight
  <2>2. rolling_sample_ago(rg, index, count, count) = oldest_rolling_sample(rg, index, count)
    BY <1>2 DEF rolling_sample_ago
  <2> QED  BY <2>1, <2>2
<1>6. rolling_sample_ago(rg, index, count, QuietSeconds) = quiet
  BY <1>1, ReadRight
<1>7. HealthFrom(rg, index, count) =
        IF IsSilent THEN "offline"
        ELSE health_from_recent(Since(window).packets, Since(window).problems,
                                Since(quiet).problems)
  <2> HIDE DEF window, quiet
  <2> QED  BY <1>2, <1>5, <1>6 DEF HealthFrom
<1>8. /\ window.packets \in Nat /\ window.problems \in Nat /\ quiet.problems \in Nat
      /\ window.packets <= packets_received
      /\ window.packets = packets_received => last_packet <= start
      /\ window.problems <= problems
      /\ window.problems = problems => feed.trouble <= start
      /\ feed.trouble < start => window.problems = problems
      /\ feed.trouble < start => quiet.problems = problems
  <2> HIDE DEF m, j, start
  <2>1. window \in Sample /\ quiet \in Sample
    BY <1>3, ElementOfSeq
  <2>2. start <= first + j - 1
    BY <1>1, <1>3, <1>4
  <2>3. feed.trouble < start => feed.trouble < first + j - 1
    BY <1>1, <1>3, <1>4, <2>2
  <2> QED  BY <1>3, <1>4, <2>1, <2>3 DEF Sample
<1> HIDE DEF start, m, j, window, quiet
<1>9. /\ Since(window).packets = packets_received - window.packets
      /\ Since(window).problems = problems - window.problems
      /\ Since(quiet).problems = problems - quiet.problems
  BY DEF Since
<1>10. HealthFrom(rg, index, count) = "healthy" => feed.trouble <= start
  <2> SUFFICES ASSUME HealthFrom(rg, index, count) = "healthy"
               PROVE  feed.trouble <= start
    OBVIOUS
  <2>1. Since(window).problems = 0
    BY <1>7 DEF health_from_recent
  <2> QED  BY <1>1, <1>8, <1>9, <2>1
<1>11. ~IsSilent /\ last_packet > start /\ feed.trouble < start =>
         HealthFrom(rg, index, count) = "healthy"
  <2> SUFFICES ASSUME ~IsSilent, last_packet > start, feed.trouble < start
               PROVE  HealthFrom(rg, index, count) = "healthy"
    OBVIOUS
  <2>1. start \in Nat
    BY <1>1, <1>3, <1>4
  <2>2. Since(window).packets # 0
    BY <1>1, <1>8, <1>9, <2>1
  <2>3. Since(window).problems = 0 /\ Since(quiet).problems = 0
    BY <1>1, <1>8, <1>9
  <2> QED  BY <1>7, <2>2, <2>3 DEF health_from_recent
<1> QED  BY <1>10, <1>11 DEF start

\* A judgement sees no trouble it ought to see, or all the health there is.
LEMMA PollJudges ==
  ASSUME StatsInv, Next, Judged
  PROVE  /\ health' = "healthy" => feed.trouble <= WindowStart
         /\ ~IsSilent /\ last_packet > WindowStart /\ feed.trouble < WindowStart =>
              health' = "healthy"
<1>1. Poll
  <2>1. last_health' # last_health
    BY DEF Judged
  <2> QED  BY <2>1 DEF Next, Renumbered, Damaged, Packet, ObservePacket, Malformed, Turn,
                       Clock, Ended, all_vars, stats_vars
<1>2. /\ Tick /\ UNCHANGED <<now, packets_received, cc_errors, problems, last_packet, last_cc>>
      /\ last_health' = now
      /\ health' = HealthFrom(ring', rolling_index', rolling_count')
  BY <1>1 DEF Poll, update_stream_health
<1>3. /\ Typed /\ Timed /\ now \in Nat \ {0} /\ problems \in Nat /\ feed.trouble \in Nat
      /\ last_packet \in Nat
  BY DEF StatsInv, Typed, Feed
<1>4. health' \in Health
  BY <1>2 DEF HealthFrom, health_from_recent, Health
<1>5. StatsInv' /\ last_sample' = now
  BY <1>2, <1>3, <1>4, TickStep
<1> DEFINE caps == feed'.captures
           first == feed'.first
<1>6. /\ caps \in Seq(Sample) /\ first \in Nat
      /\ Holds(ring', rolling_index', rolling_count', caps)
  BY <1>5 DEF StatsInv, Typed, Feed, Sampled
<1>7. feed'.trouble = feed.trouble
  BY <1>2 DEF Tick, StatsInv, Typed, Feed
<1>8. CASE caps = << >>
  <2>1. last_sample' = 1 /\ first = 0 /\ rolling_count' = 0
    <3>1. Len(caps) = 0
      BY <1>8, EmptySeq
    <3> QED  BY <1>5, <1>6, <1>8, <3>1, StatsAssumption DEF StatsInv, Timed, Holds, Kept
  <2>2. now = 1
    BY <1>5, <2>1
  <2>3. WindowStart = 0
    BY <2>1, <2>2, StatsAssumption DEF WindowStart
  <2>4. health' = "healthy" => problems = 0
    <3>1. Since(Blank).problems = problems - 0
      BY DEF Since, Blank
    <3> QED  BY <1>2, <1>3, <2>1, <3>1 DEF HealthFrom, health_from_recent
  <2> QED  BY <1>3, <2>3, <2>4 DEF Timed
<1>9. CASE caps # << >>
  <2>1. first + Len(caps) - 1 = now
    BY <1>5, <1>9 DEF StatsInv, Timed, TakenAt
  <2>2. \A m \in 1 .. Len(caps) :
          /\ caps[m].packets <= packets_received
          /\ caps[m].packets = packets_received => last_packet <= first + m - 1
          /\ caps[m].problems <= problems
          /\ caps[m].problems = problems => feed.trouble <= first + m - 1
          /\ feed.trouble < first + m - 1 => caps[m].problems = problems
    BY <1>2, <1>5, <1>7 DEF StatsInv, Telling, TakenAt
  <2>3. WindowStart = IF first > now - (RollingSeconds - 1) THEN first
                      ELSE now - (RollingSeconds - 1)
    BY DEF WindowStart
  <2> HIDE DEF caps, first
  <2> DEFINE rg == ring'
             index == rolling_index'
             count == rolling_count'
  <2>4. Holds(rg, index, count, caps) /\ health' = HealthFrom(rg, index, count)
    BY <1>2, <1>6
  <2> HIDE DEF rg, index, count
  <2> QED  BY <1>3, <1>6, <1>9, <2>1, <2>2, <2>3, <2>4, Judgement
<1> QED  BY <1>8, <1>9
-----------------------------------------------------------------------------
LEMMA StatsInit == Init => StatsInv
<1> SUFFICES ASSUME Init PROVE StatsInv
  OBVIOUS
<1>1. << >> \in Seq(Sample) /\ Len(<< >>) = 0
  BY EmptySeq
<1>2. Typed
  <2>1. Blank \in Sample /\ 0 \in CC /\ 0 \in 0 .. RollingSeconds - 1
        /\ 0 \in 0 .. RollingSeconds
    BY StatsAssumption DEF Blank, Sample, CC
  <2> QED  BY <1>1, <2>1 DEF Init, Typed, Feed, Health
<1>3. Sampled
  <2>1. feed.captures = << >> /\ rolling_index = 0 /\ rolling_count = 0
    BY DEF Init
  <2> QED  BY <1>1, <2>1, StatsAssumption DEF Sampled, Holds, Kept
<1>4. Timed /\ Telling
  BY <1>1 DEF Init, Timed, Telling
<1>5. Accounted
  <2>1. Misled = {}
    BY DEF Init, Misled
  <2>2. IsFiniteSet(Misled) /\ Cardinality(Misled) = 0
    BY <2>1, FS_EmptySet
  <2>3. cc_errors = 0 /\ feed.gaps = 0 /\ feed.damaged = 0
    BY DEF Init
  <2> QED  BY <2>2, <2>3 DEF Init, Accounted
<1> QED  BY <1>2, <1>3, <1>4, <1>5 DEF StatsInv

LEMMA StatsStep == StatsInv /\ [Next]_all_vars => StatsInv'
<1> SUFFICES ASSUME StatsInv, [Next]_all_vars PROVE StatsInv'
  OBVIOUS
<1>1. ASSUME NEW pid \in Pid, Renumbered(pid) \/ Damaged(pid)  PROVE StatsInv'
  BY <1>1, PacketStep
<1>2. ASSUME NEW pid \in Pid, NEW payload \in BOOLEAN, Packet(pid, payload)  PROVE StatsInv'
  BY <1>2, PacketStep
<1>3. CASE Malformed
  BY <1>3, MalformedStep
<1>4. CASE Turn \/ Poll
  <2>1. /\ Tick
        /\ UNCHANGED <<now, packets_received, cc_errors, problems, last_packet, last_cc>>
    BY <1>4 DEF Turn, Poll
  <2>2. last_health' \in Nat /\ health' \in Health
    BY <1>4 DEF Turn, Poll, update_stream_health, HealthFrom, health_from_recent, Health,
                StatsInv, Typed
  <2> QED  BY <2>1, <2>2, TickStep
<1>5. CASE Clock
  <2>1. now' = now + 1 /\ ~TickDue /\ UNCHANGED <<stats_vars, feed>>
    BY <1>5 DEF Clock
  <2>2. now \in Nat \ {0} /\ last_sample \in {now - 1, now} /\ last_sample \in Nat
        /\ last_packet \in Nat /\ feed.trouble \in Nat
    BY DEF StatsInv, Typed, Timed, Feed
  <2>3. last_sample = now
    BY <2>1, <2>2 DEF TickDue
  <2> QED  BY <2>1, <2>2, <2>3
           DEF stats_vars, StatsInv, Typed, Sampled, Timed, Telling, TakenAt, Accounted, Misled
<1>6. CASE Ended \/ UNCHANGED all_vars
  BY <1>6 DEF Ended, all_vars, stats_vars, StatsInv, Typed, Sampled, Timed, Telling,
              TakenAt, Accounted, Misled
<1> QED  BY <1>1, <1>2, <1>3, <1>4, <1>5, <1>6 DEF Next

(***************************************************************************)
(* No packet is charged with more than the feed owes: every continuity     *)
(* error of report_stats_observe_packet stands for a loss the stream was   *)
(* there to see, or for a damaged packet, on whatever PIDs and however     *)
(* long the stream was silent in between.                                  *)
(***************************************************************************)
THEOREM ErrorsStandForLosses == Spec => []ErrorsAreLosses
<1>1. StatsInv => ErrorsAreLosses
  <2> SUFFICES ASSUME StatsInv PROVE ErrorsAreLosses
    OBVIOUS
  <2>1. /\ cc_errors \in Nat /\ feed.gaps \in Nat /\ feed.damaged \in Nat
        /\ Cardinality(Misled) \in Nat
        /\ cc_errors + Cardinality(Misled) <= feed.gaps + feed.damaged
    BY FS_CardinalityType DEF StatsInv, Typed, Feed, Accounted
  <2> QED  BY <2>1 DEF ErrorsAreLosses
<1> QED
  BY StatsInit, StatsStep, <1>1, PTL DEF Spec

(***************************************************************************)
(* rolling_sample_ago returns the sample that was asked for, or the oldest *)
(* that is kept, for every length of the ring and however often it has     *)
(* wrapped.                                                                *)
(***************************************************************************)
THEOREM SamplesAreRight == Spec => []SampleIsTheOneAsked
<1>1. StatsInv => SampleIsTheOneAsked
  <2> SUFFICES ASSUME StatsInv, feed.captures # << >>, NEW n \in 0 .. RollingSeconds + 1
               PROVE  rolling_sample_ago(ring, rolling_index, rolling_count, n) = SampleAgo(n)
    BY DEF SampleIsTheOneAsked
  <2>1. /\ feed.captures \in Seq(Sample) /\ n \in Nat
        /\ Holds(ring, rolling_index, rolling_count, feed.captures)
    BY StatsAssumption DEF StatsInv, Typed, Feed, Sampled
  <2>2. rolling_count = Kept(Len(feed.captures))
    BY <2>1 DEF Holds
  <2>3. rolling_sample_ago(ring, rolling_index, rolling_count, n) =
          feed.captures[Len(feed.captures) - (IF n < rolling_count THEN n ELSE rolling_count - 1)]
    BY <2>1, ReadRight
  <2> QED  BY <2>2, <2>3 DEF SampleAgo, Kept
<1> QED
  BY StatsInit, StatsStep, <1>1, PTL DEF Spec

(***************************************************************************)
(* update_stream_health calls no stream healthy that had a problem within  *)
(* the window it looks at.                                                 *)
(***************************************************************************)
THEOREM NoTroubleOverlooked == Spec => TroubleIsSeen
<1>1. StatsInv /\ [Next]_all_vars =>
        [Judged /\ health' = "healthy" => feed.trouble <= WindowStart]_all_vars
  BY PollJudges
<1> QED
  BY StatsInit, StatsStep, <1>1, PTL DEF Spec, TroubleIsSeen

(***************************************************************************)
(* update_stream_health calls every stream healthy that delivers packets   *)
(* and has had no problem within the window: no trouble is remembered      *)
(* longer, for every length of the window.                                 *)
(***************************************************************************)
THEOREM TroubleIsForgotten == Spec => HealthReturns
<1>1. StatsInv /\ [Next]_all_vars =>
        [/\ Judged /\ ~IsSilent
         /\ last_packet > WindowStart
         /\ feed.trouble < WindowStart
         => health' = "healthy"]_all_vars
  BY PollJudges
<1> QED
  BY StatsInit, StatsStep, <1>1, PTL DEF Spec, HealthReturns
=============================================================================
