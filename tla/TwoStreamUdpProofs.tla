------------------------- MODULE TwoStreamUdpProofs -------------------------
(***************************************************************************)
(* The UDP output behind the engine, for every number of packets in a      *)
(* datagram: what leaves is what the engine output, in whole datagrams,    *)
(* and output_record counts them rightly.                                  *)
(***************************************************************************)
EXTENDS TwoStreamUdp, TwoStreamProofs

-----------------------------------------------------------------------------
(***************************************************************************)
(* What is on the wire, in a buffer u, of the packets all[1], all[2], ...; *)
(* and, while the output goes on, that the rest of the first n of them is  *)
(* gathered in u.                                                          *)
(***************************************************************************)
OnWireAs(u, all) ==
  \A d \in 1 .. Len(u.wire) :
    /\ Len(u.wire[d]) = PacketsPerDatagram
    /\ \A i \in 1 .. PacketsPerDatagram :
         u.wire[d][i] = all[(d - 1) * PacketsPerDatagram + i]

LeftOf(u) == Len(u.wire) * PacketsPerDatagram

Left(u, all, n) ==
  /\ u.datagrams = Len(u.wire)
  /\ LeftOf(u) \in n - PacketsPerDatagram + 1 .. n
  /\ OnWireAs(u, all)

Gathered(u, all, n) ==
  /\ u.packets = n /\ u.datagrams = Len(u.wire)
  /\ Len(u.pending) < PacketsPerDatagram
  /\ LeftOf(u) + Len(u.pending) = n
  /\ OnWireAs(u, all)
  /\ \A i \in 1 .. Len(u.pending) : u.pending[i] = all[LeftOf(u) + i]

Output_state == Udp!OutputState(Packet)

LEMMA OutputStateType ==
  ASSUME NEW u \in Output_state
  PROVE  /\ u.pending \in Seq(Packet) /\ Len(u.pending) \in Nat
         /\ u.wire \in Seq(Seq(Packet)) /\ Len(u.wire) \in Nat
         /\ u.packets \in Nat /\ u.datagrams \in Nat
         /\ LeftOf(u) \in Nat
<1>1. /\ u.pending \in Seq(Packet) /\ u.wire \in Seq(Seq(Packet))
      /\ u.packets \in Nat /\ u.datagrams \in Nat
  BY DEF Output_state, Udp!OutputState
<1>2. Len(u.pending) \in Nat /\ Len(u.wire) \in Nat
  BY <1>1, LenProperties
<1> QED  BY <1>1, <1>2, UdpAssumption DEF LeftOf

\* w whole datagrams and b packets are a whole number of datagrams when b is 0
\* or completes one.
LEMMA WholeDatagrams ==
  ASSUME NEW c \in Nat, c >= 2, NEW w \in Nat, NEW b \in 0 .. c
  PROVE  /\ b < c => ((w * c) + b) % c = b /\ ((w * c) + b) \div c = w
         /\ ((w * c) + b) % c = 0 <=> b = 0 \/ b = c
<1> DEFINE n == (w * c) + b
           q == n \div c
           r == n % c
<1>1. n \in Nat /\ q \in Int /\ r \in 0 .. c - 1 /\ n = (c * q) + r
  <2>1. w * c \in Nat
    OBVIOUS
  <2>2. n \in Nat
    BY <2>1
  <2> HIDE DEF n
  <2> QED  BY <2>2
<1>2. c * (q - w) = b - r
  <2>1. c * (q - w) = (c * q) - (w * c)
    BY <1>1
  <2> QED  BY <1>1, <2>1
<1> DEFINE e == q - w
<1>3. e \in Int /\ c * e = b - r
  BY <1>1, <1>2
<1> HIDE DEF q, r, e
<1>4. e >= 2 => c * e >= 2 * c
  BY <1>3
<1>5. e <= -1 => c * e <= -c
  BY <1>3
<1>6. e = 0 \/ e = 1
  BY <1>1, <1>3, <1>4, <1>5
<1>7. CASE e = 0
  BY <1>1, <1>3, <1>7 DEF q, r, e
<1>8. CASE e = 1
  BY <1>1, <1>3, <1>8 DEF q, r, e
<1> QED  BY <1>6, <1>7, <1>8

LEMMA OneMore ==
  ASSUME NEW c \in Nat, c >= 2, NEW w \in Nat, NEW l \in Nat, l < c
  PROVE  /\ ((w * c) + (l + 1)) % c = 0 <=> l + 1 = c
         /\ (w + 1) * c = (w * c) + c
<1> DEFINE b == l + 1
<1>1. b \in 0 .. c /\ b # 0
  OBVIOUS
<1> HIDE DEF b
<1>2. ((w * c) + b) % c = 0 <=> b = 0 \/ b = c
  BY <1>1, WholeDatagrams
<1>3. ((w * c) + b) % c = 0 <=> b = c
  BY <1>1, <1>2
<1>4. (w + 1) * c = (w * c) + c
  OBVIOUS
<1> QED  BY <1>3, <1>4 DEF b

(***************************************************************************)
(* output_record takes the next packet in.                                 *)
(***************************************************************************)
LEMMA RecordGathers ==
  ASSUME NEW u \in Output_state, NEW all, NEW n \in Nat, Gathered(u, all, n),
         NEW p \in Packet, all[n + 1] = p
  PROVE  /\ Udp!output_record(u, p) \in Output_state
         /\ Gathered(Udp!output_record(u, p), all, n + 1)
<1> DEFINE c == PacketsPerDatagram
           g == Append(u.pending, p)
           w == Append(u.wire, g)
           t == Udp!output_udp_send_ts_packet(u, p)
           v == Udp!output_record(u, p)
<1>0. /\ c \in Nat /\ c >= 2
      /\ u.pending \in Seq(Packet) /\ Len(u.pending) \in Nat
      /\ u.wire \in Seq(Seq(Packet)) /\ Len(u.wire) \in Nat /\ LeftOf(u) \in Nat
  BY OutputStateType, UdpAssumption
<1>1. u = [pending |-> u.pending, wire |-> u.wire, packets |-> n, datagrams |-> Len(u.wire)]
  BY DEF Output_state, Udp!OutputState, Gathered
<1>2. /\ g \in Seq(Packet) /\ Len(g) = Len(u.pending) + 1
      /\ \A i \in 1 .. Len(u.pending) : g[i] = u.pending[i]
      /\ g[Len(u.pending) + 1] = p
  BY <1>0, AppendProperties
<1> HIDE DEF g
<1>3. /\ w \in Seq(Seq(Packet)) /\ Len(w) = Len(u.wire) + 1
      /\ \A d \in 1 .. Len(u.wire) : w[d] = u.wire[d]
      /\ w[Len(u.wire) + 1] = g
  BY <1>0, <1>2, AppendProperties
<1> HIDE DEF w
<1>4. \A i \in 1 .. Len(g) : g[i] = all[LeftOf(u) + i]
  <2> SUFFICES ASSUME NEW i \in 1 .. Len(g) PROVE g[i] = all[LeftOf(u) + i]
    OBVIOUS
  <2>1. CASE i \in 1 .. Len(u.pending)
    BY <1>2, <2>1 DEF Gathered
  <2>2. CASE i = Len(u.pending) + 1
    <3> DEFINE l == Len(u.pending)
               x == LeftOf(u)
    <3>0. x + l = n /\ l \in Nat /\ x \in Nat /\ i = l + 1
      BY <1>0, <2>2 DEF Gathered
    <3>1. x + i = n + 1
      <4> HIDE DEF l, x
      <4> QED  BY <3>0
    <3> QED  BY <1>2, <2>2, <3>1
  <2> QED  BY <1>0, <1>2, <2>1, <2>2
<1>5. /\ (n + 1) % c = 0 <=> Udp!Completes(u)
      /\ Udp!Completes(u) => (Len(u.wire) + 1) * c = n + 1 /\ Len(g) = c
      /\ ~Udp!Completes(u) => Len(g) < c /\ LeftOf(u) + Len(g) = n + 1
  <2> DEFINE k == Len(u.wire)
             l == Len(u.pending)
             x == LeftOf(u)
  <2>1. l < c /\ x + l = n /\ x = k * c
    BY DEF Gathered, LeftOf
  <2>2. Udp!Completes(u) <=> l + 1 = c
    BY DEF Udp!Completes
  <2>3. k \in Nat /\ l \in Nat /\ Len(g) = l + 1
    BY <1>0, <1>2
  <2> HIDE DEF k, l, x, c
  <2>4. /\ ((k * c) + (l + 1)) % c = 0 <=> l + 1 = c
        /\ (k + 1) * c = (k * c) + c
    BY <1>0, <2>1, <2>3, OneMore
  <2>5. /\ (x + (l + 1)) % c = 0 <=> l + 1 = c
        /\ (k + 1) * c = x + c
        /\ x + (l + 1) = n + 1 /\ x \in Nat
    BY <1>0, <2>1, <2>3, <2>4 DEF x
  <2>6. /\ (n + 1) % c = 0 <=> Udp!Completes(u)
        /\ Udp!Completes(u) => (k + 1) * c = n + 1 /\ Len(g) = c
        /\ ~Udp!Completes(u) => Len(g) < c /\ x + Len(g) = n + 1
    BY <1>0, <2>1, <2>2, <2>3, <2>5
  <2> QED  BY <2>6 DEF k, l, x, c
<1>6. CASE Udp!Completes(u)
  <2>1. t = [pending |-> << >>, wire |-> w, packets |-> n, datagrams |-> Len(u.wire)]
    <3>1. t = [u EXCEPT !.wire = w, !.pending = << >>]
      BY <1>6 DEF Udp!output_udp_send_ts_packet, Udp!Emptied, w, g
    <3> HIDE DEF t
    <3> DEFINE x == [u EXCEPT !.wire = w]
    <3>2. t = [x EXCEPT !.pending = << >>]
      BY <3>1
    <3>3. x = [pending |-> u.pending, wire |-> w, packets |-> n, datagrams |-> Len(u.wire)]
      BY <1>1
    <3> HIDE DEF x
    <3> QED  BY <3>2, <3>3
  <2>2. v = [pending |-> << >>, wire |-> w, packets |-> n + 1, datagrams |-> Len(u.wire) + 1]
    <3>1. v = [t EXCEPT !.packets = t.packets + 1, !.datagrams = t.datagrams + 1]
      <4>1. Udp!CountedDatagrams(u.packets + 1) = 1
        BY <1>5, <1>6 DEF Gathered, Udp!CountedDatagrams
      <4> QED  BY <4>1 DEF Udp!output_record
    <3> HIDE DEF t, v
    <3> QED  BY <2>1, <3>1
  <2> HIDE DEF v, t
  <2>3. Len(v.pending) = 0 /\ v.wire = w /\ v.packets = n + 1 /\ v.datagrams = Len(w)
    BY <1>3, <2>2, EmptySeq
  <2>4. v \in Output_state
    BY <1>0, <1>3, <2>2, EmptySeq DEF Output_state, Udp!OutputState
  <2>5. LeftOf(v) = LeftOf(u) + c /\ Len(g) = c /\ LeftOf(u) + c = n + 1
    <3>1. (Len(u.wire) + 1) * c = (Len(u.wire) * c) + c
      BY <1>0
    <3>2. LeftOf(v) = LeftOf(u) + c
      BY <1>3, <2>3, <3>1 DEF LeftOf
    <3> QED  BY <1>5, <1>6, <3>1, <3>2 DEF LeftOf
  <2>6. OnWireAs(v, all)
    <3> SUFFICES ASSUME NEW d \in 1 .. Len(u.wire) + 1
                 PROVE  /\ Len(w[d]) = c
                        /\ \A i \in 1 .. c : w[d][i] = all[(d - 1) * c + i]
      BY <1>3, <2>3 DEF OnWireAs
    <3>1. CASE d \in 1 .. Len(u.wire)
      <4>1. OnWireAs(u, all)
        BY DEF Gathered
      <4>2. w[d] = u.wire[d]
        BY <1>3, <3>1
      <4> QED  BY <3>1, <4>1, <4>2 DEF OnWireAs
    <3>2. CASE d = Len(u.wire) + 1
      <4>0. d - 1 = Len(u.wire)
        <5> DEFINE k == Len(u.wire)
        <5>1. k \in Nat /\ d = k + 1
          BY <1>0, <3>2
        <5> HIDE DEF k
        <5>2. d - 1 = k
          BY <5>1
        <5> QED  BY <5>2 DEF k
      <4>1. (d - 1) * c = LeftOf(u)
        BY <4>0 DEF LeftOf
      <4> QED  BY <1>3, <1>4, <2>5, <3>2, <4>1
    <3>3. d \in 1 .. Len(u.wire) \/ d = Len(u.wire) + 1
      BY <1>0
    <3> QED  BY <3>1, <3>2, <3>3, Zenon
  <2> QED  BY <1>0, <2>3, <2>4, <2>5, <2>6 DEF Gathered, v
<1>7. CASE ~Udp!Completes(u)
  <2>1. t = [pending |-> g, wire |-> u.wire, packets |-> n, datagrams |-> Len(u.wire)]
    <3>1. t = [u EXCEPT !.pending = g]
      BY <1>7 DEF Udp!output_udp_send_ts_packet, g
    <3> HIDE DEF t
    <3>2. [u EXCEPT !.pending = g]
            = [pending |-> g, wire |-> u.wire, packets |-> n, datagrams |-> Len(u.wire)]
      BY <1>1
    <3> QED  BY <3>1, <3>2
  <2>2. v = [pending |-> g, wire |-> u.wire, packets |-> n + 1, datagrams |-> Len(u.wire)]
    <3>1. v = [t EXCEPT !.packets = t.packets + 1, !.datagrams = t.datagrams + 0]
      <4>1. Udp!CountedDatagrams(u.packets + 1) = 0
        BY <1>5, <1>7 DEF Gathered, Udp!CountedDatagrams
      <4> QED  BY <4>1 DEF Udp!output_record
    <3> HIDE DEF t, v
    <3>2. t.packets = n /\ t.datagrams + 0 = Len(u.wire)
      BY <1>0, <2>1
    <3> QED  BY <2>1, <3>1, <3>2
  <2> HIDE DEF v, t
  <2>3. /\ v.pending = g /\ v.wire = u.wire /\ v.packets = n + 1 /\ v.datagrams = Len(u.wire)
        /\ LeftOf(v) = LeftOf(u)
    BY <2>2 DEF LeftOf
  <2>4. v \in Output_state
    BY <1>0, <1>2, <2>2 DEF Output_state, Udp!OutputState
  <2>5. Len(g) < c /\ LeftOf(v) + Len(g) = n + 1
    BY <1>5, <1>7, <2>3
  <2>6. OnWireAs(v, all)
    BY <2>3 DEF Gathered, OnWireAs
  <2> QED  BY <1>4, <2>3, <2>4, <2>5, <2>6 DEF Gathered, v
<1> QED  BY <1>6, <1>7

(***************************************************************************)
(* output_records is output_record of one packet after the other.          *)
(***************************************************************************)
IsFold(u, ps, g, m) ==
  g = [n \in 0 .. m |-> IF n = 0 THEN u ELSE Udp!output_record(g[n - 1], ps[n])]

LEMMA FoldExists ==
  ASSUME NEW u, NEW ps, NEW m \in Nat
  PROVE  \E g : IsFold(u, ps, g, m)
<1> DEFINE S == {k \in Nat : ~\E g : IsFold(u, ps, g, k)}
<1> SUFFICES ASSUME m \in S PROVE FALSE
  OBVIOUS
<1>1. PICK k \in S : \A l \in S : k <= l
  BY MinOfNaturals
<1>2. CASE k = 0
  <2> DEFINE h == [n \in 0 .. 0 |-> u]
  <2>1. h = [n \in 0 .. 0 |-> IF n = 0 THEN u ELSE Udp!output_record(h[n - 1], ps[n])]
    OBVIOUS
  <2> QED  BY <1>1, <1>2, <2>1 DEF IsFold
<1>3. CASE k # 0
  <2>1. k - 1 \in Nat /\ k - 1 \notin S
    BY <1>1, <1>3
  <2>2. PICK g : IsFold(u, ps, g, k - 1)
    BY <2>1
  <2> DEFINE h == [n \in 0 .. k |-> IF n = k THEN Udp!output_record(g[k - 1], ps[k]) ELSE g[n]]
             f == [n \in 0 .. k |-> IF n = 0 THEN u ELSE Udp!output_record(h[n - 1], ps[n])]
  <2>3. ASSUME NEW n \in 0 .. k PROVE h[n] = f[n]
    <3>1. CASE n = k
      <4>1. h[n - 1] = g[k - 1]
        BY <1>3, <2>1, <3>1
      <4> QED  BY <1>3, <3>1, <4>1
    <3>2. CASE n = 0
      <4>1. g[0] = u
        BY <2>1, <2>2 DEF IsFold
      <4> QED  BY <1>3, <3>2, <4>1
    <3>3. CASE n \in 1 .. k - 1
      <4>1. g[n] = Udp!output_record(g[n - 1], ps[n])
        BY <2>1, <2>2, <3>3 DEF IsFold
      <4>2. h[n] = g[n] /\ h[n - 1] = g[n - 1]
        BY <2>1, <3>3
      <4> QED  BY <2>1, <3>3, <4>1, <4>2
    <3> QED  BY <2>1, <3>1, <3>2, <3>3
  <2>4. h = f
    BY <2>3
  <2>5. IsFold(u, ps, h, k)
    BY <2>4 DEF IsFold
  <2> QED  BY <1>1, <2>5
<1> QED  BY <1>2, <1>3

LEMMA FoldSteps ==
  ASSUME NEW u, NEW ps, Len(ps) \in Nat
  PROVE  \E g : /\ g[0] = u
                /\ \A k \in 1 .. Len(ps) : g[k] = Udp!output_record(g[k - 1], ps[k])
                /\ Udp!output_records(u, ps) = g[Len(ps)]
<1> DEFINE after[n \in 0 .. Len(ps)] ==
             IF n = 0 THEN u ELSE Udp!output_record(after[n - 1], ps[n])
<1>1. Udp!output_records(u, ps) = after[Len(ps)]
  BY DEF Udp!output_records
<1>2. after = CHOOSE g : g = [n \in 0 .. Len(ps) |->
                                IF n = 0 THEN u ELSE Udp!output_record(g[n - 1], ps[n])]
  OBVIOUS
<1> HIDE DEF after
<1>3. PICK g : IsFold(u, ps, g, Len(ps))
  BY FoldExists
<1>4. IsFold(u, ps, after, Len(ps))
  BY <1>2, <1>3, Zenon DEF IsFold
<1>5. /\ after[0] = u
      /\ \A k \in 1 .. Len(ps) : after[k] = Udp!output_record(after[k - 1], ps[k])
  BY <1>4 DEF IsFold
<1> QED  BY <1>1, <1>5

LEMMA RecordsGather ==
  ASSUME NEW u \in Output_state, NEW all, NEW n \in Nat, Gathered(u, all, n),
         NEW ps, Len(ps) \in Nat, \A i \in 1 .. Len(ps) : ps[i] \in Packet /\ all[n + i] = ps[i]
  PROVE  /\ Udp!output_records(u, ps) \in Output_state
         /\ Gathered(Udp!output_records(u, ps), all, n + Len(ps))
<1>1. PICK g : /\ g[0] = u
               /\ \A k \in 1 .. Len(ps) : g[k] = Udp!output_record(g[k - 1], ps[k])
               /\ Udp!output_records(u, ps) = g[Len(ps)]
  BY FoldSteps
<1> DEFINE Good(k) == g[k] \in Output_state /\ Gathered(g[k], all, n + k)
           S == {k \in Nat : k <= Len(ps) /\ ~Good(k)}
<1>2. Good(0)
  BY <1>1
<1>3. ASSUME NEW k \in 1 .. Len(ps), Good(k - 1) PROVE Good(k)
  <2> DEFINE m == n + (k - 1)
             x == g[k - 1]
  <2>1. m \in Nat /\ m + 1 = n + k
    OBVIOUS
  <2>2. ps[k] \in Packet /\ all[m + 1] = ps[k]
    BY <2>1
  <2>3. x \in Output_state /\ Gathered(x, all, m)
    BY <1>3
  <2>4. g[k] = Udp!output_record(x, ps[k])
    BY <1>1
  <2> HIDE DEF m, x
  <2>5. /\ Udp!output_record(x, ps[k]) \in Output_state
        /\ Gathered(Udp!output_record(x, ps[k]), all, m + 1)
    BY <2>1, <2>2, <2>3, RecordGathers
  <2> QED  BY <2>1, <2>4, <2>5
<1>4. ASSUME ~Good(Len(ps)) PROVE FALSE
  <2> HIDE DEF Good
  <2>0. Len(ps) \in S /\ S \in SUBSET Nat
    BY <1>4
  <2> HIDE DEF S
  <2>1. PICK k \in S : \A l \in S : k <= l
    BY <2>0, MinOfNaturals
  <2> USE DEF S
  <2>2. k # 0
    BY <1>2, <2>1
  <2>3. k \in 1 .. Len(ps) /\ k - 1 \in Nat /\ k - 1 <= Len(ps) /\ k - 1 \notin S
    BY <2>1, <2>2
  <2>4. Good(k - 1)
    BY <2>3
  <2> QED  BY <1>3, <2>1, <2>3, <2>4
<1> QED  BY <1>1, <1>4

(***************************************************************************)
(* A step of the engine only adds to its output.                           *)
(***************************************************************************)
LEMMA Lengthened ==
  ASSUME NEW o \in Seq(Output), NEW rs, NEW via, NEW slot, NEW n \in Nat
  PROVE  LET x == o \o Entries(rs, via, slot, n)
         IN  /\ Len(x) = Len(o) + n
             /\ \A k \in 1 .. Len(o) : x[k] = o[k]
<1> DEFINE e == Entries(rs, via, slot, n)
           S == Output \cup {e[j] : j \in 1 .. n}
<1>1. e \in [1 .. n -> S]
  BY DEF Entries
<1>2. DOMAIN e = 1 .. n
  BY DEF Entries
<1>3. o \in Seq(S)
  <2>1. Len(o) \in Nat /\ o \in [1 .. Len(o) -> Output]
    BY LenProperties
  <2>2. o \in [1 .. Len(o) -> S]
    BY <2>1
  <2> HIDE DEF S
  <2> QED  BY <2>1, <2>2
<1> HIDE DEF e, S
<1>4. e \in Seq(S) /\ Len(e) = n
  <2>1. e \in Seq(S)
    BY <1>1
  <2>2. Len(e) \in Nat /\ 1 .. Len(e) = 1 .. n
    BY <1>2, <2>1, LenProperties
  <2> QED  BY <2>1, <2>2
<1>5. /\ Len(o \o e) = Len(o) + Len(e)
      /\ \A i \in 1 .. Len(o) + Len(e) :
            (o \o e)[i] = IF i <= Len(o) THEN o[i] ELSE e[i - Len(o)]
  BY <1>3, <1>4, ConcatProperties
<1>6. Len(o) \in Nat
  BY LenProperties
<1> QED  BY <1>4, <1>5, <1>6 DEF e

Grows(o, x) == Len(x) >= Len(o) /\ \A k \in 1 .. Len(o) : x[k] = o[k]

LEMMA OutGrows ==
  ASSUME EngineInv, [NetNext]_all_vars
  PROVE  Grows(out, out')
<1>0. out \in Seq(Output) /\ Len(out) \in Nat
  BY LenProperties DEF EngineInv, TypeOK
<1>1. ASSUME NEW rs, NEW via, NEW slot, NEW n \in Nat, out' = out \o Entries(rs, via, slot, n)
      PROVE  Grows(out, out')
  <2> DEFINE x == out \o Entries(rs, via, slot, n)
  <2>1. Len(x) = Len(out) + n /\ \A k \in 1 .. Len(out) : x[k] = out[k]
    BY <1>0, Lengthened
  <2> HIDE DEF x
  <2>2. out' = x
    BY <1>1 DEF x
  <2> QED  BY <1>0, <2>1, <2>2 DEF Grows
<1>2. CASE PrimaryStep
  <2> DEFINE p == Head(queue[0])
             d == Decide(View, p)
             rs == Sent(d, p)
             via == SentVia(d, p)
  <2>1. queue[0] # << >> /\ OutputRecords(rs, via, p.idx)
    BY <1>2 DEF PrimaryStep
  <2>2. rs \in Seq(Record) /\ Len(rs) \in Nat
    BY <2>1, FrontDecision
  <2> HIDE DEF p, d, rs, via
  <2>3. out' = out \o Entries(rs, via, p.idx, Len(rs))
    BY <2>1, <2>2, OutputType
  <2> QED  BY <1>1, <2>2, <2>3
<1>3. CASE SecondaryStep
  <2> DEFINE rs == <<Head(queue[1])>>
             via == <<"outage">>
             slot == Head(queue[1]).idx
  <2>1. queue[1] # << >> /\ OutputRecords(rs, via, slot)
    BY <1>3 DEF SecondaryStep
  <2>2. DOMAIN rs = 1 .. 1
    OBVIOUS
  <2> HIDE DEF rs, via, slot
  <2>3. out' = out \o Entries(rs, via, slot, 1)
    BY <2>1, <2>2 DEF OutputRecords, Entries
  <2> QED  BY <1>1, <2>3
<1>4. CASE SinkFails
  <2>1. \E rs, via, slot : \E n \in 0 .. Len(rs) - 1 : out' = out \o Entries(rs, via, slot, n)
    BY <1>4 DEF SinkFails, Entries
  <2> QED  BY <1>1, <2>1
<1>5. CASE out' = out
  BY <1>0, <1>5 DEF Grows
<1>6. \/ PrimaryStep \/ SecondaryStep \/ SinkFails
      \/ out' = out
  BY ZenonT(60)
     DEF NetNext, Deliver, Damage, Arrive, PushPacket, Lose, Drain, MainLoopDrain, Step,
         EngineStep, DrainNotReady, DrainNothing, DrainPrimary, PrimaryNotDue, PrimaryEmpty,
         SecondaryDone, Clock, Tick, Stop, Flush, Failure, Ended, all_vars, net_vars, vars,
         engine_vars
<1> QED  BY <1>2, <1>3, <1>4, <1>5, <1>6

LEMMA BytesType ==
  ASSUME NEW o \in Seq(Output)
  PROVE  /\ Bytes(o) \in Seq(Packet) /\ Len(Bytes(o)) = Len(o) /\ Len(o) \in Nat
         /\ \A k \in 1 .. Len(o) : Bytes(o)[k] = o[k].rec.pkt /\ Bytes(o)[k] \in Packet
<1>1. Len(o) \in Nat /\ DOMAIN o = 1 .. Len(o) /\ \A k \in 1 .. Len(o) : o[k] \in Output
  BY LenProperties, ElementOfSeq
<1>2. \A k \in 1 .. Len(o) : o[k].rec.pkt \in Packet
  BY <1>1 DEF Output, Record
<1> DEFINE b == Bytes(o)
<1>3. b = [k \in 1 .. Len(o) |-> o[k].rec.pkt]
  BY <1>1 DEF Bytes
<1> HIDE DEF b
<1>4. b \in [1 .. Len(o) -> Packet] /\ DOMAIN b = 1 .. Len(o)
  BY <1>2, <1>3
<1>5. b \in Seq(Packet)
  BY <1>1, <1>4
<1>6. Len(b) \in Nat /\ 1 .. Len(b) = 1 .. Len(o)
  BY <1>4, <1>5, LenProperties
<1>7. Len(b) = Len(o)
  BY <1>1, <1>6
<1> QED  BY <1>1, <1>2, <1>3, <1>5, <1>7 DEF b

\* What the packets given to the sink are, of the whole output x.
LEMMA Behind ==
  ASSUME NEW x \in Seq(Output), NEW n \in 0 .. Len(x)
  PROVE  LET g == Bytes(SubSeq(x, n + 1, Len(x)))
         IN  /\ g \in Seq(Packet) /\ Len(g) = Len(x) - n /\ Len(g) \in Nat
             /\ \A i \in 1 .. Len(g) : g[i] \in Packet /\ Bytes(x)[n + i] = g[i]
<1> DEFINE m == n + 1
           l == Len(x)
           r == SubSeq(x, m, l)
           g == Bytes(r)
<1>1. l \in Nat /\ n \in Nat /\ m \in 1 .. l + 1 /\ l \in m - 1 .. l /\ (l - m) + 1 = l - n
  BY LenProperties
<1>2. /\ r \in Seq(Output) /\ Len(r) = (l - m) + 1
      /\ \A i \in 1 .. (l - m) + 1 : r[i] = x[(m + i) - 1]
  <2> HIDE DEF m
  <2> QED  BY <1>1, SubSeqProperties
<1> HIDE DEF r
<1>3. /\ g \in Seq(Packet) /\ Len(g) = Len(r)
      /\ \A k \in 1 .. Len(r) : g[k] = r[k].rec.pkt /\ g[k] \in Packet
  BY <1>2, BytesType
<1>4. \A k \in 1 .. Len(x) : Bytes(x)[k] = x[k].rec.pkt
  BY BytesType
<1> HIDE DEF g
<1>5. Len(g) = l - n /\ Len(g) \in Nat
  BY <1>1, <1>2, <1>3
<1>6. ASSUME NEW i \in 1 .. Len(g)
      PROVE  g[i] \in Packet /\ Bytes(x)[n + i] = g[i]
  <2>1. i \in 1 .. (l - m) + 1 /\ (m + i) - 1 = n + i /\ n + i \in 1 .. Len(x)
    BY <1>1, <1>5
  <2>2. r[i] = x[n + i]
    BY <1>2, <2>1
  <2> QED  BY <1>2, <1>3, <1>4, <2>1, <2>2
<1>7. g \in Seq(Packet)
  BY <1>3
<1> QED  BY <1>5, <1>6, <1>7 DEF g, r

\* Packet i of datagram d is one of the first n, when d whole datagrams are.
LEMMA InDatagram ==
  ASSUME NEW c \in Nat, NEW w \in Nat, NEW d \in 1 .. w, NEW i \in 1 .. c
  PROVE  (d - 1) * c + i \in 1 .. w * c
<1>1. w * c \in Nat /\ (d - 1) * c \in Nat
  OBVIOUS
<1>2. w * c = (d - 1) * c + (w - (d - 1)) * c
  OBVIOUS
<1>3. (w - (d - 1)) * c >= c
  <2> DEFINE e == w - d
  <2>1. e \in Nat /\ w - (d - 1) = e + 1
    OBVIOUS
  <2>2. (e + 1) * c = (e * c) + c /\ e * c \in Nat
    BY <2>1
  <2> HIDE DEF e
  <2> QED  BY <2>1, <2>2
<1> QED  BY <1>1, <1>2, <1>3

LEMMA SameWire ==
  ASSUME NEW u \in Output_state, NEW all, NEW x, NEW n \in Nat, LeftOf(u) <= n,
         \A k \in 1 .. n : x[k] = all[k], OnWireAs(u, all)
  PROVE  OnWireAs(u, x)
<1>1. /\ Len(u.wire) \in Nat /\ PacketsPerDatagram \in Nat /\ LeftOf(u) \in Nat
      /\ LeftOf(u) = Len(u.wire) * PacketsPerDatagram
  BY OutputStateType, UdpAssumption DEF LeftOf
<1>2. ASSUME NEW d \in 1 .. Len(u.wire), NEW i \in 1 .. PacketsPerDatagram
      PROVE  x[(d - 1) * PacketsPerDatagram + i] = all[(d - 1) * PacketsPerDatagram + i]
  <2> DEFINE k == (d - 1) * PacketsPerDatagram + i
  <2>1. k \in 1 .. LeftOf(u)
    BY <1>1, InDatagram
  <2> HIDE DEF k
  <2>2. k \in 1 .. n
    BY <1>1, <2>1
  <2>3. x[k] = all[k]
    BY <2>2
  <2> QED  BY <2>3 DEF k
<1> QED  BY <1>2 DEF OnWireAs

LEMMA SameGathered ==
  ASSUME NEW u \in Output_state, NEW all, NEW x, NEW n \in Nat,
         \A k \in 1 .. n : x[k] = all[k], Gathered(u, all, n)
  PROVE  Gathered(u, x, n)
<1>1. Len(u.pending) \in Nat /\ LeftOf(u) \in Nat /\ LeftOf(u) + Len(u.pending) = n
  BY OutputStateType DEF Gathered
<1>2. OnWireAs(u, x)
  <2>1. OnWireAs(u, all)
    BY DEF Gathered
  <2>2. LeftOf(u) <= n
    BY <1>1
  <2> QED  BY <2>1, <2>2, SameWire
<1>3. ASSUME NEW i \in 1 .. Len(u.pending) PROVE u.pending[i] = x[LeftOf(u) + i]
  <2>1. LeftOf(u) + i \in 1 .. n
    BY <1>1
  <2> QED  BY <2>1 DEF Gathered
<1> QED  BY <1>2, <1>3 DEF Gathered

LEMMA GatheredIsLeft ==
  ASSUME NEW u \in Output_state, NEW all, NEW n \in Nat, Gathered(u, all, n)
  PROVE  Left(u, all, n)
<1>1. /\ Len(u.pending) \in Nat /\ LeftOf(u) \in Nat /\ LeftOf(u) + Len(u.pending) = n
      /\ Len(u.pending) < PacketsPerDatagram /\ PacketsPerDatagram \in Nat
  BY OutputStateType, UdpAssumption DEF Gathered
<1>2. LeftOf(u) \in n - PacketsPerDatagram + 1 .. n
  BY <1>1
<1> QED  BY <1>2 DEF Gathered, Left

-----------------------------------------------------------------------------
(***************************************************************************)
(* The inductive invariant: until the program has ended, what left and     *)
(* what is gathered are what the engine has output; afterwards what left   *)
(* is still all but the rest of a datagram.                                *)
(***************************************************************************)
UdpInv ==
  /\ udp.wire \in Seq(Seq(Packet))
  /\ Left(udp, Bytes(out), Len(out))
  /\ pc \notin {"failed", "stopped"} =>
       udp \in Output_state /\ Gathered(udp, Bytes(out), Len(out))

LEMMA UdpInvInit == UdpInit => UdpInv
<1> SUFFICES ASSUME UdpInit PROVE UdpInv
  OBVIOUS
<1>1. out = << >> /\ udp = Udp!output_udp_open
  BY DEF UdpInit, NetInit, Init
<1>2. Len(<< >>) = 0 /\ << >> \in Seq(Packet) /\ << >> \in Seq(Seq(Packet))
  BY EmptySeq
<1>3. /\ udp.pending = << >> /\ udp.wire = << >> /\ udp.packets = 0 /\ udp.datagrams = 0
      /\ udp \in Output_state
  BY <1>1, <1>2 DEF Udp!output_udp_open, Output_state, Udp!OutputState
<1>4. LeftOf(udp) = 0 /\ Len(udp.pending) = 0 /\ Len(udp.wire) = 0 /\ Len(out) = 0
  BY <1>1, <1>2, <1>3, UdpAssumption DEF LeftOf
<1>5. OnWireAs(udp, Bytes(out))
  BY <1>4 DEF OnWireAs
<1>6. Gathered(udp, Bytes(out), Len(out))
  BY <1>3, <1>4, <1>5, UdpAssumption DEF Gathered
<1>7. Left(udp, Bytes(out), Len(out))
  BY <1>3, <1>4, <1>6, GatheredIsLeft
<1> QED  BY <1>2, <1>3, <1>6, <1>7 DEF UdpInv

\* Once the program has ended it does not start again.
LEMMA EndedStays ==
  ASSUME NetNext, pc \in {"failed", "stopped"}
  PROVE  pc' = pc
BY ZenonT(60)
   DEF NetNext, Deliver, Damage, Arrive, PushPacket, Lose, Drain, MainLoopDrain, Step,
       EngineStep, DrainNotReady, DrainNothing, DrainPrimary, PrimaryStep, PrimaryNotDue,
       PrimaryEmpty, SecondaryStep, SecondaryDone, Clock, Tick, Stop, Flush, Failure,
       SinkFails, Ended, net_vars, vars, engine_vars

\* The sink takes the packets that a step gives it.
LEMMA TakenGathers ==
  ASSUME EngineInv, EngineInv', UdpInv, NetNext, pc \notin {"failed", "stopped"}
  PROVE  LET taken == Udp!output_records(udp, Given)
         IN  /\ taken \in Output_state
             /\ Gathered(taken, Bytes(out'), Len(out'))
<1>1. out \in Seq(Output) /\ out' \in Seq(Output) /\ Len(out) \in Nat /\ Len(out') \in Nat
  BY LenProperties DEF EngineInv, TypeOK
<1>2. Len(out') >= Len(out) /\ \A k \in 1 .. Len(out) : out'[k] = out[k]
  BY OutGrows DEF Grows
<1> DEFINE n == Len(out)
           b == Bytes(out)
           x == Bytes(out')
           g == Given
<1>3. udp \in Output_state /\ Gathered(udp, b, n)
  BY DEF UdpInv
<1>4. \A k \in 1 .. n : x[k] = b[k]
  <2>1. \A k \in 1 .. Len(out) : b[k] = out[k].rec.pkt
    BY <1>1, BytesType
  <2>2. \A k \in 1 .. Len(out') : x[k] = out'[k].rec.pkt
    BY <1>1, BytesType
  <2>3. \A k \in 1 .. n : k \in 1 .. Len(out')
    BY <1>1, <1>2
  <2> HIDE DEF b, x
  <2> QED  BY <1>2, <2>1, <2>2, <2>3
<1>5. /\ Len(g) = Len(out') - n /\ Len(g) \in Nat
      /\ \A i \in 1 .. Len(g) : g[i] \in Packet /\ x[n + i] = g[i]
  <2>1. n \in 0 .. Len(out')
    BY <1>1, <1>2
  <2> HIDE DEF n
  <2>2. LET h == Bytes(SubSeq(out', n + 1, Len(out')))
        IN  /\ Len(h) = Len(out') - n /\ Len(h) \in Nat
            /\ \A i \in 1 .. Len(h) : h[i] \in Packet /\ Bytes(out')[n + i] = h[i]
    BY <1>1, <2>1, Behind
  <2> QED  BY <2>2 DEF Given, n
<1>6. n \in Nat /\ n + Len(g) = Len(out')
  BY <1>1, <1>5
<1> HIDE DEF n, b, x, g
<1>7. Gathered(udp, x, n)
  BY <1>3, <1>4, <1>6, SameGathered
<1>8. Udp!output_records(udp, g) \in Output_state
      /\ Gathered(Udp!output_records(udp, g), x, n + Len(g))
  BY <1>3, <1>5, <1>6, <1>7, RecordsGather
<1> QED  BY <1>6, <1>8 DEF g, x

LEMMA UdpInvStep ==
  ASSUME EngineInv, EngineInv', UdpInv, [UdpNext]_udp_vars
  PROVE  UdpInv'
<1> DEFINE taken == Udp!output_records(udp, Given)
           x == Bytes(out')
           n == Len(out')
<1>1. CASE NetNext /\ (Output_taken \/ Output_refused \/ Output_flushed)
  <2>1. pc \notin {"failed", "stopped"}
    BY <1>1, EndedStays DEF Output_taken, Output_refused, Output_flushed
  <2>2. taken \in Output_state /\ Gathered(taken, x, n)
    BY <1>1, <2>1, TakenGathers
  <2>3. n \in Nat
    BY LenProperties DEF EngineInv, TypeOK
  <2> HIDE DEF taken, x, n
  <2>4. Left(taken, x, n) /\ taken.wire \in Seq(Seq(Packet))
    BY <2>2, <2>3, GatheredIsLeft, OutputStateType
  <2>5. CASE Output_taken
    <3>1. udp' = taken
      BY <2>5 DEF Output_taken, taken
    <3> QED  BY <2>2, <2>4, <3>1 DEF UdpInv, x, n
  <2>6. CASE Output_refused \/ Output_flushed
    <3>1. pc' \in {"failed", "stopped"}
      BY <2>6 DEF Output_refused, Output_flushed
    <3>2. udp'.wire = taken.wire /\ udp'.datagrams = taken.datagrams
      <4>1. \E q : udp' = [taken EXCEPT !.pending = q]
        BY <2>6 DEF Output_refused, Output_flushed, Udp!SendtoFails, Udp!output_udp_flush, taken
      <4>2. PICK q : udp' = [taken EXCEPT !.pending = q]
        BY <4>1
      <4> QED  BY <2>2, <4>2 DEF Output_state, Udp!OutputState
    <3>3. Left(udp', x, n)
      BY <2>4, <3>2 DEF Left, LeftOf, OnWireAs
    <3>4. udp'.wire \in Seq(Seq(Packet))
      BY <2>4, <3>2
    <3> QED  BY <3>1, <3>3, <3>4 DEF UdpInv, x, n
  <2> QED  BY <1>1, <2>5, <2>6
<1>2. CASE UNCHANGED udp_vars
  <2>1. out' = out /\ pc' = pc /\ udp' = udp
    BY <1>2 DEF udp_vars, all_vars, vars, engine_vars
  <2>2. x = Bytes(out) /\ n = Len(out)
    BY <2>1
  <2> HIDE DEF x, n
  <2>3. /\ udp'.wire \in Seq(Seq(Packet)) /\ Left(udp', x, n)
        /\ pc' \notin {"failed", "stopped"} => udp' \in Output_state /\ Gathered(udp', x, n)
    BY <2>1, <2>2 DEF UdpInv
  <2> QED  BY <2>3 DEF UdpInv, x, n
<1> QED  BY <1>1, <1>2 DEF UdpNext

(***************************************************************************)
(* Whatever the UDP output does, the engine in front of it behaves as      *)
(* TwoStream says: UdpSpec implements NetSpec, and every theorem about the *)
(* engine between its feeds holds with output_udp.c behind it.             *)
(***************************************************************************)
THEOREM OutputImplementsFeeds == UdpSpec => NetSpec
<1>1. UdpInit => NetInit
  BY DEF UdpInit
<1>2. [UdpNext]_udp_vars => [NetNext]_all_vars
  BY DEF UdpNext, udp_vars
<1> QED  BY <1>1, <1>2, PTL DEF UdpSpec, NetSpec

LEMMA UdpInvariant == UdpSpec => [](EngineInv /\ UdpInv)
<1>1. UdpSpec => []EngineInv
  BY OutputImplementsFeeds, FeedsImplementEngine, EngineInvariant, PTL
<1>2. UdpInit => UdpInv
  BY UdpInvInit
<1>3. EngineInv /\ EngineInv' /\ UdpInv /\ [UdpNext]_udp_vars => UdpInv'
  BY UdpInvStep
<1> QED  BY <1>1, <1>2, <1>3, PTL DEF UdpSpec

-----------------------------------------------------------------------------
\* The place of packet k in the datagrams, the first w of which have left.
LEMMA Place ==
  ASSUME NEW c \in Nat, c >= 2, NEW w \in Nat, NEW k \in 1 .. w * c
  PROVE  LET q == (k - 1) \div c
             r == (k - 1) % c
         IN  q + 1 \in 1 .. w /\ r + 1 \in 1 .. c /\ q * c + (r + 1) = k
<1> DEFINE q == (k - 1) \div c
           r == (k - 1) % c
<1>1. w * c \in Nat
  OBVIOUS
<1>2. k \in Nat /\ k - 1 \in Nat /\ k - 1 < w * c
  BY <1>1
<1>3. q \in Int /\ r \in 0 .. c - 1 /\ k - 1 = (c * q) + r
  <2> DEFINE j == k - 1
  <2>1. j \in Nat
    BY <1>2
  <2> HIDE DEF j
  <2>2. j \div c \in Int /\ j % c \in 0 .. c - 1 /\ j = (c * (j \div c)) + (j % c)
    BY <2>1
  <2> QED  BY <2>2 DEF j
<1> HIDE DEF q, r
<1>4. q * c = c * q /\ q * c \in Int
  BY <1>3
<1>5. q >= 0
  <2>1. q <= -1 => q * c <= -c
    BY <1>3
  <2> QED  BY <1>2, <1>3, <1>4, <2>1
<1>6. q < w
  <2> DEFINE e == q - w
  <2>1. e \in Int /\ e * c = (q * c) - (w * c)
    BY <1>3
  <2> HIDE DEF e
  <2>2. e >= 0 => e * c >= 0
    BY <2>1
  <2>3. ~(e >= 0)
    BY <1>1, <1>2, <1>3, <1>4, <2>1, <2>2
  <2> QED  BY <1>3, <2>1, <2>3 DEF e
<1>7. q + 1 \in 1 .. w /\ r + 1 \in 1 .. c /\ q * c + (r + 1) = k
  BY <1>2, <1>3, <1>4, <1>5, <1>6
<1> QED  BY <1>7 DEF q, r

LEMMA UdpInvImplies ==
  ASSUME EngineInv, UdpInv
  PROVE  WireIsAccepted /\ DatagramsCounted
<1> DEFINE c == PacketsPerDatagram
           w == Len(udp.wire)
<1>0. /\ out \in Seq(Output) /\ Len(out) \in Nat /\ c \in Nat /\ c >= 2
      /\ w \in Nat /\ DOMAIN udp.wire = 1 .. w
  BY LenProperties, UdpAssumption DEF EngineInv, TypeOK, UdpInv
<1>1. LeftNumber = LeftOf(udp) /\ LeftNumber = w * c
  BY DEF LeftNumber, LeftOf
<1>2. /\ udp.datagrams = Len(udp.wire) /\ OnWireAs(udp, Bytes(out))
      /\ LeftNumber \in Len(out) - PacketsPerDatagram + 1 .. Len(out)
  BY <1>1 DEF UdpInv, Left
<1>3. \A d \in DOMAIN udp.wire : Len(udp.wire[d]) = PacketsPerDatagram
  BY <1>0, <1>2 DEF OnWireAs
<1>4. LeftNumber \in Nat /\ LeftNumber \in 0 .. Len(out)
  <2>1. w * c \in Nat
    BY <1>0
  <2>2. LeftNumber \in Nat
    BY <1>1, <2>1
  <2> QED  BY <1>0, <1>2, <2>2
<1>5. ASSUME NEW k \in 1 .. LeftNumber PROVE OnWire(k) = out[k].rec.pkt
  <2> DEFINE q == (k - 1) \div c
             r == (k - 1) % c
             d == q + 1
             i == r + 1
  <2>1. d \in 1 .. w /\ i \in 1 .. c /\ q * c + i = k
    <3> HIDE DEF c, w
    <3>1. k \in 1 .. w * c
      BY <1>1
    <3> QED  BY <1>0, <3>1, Place
  <2>2. OnWire(k) = udp.wire[d][i]
    BY DEF OnWire
  <2>3. q \in Int /\ d - 1 = q
    <3>1. q \in Int
      BY <1>0, <1>4
    <3> HIDE DEF q
    <3> QED  BY <3>1
  <2> HIDE DEF q, r, i
  <2>4. q * c = (d - 1) * c
    BY <2>3
  <2> HIDE DEF d
  <2>5. udp.wire[d][i] = Bytes(out)[(d - 1) * c + i]
    BY <1>2, <2>1 DEF OnWireAs
  <2>6. (d - 1) * c + i = k
    BY <2>1, <2>4
  <2>7. Bytes(out)[k] = out[k].rec.pkt
    BY <1>0, <1>4, BytesType
  <2> QED  BY <2>2, <2>5, <2>6, <2>7
<1>6. ASSUME pc \notin {"failed", "stopped"}
      PROVE  udp.pending = Bytes(SubSeq(out, LeftNumber + 1, Len(out)))
  <2> DEFINE n == LeftNumber
             g == Bytes(SubSeq(out, n + 1, Len(out)))
             p == udp.pending
             l == Len(p)
  <2>1. /\ udp \in Output_state /\ n + l = Len(out)
        /\ \A i \in 1 .. l : p[i] = Bytes(out)[n + i]
    BY <1>1, <1>6 DEF UdpInv, Gathered
  <2>2. p \in Seq(Packet) /\ l \in Nat
    BY <2>1, OutputStateType
  <2>3. n \in 0 .. Len(out)
    BY <1>4
  <2> HIDE DEF n, p
  <2>4. /\ g \in Seq(Packet) /\ Len(g) = Len(out) - n /\ Len(g) \in Nat
        /\ \A i \in 1 .. Len(g) : g[i] \in Packet /\ Bytes(out)[n + i] = g[i]
    BY <1>0, <2>3, Behind
  <2> HIDE DEF g
  <2>5. Len(g) = l
    BY <1>0, <2>1, <2>2, <2>3, <2>4
  <2>6. \A i \in 1 .. l : p[i] = g[i]
    BY <2>1, <2>4, <2>5
  <2>7. p = g
    BY <2>2, <2>4, <2>5, <2>6, SeqEqual
  <2> QED  BY <2>7 DEF p, g, n
<1> QED  BY <1>2, <1>3, <1>5, <1>6 DEF WireIsAccepted, DatagramsCounted

(***************************************************************************)
(* WireIsAccepted, for datagrams of any size: output_udp_send_ts_packet    *)
(* sends the packets that output_record accepts in order, in whole         *)
(* datagrams, however recovery_engine_drain hands them over, and loses     *)
(* less than a datagram when it ends.                                      *)
(***************************************************************************)
THEOREM WireFollowsOutput == UdpSpec => []WireIsAccepted
<1>1. EngineInv /\ UdpInv => WireIsAccepted
  BY UdpInvImplies
<1> QED  BY <1>1, UdpInvariant, PTL

(***************************************************************************)
(* DatagramsCounted, for datagrams of any size: output_record counts the   *)
(* datagrams that output_udp_flush has sent, without being told of any.    *)
(***************************************************************************)
THEOREM OutputCountsDatagrams == UdpSpec => []DatagramsCounted
<1>1. EngineInv /\ UdpInv => DatagramsCounted
  BY UdpInvImplies
<1> QED  BY <1>1, UdpInvariant, PTL
=============================================================================
