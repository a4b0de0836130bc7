---------------------------- MODULE TsDemuxProofs ----------------------------
(***************************************************************************)
(* Proofs about TsDemux, for any streams, PES packets, losses and flushes: *)
(* buffers are fronts of PES packets in their order (Intact), what came    *)
(* whole is there (Delivered), all of it is on one time line (Stamped)     *)
(* behind one segment (OneSegment); the parser of PES headers is sound.    *)
(*                                                                         *)
(* Each operator of the demuxer is described once, by what it leaves of    *)
(* the streams and by what it makes of the others; the invariants then     *)
(* follow a stream from packet to packet.                                  *)
(***************************************************************************)
EXTENDS TsDemux, FiniteSetTheorems, SequenceTheorems, WellFoundedInduction, TLAPS

Time == Nat \cup {None}

Data == Seq(Nat \X Nat)

Buffers == [data : Data, raw : Time, pts : Time]

StreamRecs ==
  [pad : BOOLEAN, active : BOOLEAN, state : {"empty", "header", "buffer", "discont"},
   cc : 0 .. MaxCC \cup {None}, data : Data, expected : Nat, raw : Time, pts : Time, first : Time,
   pending_ts : BOOLEAN, pending : Seq(Buffers), need_newsegment : BOOLEAN]

Groups == [first : Time, pcr_offset : Nat, at : {"current", "within", "before"}]

Demuxes ==
  [mode : {"pushing", "streaming", "seeking"}, stream : [Streams -> StreamRecs],
   group : Groups, segment_event : Time,
   segment : [Streams -> Time], out : [Streams -> Seq(Buffers)]]

LEMMA Numbers ==
  /\ MaxCC \in Nat /\ MaxFaults \in Nat /\ MaxBreaks \in Nat /\ MaxFaults < MaxCC
  /\ Pcrs \subseteq Nat
BY DemuxAssumption

\* A PES packet of a plan.
PesOK(e) ==
  e.length \in Nat \ {0} /\ e.first \in Nat \ {0} /\ PtsOf(e.header) \in Time

LEMMA PlansAre ==
  ASSUME NEW s \in Streams, NEW p \in Plans[s]
  PROVE  /\ Len(p) \in Nat \ {0}
         /\ \A i \in 1 .. Len(p) : PesOK(p[i])
<1>1. p \in Seq(Range(p)) /\ p # <<>>
  BY DemuxAssumption
<1>2. Len(p) \in Nat \ {0} /\ DOMAIN p = 1 .. Len(p)
  BY <1>1, EmptySeq, LenProperties
<1>3. ASSUME NEW i \in DOMAIN p PROVE PesOK(p[i])
  <2>1. {p[i].length, p[i].first} \subseteq Nat \ {0} /\ PtsOf(p[i].header) \in Nat \cup {None}
    BY DemuxAssumption
  <2> QED BY <2>1 DEF PesOK, Time
<1> QED BY <1>2, <1>3
-----------------------------------------------------------------------------
(* Least and greatest numbers *)

LEMMA LeastExists ==
  ASSUME NEW S \in SUBSET Nat, S # {}
  PROVE  Min(S) \in S /\ \A n \in S : Min(S) <= n
<1>1. PICK m \in S : \A n \in S : ~ (<<n, m>> \in OpToRel(<, Nat))
  BY NatLessThanWellFounded, WFMin
<1>2. ASSUME NEW n \in S PROVE m <= n
  <2>1. <<n, m>> \in Nat \X Nat /\ <<n, m>>[1] = n /\ <<n, m>>[2] = m
    OBVIOUS
  <2>2. n < m => <<n, m>> \in OpToRel(<, Nat)
    BY <2>1 DEF OpToRel
  <2>3. <<n, m>> \notin OpToRel(<, Nat)
    BY <1>1, Zenon
  <2>4. ~ (n < m)
    BY <2>2, <2>3, Zenon
  <2>5. n \in Nat /\ m \in Nat
    OBVIOUS
  <2> QED BY <2>4, <2>5
<1> QED BY <1>2 DEF Min

\* The greatest of the first n values of f, or zero.
LEMMA BoundExists ==
  ASSUME NEW n \in Nat, NEW f \in [1 .. n -> Int]
  PROVE  \E b \in Nat : /\ b = 0 \/ \E i \in 1 .. n : f[i] = b
                        /\ \A i \in 1 .. n : f[i] <= b
<1> DEFINE Bound(k, b) == /\ b = 0 \/ \E i \in 1 .. k : f[i] = b
                          /\ \A i \in 1 .. k : f[i] <= b
           Bad == {k \in 0 .. n : ~ \E b \in Nat : Bound(k, b)}
<1>1. SUFFICES ASSUME Bad # {} PROVE FALSE
  <2>1. n \in 0 .. n
    OBVIOUS
  <2> QED BY <1>1, <2>1
<1> DEFINE k == Min(Bad)
<1>2. k \in Bad /\ \A j \in Bad : k <= j
  <2>1. Bad \in SUBSET Nat
    OBVIOUS
  <2> HIDE DEF Bad
  <2> QED BY <1>1, <2>1, LeastExists
<1> HIDE DEF k
<1>3. k \in 0 .. n /\ ~ \E b \in Nat : Bound(k, b)
  BY <1>2
<1>4. k # 0
  <2>1. k = 0 => Bound(k, 0)
    OBVIOUS
  <2> QED BY <1>3, <2>1
<1>5. PICK b \in Nat : Bound(k - 1, b)
  <2>1. k - 1 \in 0 .. n /\ ~ (k <= k - 1)
    BY <1>3, <1>4
  <2>2. k - 1 \notin Bad
    BY <1>2, <2>1
  <2> QED BY <2>1, <2>2
<1>6. k \in 1 .. n /\ f[k] \in Int
  BY <1>3, <1>4
<1>7. \A i \in 1 .. k : i \in 1 .. k - 1 \/ i = k
  BY <1>6
<1>8. CASE f[k] <= b
  <2>1. \A i \in 1 .. k : f[i] <= b
    BY <1>5, <1>7, <1>8
  <2>2. b = 0 \/ \E i \in 1 .. k : f[i] = b
    BY <1>5, <1>6
  <2> QED BY <1>3, <2>1, <2>2
<1>9. CASE ~ (f[k] <= b)
  <2>1. f[k] \in Nat
    BY <1>6, <1>9
  <2>2. \A i \in 1 .. k : f[i] <= f[k]
    <3> TAKE i \in 1 .. k
    <3>1. CASE i = k
      BY <1>6, <3>1
    <3>2. CASE i \in 1 .. k - 1
      <4>1. f[i] <= b /\ f[i] \in Int
        BY <1>5, <1>6, <3>2
      <4> QED BY <1>6, <1>9, <4>1
    <3> QED BY <1>7, <3>1, <3>2
  <2>3. k \in 1 .. k
    BY <1>6
  <2> QED BY <1>3, <2>1, <2>2, <2>3
<1> QED BY <1>8, <1>9
-----------------------------------------------------------------------------
(* The parser of PES headers *)

Width(h, i) == IF Announced(h, Sizes[i]) THEN SizeOf(h, Sizes[i]) ELSE 0

LEMMA SizesAre ==
  /\ Len(Sizes) = 14 /\ DOMAIN Sizes = 1 .. 14
  /\ \A i \in 1 .. 14 : Sizes[i][2] \in Nat
<1>1. Len(Sizes) = 14 /\ DOMAIN Sizes = 1 .. 14
  BY DEF Sizes
<1>2. \A i \in 1 .. 14 : \/ i \in {1, 2, 3, 4, 5, 6, 7}
                        \/ i \in {8, 9, 10, 11, 12, 13, 14}
  OBVIOUS
<1>3. \A i \in {1, 2, 3, 4, 5, 6, 7} : Sizes[i][2] \in Nat
  BY DEF Sizes
<1>4. \A i \in {8, 9, 10, 11, 12, 13, 14} : Sizes[i][2] \in Nat
  BY DEF Sizes
<1> QED BY <1>1, <1>2, <1>3, <1>4

LEMMA WidthsAre ==
  ASSUME NEW h, IsHeader(h), NEW i \in 1 .. 14
  PROVE  Width(h, i) \in Nat
<1>1. Sizes[i][2] \in Nat /\ h.pack \in Nat /\ h.ext2 \in Nat
  BY SizesAre DEF IsHeader
<1> QED BY <1>1 DEF Width, SizeOf

\* Widths add up: the ends of the first n fields exist, whatever the widths are.
LEMMA SumsExist ==
  ASSUME NEW n \in Nat, NEW w \in [1 .. n -> Nat]
  PROVE  \E g \in [0 .. n -> Nat] : g[0] = 9 /\ \A i \in 1 .. n : g[i] = g[i - 1] + w[i]
<1> DEFINE Sums(k, g) == /\ g \in [0 .. k -> Nat] /\ g[0] = 9
                         /\ \A i \in 1 .. k : g[i] = g[i - 1] + w[i]
           Bad == {k \in 0 .. n : ~ \E g : Sums(k, g)}
<1>1. SUFFICES ASSUME Bad # {} PROVE FALSE
  <2>1. n \in 0 .. n
    OBVIOUS
  <2> QED BY <1>1, <2>1
<1> DEFINE k == Min(Bad)
<1>2. k \in Bad /\ \A j \in Bad : k <= j
  <2>1. Bad \in SUBSET Nat
    OBVIOUS
  <2> HIDE DEF Bad
  <2> QED BY <1>1, <2>1, LeastExists
<1> HIDE DEF k
<1>3. k \in 0 .. n /\ ~ \E g : Sums(k, g)
  BY <1>2
<1>4. k # 0
  <2> DEFINE g == [i \in 0 .. 0 |-> 9]
  <2>1. k = 0 => Sums(k, g)
    OBVIOUS
  <2> QED BY <1>3, <2>1
<1>5. PICK g : Sums(k - 1, g)
  <2>1. k - 1 \in 0 .. n /\ ~ (k <= k - 1)
    BY <1>3, <1>4
  <2>2. k - 1 \notin Bad
    BY <1>2, <2>1
  <2> QED BY <2>1, <2>2
<1>6. k \in 1 .. n /\ k - 1 \in 0 .. k - 1 /\ w[k] \in Nat
  BY <1>3, <1>4
<1> DEFINE f == [i \in 0 .. k |-> IF i = k THEN g[k - 1] + w[k] ELSE g[i]]
<1>7. f \in [0 .. k -> Nat]
  <2>1. ASSUME NEW i \in 0 .. k, i # k PROVE i \in 0 .. k - 1
    BY <1>6, <2>1
  <2>2. g[k - 1] + w[k] \in Nat
    BY <1>5, <1>6
  <2> QED BY <1>5, <2>1, <2>2
<1>8. f[0] = 9
  <2>1. 0 \in 0 .. k /\ 0 # k
    BY <1>6
  <2> QED BY <1>5, <2>1
<1>9. ASSUME NEW i \in 1 .. k PROVE f[i] = f[i - 1] + w[i]
  <2>1. i \in 0 .. k /\ i - 1 \in 0 .. k /\ i - 1 # k
    BY <1>6
  <2>2. i # k => i \in 1 .. k - 1
    BY <1>6
  <2> QED BY <1>5, <2>1, <2>2
<1> QED BY <1>3, <1>7, <1>8, <1>9

\* A field ends after those before it.
LEMMA EndsAre ==
  ASSUME NEW h, IsHeader(h)
  PROVE  /\ Ends(h) \in [0 .. 14 -> Nat] /\ Ends(h)[0] = 9
         /\ \A i \in 1 .. 14 : Ends(h)[i] = Ends(h)[i - 1] + Width(h, i)
<1> DEFINE w == [i \in 1 .. 14 |-> Width(h, i)]
           E(e) == [i \in 0 .. 14 |-> IF i = 0 THEN 9 ELSE e[i - 1] + Width(h, i)]
           Eq(e) == e = E(e)
<1>1. w \in [1 .. 14 -> Nat]
  BY WidthsAre
<1>2. \E g \in [0 .. 14 -> Nat] : g[0] = 9 /\ \A i \in 1 .. 14 : g[i] = g[i - 1] + w[i]
  <2> HIDE DEF w
  <2> QED BY <1>1, SumsExist
<1>3. PICK g \in [0 .. 14 -> Nat] : g[0] = 9 /\ \A i \in 1 .. 14 : g[i] = g[i - 1] + w[i]
  BY <1>2
<1>4. Eq(g)
  <2>1. \A i \in 1 .. 14 : g[i] = g[i - 1] + Width(h, i)
    BY <1>3
  <2>2. \A i \in 0 .. 14 : i # 0 => i \in 1 .. 14
    OBVIOUS
  <2> QED BY <1>3, <2>1, <2>2
<1>5. Ends(h) = CHOOSE e : Eq(e)
  BY SizesAre DEF Ends, Width
<1>6. Eq(Ends(h))
  BY <1>4, <1>5
<1> DEFINE e == Ends(h)
<1>7. /\ e = [i \in 0 .. 14 |-> IF i = 0 THEN 9 ELSE e[i - 1] + Width(h, i)]
  BY <1>6
<1> HIDE DEF e
<1>8. e[0] = 9 /\ \A i \in 1 .. 14 : e[i] = e[i - 1] + Width(h, i)
  <2>1. 0 \in 0 .. 14 /\ \A i \in 1 .. 14 : i \in 0 .. 14 /\ i # 0
    OBVIOUS
  <2> QED BY <1>7, <2>1
<1> DEFINE Bad == {i \in 0 .. 14 : e[i] \notin Nat}
<1>9. Bad = {}
  <2>1. SUFFICES ASSUME Bad # {} PROVE FALSE
    OBVIOUS
  <2> DEFINE i == Min(Bad)
  <2>2. i \in Bad /\ \A j \in Bad : i <= j
    <3>1. Bad \in SUBSET Nat
      OBVIOUS
    <3> HIDE DEF Bad
    <3> QED BY <2>1, <3>1, LeastExists
  <2> HIDE DEF i
  <2>3. i \in 0 .. 14 /\ e[i] \notin Nat
    BY <2>2
  <2>4. i \in 1 .. 14
    BY <1>8, <2>3
  <2>5. i - 1 \in 0 .. 14 /\ ~ (i <= i - 1)
    BY <2>4
  <2>6. e[i - 1] \in Nat
    BY <2>2, <2>5
  <2>7. e[i] = e[i - 1] + Width(h, i) /\ Width(h, i) \in Nat
    BY <1>8, <2>4, WidthsAre
  <2> QED BY <2>3, <2>6, <2>7
<1>10. e \in [0 .. 14 -> Nat]
  <2>1. \A i \in 0 .. 14 : e[i] \in Nat
    BY <1>9
  <2>2. DOMAIN e = 0 .. 14 /\ e = [i \in DOMAIN e |-> e[i]]
    BY <1>7
  <2> QED BY <2>1, <2>2
<1> QED BY <1>8, <1>10 DEF e

LEMMA EndsGrow ==
  ASSUME NEW h, IsHeader(h), NEW i \in 0 .. 14
  PROVE  9 <= Ends(h)[i] /\ Ends(h)[i] <= Ends(h)[14]
<1> DEFINE e == Ends(h)
<1>1. e \in [0 .. 14 -> Nat] /\ e[0] = 9
  BY EndsAre
<1>2. ASSUME NEW j \in 1 .. 14 PROVE e[j - 1] <= e[j]
  <2>1. j \in 0 .. 14 /\ j - 1 \in 0 .. 14
    OBVIOUS
  <2>2. e[j] = e[j - 1] + Width(h, j) /\ Width(h, j) \in Nat
    BY EndsAre, WidthsAre
  <2> QED BY <1>1, <2>1, <2>2
<1> HIDE DEF e
<1>3. e[0] <= e[1] /\ e[1] <= e[2] /\ e[2] <= e[3] /\ e[3] <= e[4] /\ e[4] <= e[5]
  BY <1>2
<1>4. e[5] <= e[6] /\ e[6] <= e[7] /\ e[7] <= e[8] /\ e[8] <= e[9] /\ e[9] <= e[10]
  BY <1>2
<1>5. e[10] <= e[11] /\ e[11] <= e[12] /\ e[12] <= e[13] /\ e[13] <= e[14]
  BY <1>2
<1>6. \A j \in 0 .. 14 : j \in {0, 1, 2, 3, 4, 5, 6} \/ j \in {7, 8, 9, 10, 11, 12, 13, 14}
  OBVIOUS
<1>7. \A j \in 0 .. 14 : e[j] \in Int
  BY <1>1
<1>8. CASE i \in {0, 1, 2, 3, 4, 5, 6}
  <2>1. e[6] <= e[14] /\ 9 <= e[0]
    BY <1>1, <1>4, <1>5, <1>7
  <2> QED BY <1>3, <1>4, <1>7, <1>8, <2>1 DEF e
<1>9. CASE i \in {7, 8, 9, 10, 11, 12, 13, 14}
  <2>1. 9 <= e[7]
    BY <1>1, <1>3, <1>4, <1>7
  <2> QED BY <1>4, <1>5, <1>7, <1>9, <2>1 DEF e
<1> QED BY <1>6, <1>8, <1>9

LEMMA BareChecks ==
  ASSUME NEW h, h.bare
  PROVE  DOMAIN Checks(h) = {1} /\ Checks(h)[1] = Check(6, h.prefix)
BY DEF Checks, FixedPart

FieldCheck(h, i) == Check(Ends(h)[i], Announced(h, Sizes[i]) => Sizes[i][1] \notin h.wrong)

LEMMA FullChecks ==
  ASSUME NEW h, ~ h.bare
  PROVE  /\ DOMAIN Checks(h) = 1 .. 17
         /\ Checks(h)[1] = Check(6, h.prefix) /\ Checks(h)[2] = Check(9, h.marker)
         /\ Checks(h)[3] = Check(9 + h.header_data_length, TRUE)
         /\ \A i \in 4 .. 17 : Checks(h)[i] = FieldCheck(h, i - 3)
<1> DEFINE a == Check(6, h.prefix)
           b == Check(9, h.marker)
           c == Check(9 + h.header_data_length, TRUE)
           q == [i \in 1 .. 14 |-> FieldCheck(h, i)]
           S == {a, b, c} \cup {FieldCheck(h, i) : i \in 1 .. 14}
<1>1. Checks(h) = (<<a>> \o <<b, c>>) \o q
  <2>1. FixedPart(h) = <<a>> \o <<b, c>>
    BY DEF FixedPart
  <2>2. OptionalPart(h) = q
    BY SizesAre DEF OptionalPart, FieldCheck
  <2> QED BY <2>1, <2>2 DEF Checks
<1>2. q \in Seq(S) /\ Len(q) = 14 /\ \A i \in 1 .. 14 : q[i] = FieldCheck(h, i)
  <2>1. q \in [1 .. 14 -> S]
    OBVIOUS
  <2> QED BY <2>1
<1>3. {a, b, c} \subseteq S
  OBVIOUS
<1> DEFINE r == <<a>> \o <<b, c>>
<1> HIDE DEF a, b, c, q, S
<1>4. r \in Seq(S) /\ Len(r) = 3 /\ r[1] = a /\ r[2] = b /\ r[3] = c
  <2>1. <<a>> \in Seq(S) /\ <<b, c>> \in Seq(S)
    BY <1>3
  <2>2. Len(<<a>>) = 1 /\ Len(<<b, c>>) = 2 /\ <<a>>[1] = a /\ <<b, c>>[1] = b /\ <<b, c>>[2] = c
    OBVIOUS
  <2> QED BY <2>1, <2>2, ConcatProperties
<1> HIDE DEF r
<1> DEFINE t == r \o q
<1>5. Checks(h) = t
  BY <1>1 DEF r
<1>6. t \in Seq(S) /\ Len(t) = Len(r) + Len(q)
  BY <1>2, <1>4, ConcatProperties, Zenon
<1>7. \A i \in 1 .. Len(r) + Len(q) : t[i] = IF i <= Len(r) THEN r[i] ELSE q[i - Len(r)]
  BY <1>2, <1>4, ConcatProperties, Zenon
<1> HIDE DEF t
<1>8. DOMAIN t = 1 .. 17
  BY <1>2, <1>4, <1>6
<1>9. t[1] = a /\ t[2] = b /\ t[3] = c
  BY <1>2, <1>4, <1>7
<1>10. ASSUME NEW i \in 4 .. 17 PROVE t[i] = FieldCheck(h, i - 3)
  <2>1. i \in 1 .. 17 /\ ~ (i <= 3) /\ i - 3 \in 1 .. 14
    OBVIOUS
  <2> QED BY <1>2, <1>4, <1>7, <2>1
<1> QED BY <1>5, <1>8, <1>9, <1>10 DEF a, b, c

\* No check asks for more bytes than the header takes.
LEMMA ChecksWithin ==
  ASSUME NEW h, IsHeader(h), NEW i \in DOMAIN Checks(h)
  PROVE  Checks(h)[i].end \in Nat /\ BytesOf(h) \in Nat /\ Checks(h)[i].end <= BytesOf(h)
<1>1. CASE h.bare
  <2>1. DOMAIN Checks(h) = {1} /\ Checks(h)[1] = Check(6, h.prefix)
    BY <1>1, BareChecks, Zenon
  <2>2. Check(6, h.prefix).end = 6
    BY DEF Check
  <2>3. BytesOf(h) = 6
    BY <1>1 DEF BytesOf
  <2> QED BY <2>1, <2>2, <2>3
<1>2. CASE ~ h.bare
  <2> DEFINE m == Max({HeaderSize(h), Ends(h)[14]})
  <2>1. Ends(h)[14] \in Nat /\ h.header_data_length \in Nat
    BY EndsAre DEF IsHeader
  <2>2. HeaderSize(h) = 9 + h.header_data_length /\ HeaderSize(h) \in Nat
    BY <1>2, <2>1 DEF HeaderSize
  <2>3. m \in Nat /\ HeaderSize(h) <= m /\ Ends(h)[14] <= m
    <3> DEFINE x == HeaderSize(h)
               y == Ends(h)[14]
    <3>1. x \in Nat /\ y \in Nat
      BY <2>1, <2>2
    <3> HIDE DEF x, y
    <3>2. Max({x, y}) \in {x, y} /\ \A z \in {x, y} : z <= Max({x, y})
      <4>1. \E z \in {x, y} : \A t \in {x, y} : t <= z
        BY <3>1
      <4> QED BY <4>1 DEF Max
    <3> QED BY <3>1, <3>2 DEF x, y
  <2>4. BytesOf(h) = m
    BY <1>2, SizesAre DEF BytesOf
  <2> HIDE DEF m
  <2>5. i \in 1 .. 17
    BY <1>2, FullChecks
  <2>6. i = 1 \/ i = 2 \/ i = 3 \/ i \in 4 .. 17
    BY <2>5
  <2>7. CASE i \in {1, 2, 3}
    <3>1. Checks(h)[1].end = 6 /\ Checks(h)[2].end = 9 /\ Checks(h)[3].end = HeaderSize(h)
      <4>1. /\ Checks(h)[1] = Check(6, h.prefix) /\ Checks(h)[2] = Check(9, h.marker)
            /\ Checks(h)[3] = Check(9 + h.header_data_length, TRUE)
        BY <1>2, FullChecks, Zenon
      <4> QED BY <2>2, <4>1 DEF Check
    <3> QED BY <2>1, <2>2, <2>3, <2>4, <2>7, <3>1
  <2>8. CASE i \in 4 .. 17
    <3>1. Checks(h)[i].end = Ends(h)[i - 3]
      <4>1. Checks(h)[i] = FieldCheck(h, i - 3)
        BY <1>2, <2>8, FullChecks, Zenon
      <4> QED BY <4>1 DEF FieldCheck, Check
    <3>2. i - 3 \in 0 .. 14
      BY <2>8
    <3>3. Ends(h)[i - 3] \in Nat /\ Ends(h)[i - 3] <= Ends(h)[14]
      BY <3>2, EndsAre, EndsGrow
    <3> QED BY <2>1, <2>3, <2>4, <3>1, <3>3
  <2> QED BY <2>6, <2>7, <2>8
<1> QED BY <1>1, <1>2

Failing(h, n) == {i \in DOMAIN Checks(h) : Checks(h)[i].end > n \/ ~ Checks(h)[i].right}

\* What decides: no check fails, or the first that does.
LEMMA VerdictIs ==
  ASSUME NEW h, IsHeader(h), NEW n \in Nat
  PROVE  /\ Failing(h, n) = {} => Parse(h, n) = "OK"
         /\ Failing(h, n) # {} =>
              \E i \in Failing(h, n) :
                /\ \A j \in Failing(h, n) : i <= j
                /\ Parse(h, n) = IF Checks(h)[i].end > n THEN "NEED_MORE" ELSE "BAD"
<1> DEFINE F == Failing(h, n)
           i == CHOOSE k \in F : \A j \in F : k <= j
<1>1. CASE F = {}
  BY <1>1 DEF Parse, Failing
<1>2. CASE F # {}
  <2>1. F \in SUBSET Nat
    <3>1. CASE h.bare
      <4>1. DOMAIN Checks(h) = {1}
        BY <3>1, BareChecks, Zenon
      <4> QED BY <4>1 DEF Failing
    <3>2. CASE ~ h.bare
      <4>1. DOMAIN Checks(h) = 1 .. 17
        BY <3>2, FullChecks, Zenon
      <4> QED BY <4>1 DEF Failing
    <3> QED BY <3>1, <3>2
  <2>2. Min(F) \in F /\ \A j \in F : Min(F) <= j
    <3> HIDE DEF F
    <3> QED BY <1>2, <2>1, LeastExists
  <2>3. i \in F /\ \A j \in F : i <= j
    <3> HIDE DEF F
    <3> QED BY <2>2
  <2>4. Checks(h)[i].end \in Nat
    <3>1. i \in DOMAIN Checks(h)
      BY <2>3 DEF Failing
    <3> HIDE DEF i
    <3> QED BY <3>1, ChecksWithin
  <2>5. Parse(h, n) = IF Checks(h)[i].end > n THEN "NEED_MORE" ELSE "BAD"
    <3>1. Parse(h, n) = CASE F = {} -> "OK"
                          [] F # {} /\ Checks(h)[i].end > n -> "NEED_MORE"
                          [] F # {} /\ Checks(h)[i].end <= n -> "BAD"
      BY DEF Parse, Failing
    <3> HIDE DEF i, F
    <3>2. CASE Checks(h)[i].end > n
      BY <1>2, <2>4, <3>1, <3>2
    <3>3. CASE ~ (Checks(h)[i].end > n)
      BY <1>2, <2>4, <3>1, <3>3
    <3> QED BY <3>2, <3>3
  <2> HIDE DEF i, F
  <2> QED BY <2>3, <2>5 DEF F
<1> QED BY <1>1, <1>2

\* More bytes make no check fail.
LEMMA FailingFewer ==
  ASSUME NEW h, IsHeader(h), NEW n \in Nat, NEW m \in Nat, n <= m
  PROVE  /\ Failing(h, m) \subseteq Failing(h, n)
         /\ \A i \in Failing(h, n) : Checks(h)[i].end <= n => i \in Failing(h, m)
<1>1. \A i \in DOMAIN Checks(h) : Checks(h)[i].end \in Nat
  BY ChecksWithin
<1> QED BY <1>1 DEF Failing

\* A header that is well formed and there fails no check.
LEMMA WellFormedPasses ==
  ASSUME NEW h, IsHeader(h), NEW n \in Nat, WellFormed(h, n)
  PROVE  Failing(h, n) = {}
<1>1. CASE h.bare
  <2>1. DOMAIN Checks(h) = {1} /\ Checks(h)[1] = Check(6, h.prefix)
    BY <1>1, BareChecks, Zenon
  <2>2. h.prefix /\ 6 <= n
    BY DEF WellFormed
  <2>3. Check(6, h.prefix).end <= n /\ Check(6, h.prefix).right
    BY <2>2 DEF Check
  <2>4. ASSUME NEW i \in DOMAIN Checks(h) PROVE ~ (Checks(h)[i].end > n) /\ Checks(h)[i].right
    <3>1. Checks(h)[i].end = 6 /\ Checks(h)[i].right
      BY <2>1, <2>2 DEF Check
    <3> QED BY <2>2, <3>1
  <2> QED BY <2>4 DEF Failing
<1>2. CASE ~ h.bare
  <2>1. /\ h.prefix /\ h.marker /\ h.wrong = {} /\ 6 <= n
        /\ 9 + h.header_data_length <= n /\ Ends(h)[14] <= 9 + h.header_data_length
    BY <1>2, SizesAre DEF WellFormed, HeaderSize
  <2>2. h.header_data_length \in Nat
    BY DEF IsHeader
  <2>3. DOMAIN Checks(h) = 1 .. 17
    BY <1>2, FullChecks, Zenon
  <2>4. /\ Checks(h)[1] = Check(6, h.prefix) /\ Checks(h)[2] = Check(9, h.marker)
        /\ Checks(h)[3] = Check(9 + h.header_data_length, TRUE)
    BY <1>2, FullChecks, Zenon
  <2>5. \A i \in 4 .. 17 : Checks(h)[i] = FieldCheck(h, i - 3)
    BY <1>2, FullChecks, Zenon
  <2>6. ASSUME NEW i \in {1, 2, 3} PROVE ~ (Checks(h)[i].end > n) /\ Checks(h)[i].right
    <3>1. /\ Checks(h)[1].end = 6 /\ Checks(h)[2].end = 9
          /\ Checks(h)[3].end = 9 + h.header_data_length
      BY <2>4 DEF Check
    <3>2. Checks(h)[1].right /\ Checks(h)[2].right /\ Checks(h)[3].right
      BY <2>1, <2>4 DEF Check
    <3>3. i = 1 \/ i = 2 \/ i = 3
      OBVIOUS
    <3> QED BY <2>1, <2>2, <3>1, <3>2, <3>3
  <2>7. ASSUME NEW i \in 4 .. 17 PROVE ~ (Checks(h)[i].end > n) /\ Checks(h)[i].right
    <3>1. i - 3 \in 0 .. 14
      OBVIOUS
    <3>2. Checks(h)[i].end = Ends(h)[i - 3]
      BY <2>5 DEF FieldCheck, Check
    <3>3. Ends(h)[i - 3] \in Nat /\ Ends(h)[14] \in Nat /\ Ends(h)[i - 3] <= Ends(h)[14]
      BY <3>1, EndsAre, EndsGrow
    <3>4. Checks(h)[i].right
      <4>1. Checks(h)[i] = FieldCheck(h, i - 3)
        BY <2>5
      <4>2. Sizes[i - 3][1] \notin h.wrong
        BY <2>1
      <4>3. (Announced(h, Sizes[i - 3]) => Sizes[i - 3][1] \notin h.wrong) = TRUE
        BY <4>2
      <4>4. FieldCheck(h, i - 3) = [end |-> Ends(h)[i - 3], right |-> TRUE]
        BY <4>3, Zenon DEF FieldCheck, Check
      <4> QED BY <4>1, <4>4
    <3> QED BY <2>1, <2>2, <3>2, <3>3, <3>4
  <2>8. \A i \in 1 .. 17 : i \in {1, 2, 3} \/ i \in 4 .. 17
    OBVIOUS
  <2> QED BY <2>3, <2>6, <2>7, <2>8 DEF Failing
<1> QED BY <1>1, <1>2

\* The parser's verdict is sound, whatever the header says and however much of it is there.
LEMMA ParseIsSound ==
  ASSUME NEW h, IsHeader(h), NEW N \in SUBSET Nat
  PROVE  Sound(h, N)
<1> SUFFICES ASSUME NEW n \in N
             PROVE  /\ Parse(h, n) = "OK" => HeaderSize(h) <= n
                    /\ WellFormed(h, n) => Parse(h, n) = "OK"
                    /\ \A m \in N : n <= m /\ Parse(h, n) # "NEED_MORE" => Parse(h, m) = Parse(h, n)
                    /\ Parse(h, n) = "NEED_MORE" => n < BytesOf(h)
  BY DEF Sound
<1>1. n \in Nat
  OBVIOUS
<1>2. ASSUME Parse(h, n) = "OK" PROVE Failing(h, n) = {}
  BY <1>1, <1>2, VerdictIs
<1>3. ASSUME Parse(h, n) = "OK" PROVE HeaderSize(h) <= n
  <2>1. CASE h.bare
    <3>1. DOMAIN Checks(h) = {1} /\ Checks(h)[1] = Check(6, h.prefix)
      BY <2>1, BareChecks, Zenon
    <3>2. Checks(h)[1].end = 6 /\ 1 \notin Failing(h, n)
      BY <1>2, <1>3, <3>1 DEF Check
    <3> QED BY <1>1, <2>1, <3>1, <3>2 DEF Failing, HeaderSize
  <2>2. CASE ~ h.bare
    <3>1. DOMAIN Checks(h) = 1 .. 17 /\ Checks(h)[3] = Check(9 + h.header_data_length, TRUE)
      BY <2>2, FullChecks, Zenon
    <3>2. Checks(h)[3].end = HeaderSize(h) /\ 3 \in DOMAIN Checks(h) /\ 3 \notin Failing(h, n)
      BY <1>2, <1>3, <2>2, <3>1 DEF Check, HeaderSize
    <3>3. HeaderSize(h) \in Nat
      BY <2>2 DEF IsHeader, HeaderSize
    <3> QED BY <1>1, <3>2, <3>3 DEF Failing
  <2> QED BY <2>1, <2>2
<1>4. ASSUME WellFormed(h, n) PROVE Parse(h, n) = "OK"
  BY <1>1, <1>4, WellFormedPasses, VerdictIs
<1>5. ASSUME NEW m \in N, n <= m, Parse(h, n) # "NEED_MORE" PROVE Parse(h, m) = Parse(h, n)
  <2>1. m \in Nat
    OBVIOUS
  <2>2. /\ Failing(h, m) \subseteq Failing(h, n)
        /\ \A i \in Failing(h, n) : Checks(h)[i].end <= n => i \in Failing(h, m)
    BY <1>1, <1>5, <2>1, FailingFewer
  <2>3. CASE Failing(h, n) = {}
    BY <1>1, <2>1, <2>2, <2>3, VerdictIs
  <2>4. CASE Failing(h, n) # {}
    <3>1. PICK i \in Failing(h, n) :
            /\ \A j \in Failing(h, n) : i <= j
            /\ Parse(h, n) = IF Checks(h)[i].end > n THEN "NEED_MORE" ELSE "BAD"
      BY <1>1, <2>4, VerdictIs
    <3>2. i \in DOMAIN Checks(h) /\ Checks(h)[i].end \in Nat
      <4>1. i \in DOMAIN Checks(h)
        BY DEF Failing
      <4> QED BY <4>1, ChecksWithin
    <3>3. Checks(h)[i].end <= n /\ Parse(h, n) = "BAD"
      BY <1>1, <1>5, <3>1, <3>2
    <3>4. i \in Failing(h, m)
      BY <2>2, <3>3
    <3>5. PICK k \in Failing(h, m) :
            /\ \A j \in Failing(h, m) : k <= j
            /\ Parse(h, m) = IF Checks(h)[k].end > m THEN "NEED_MORE" ELSE "BAD"
      BY <2>1, <3>4, VerdictIs
    <3>6. DOMAIN Checks(h) \subseteq Nat
      <4>1. CASE h.bare
        <5>1. DOMAIN Checks(h) = {1}
          BY <4>1, BareChecks, Zenon
        <5> QED BY <5>1
      <4>2. CASE ~ h.bare
        <5>1. DOMAIN Checks(h) = 1 .. 17
          BY <4>2, FullChecks, Zenon
        <5> QED BY <5>1
      <4> QED BY <4>1, <4>2
    <3>7. k = i
      <4>1. k <= i /\ i <= k
        BY <2>2, <3>1, <3>4, <3>5
      <4>2. k \in Nat /\ i \in Nat
        BY <3>6 DEF Failing
      <4> QED BY <4>1, <4>2
    <3> QED BY <1>1, <1>5, <2>1, <3>2, <3>3, <3>5, <3>7
  <2> QED BY <2>3, <2>4
<1>6. ASSUME Parse(h, n) = "NEED_MORE" PROVE n < BytesOf(h)
  <2>1. Failing(h, n) # {}
    BY <1>1, <1>6, VerdictIs
  <2>2. PICK i \in Failing(h, n) :
          Parse(h, n) = IF Checks(h)[i].end > n THEN "NEED_MORE" ELSE "BAD"
    BY <1>1, <2>1, VerdictIs
  <2>3. i \in DOMAIN Checks(h)
    BY DEF Failing
  <2>4. Checks(h)[i].end \in Nat /\ BytesOf(h) \in Nat /\ Checks(h)[i].end <= BytesOf(h)
    BY <2>3, ChecksWithin
  <2> QED BY <1>1, <1>6, <2>2, <2>4
<1> QED BY <1>3, <1>4, <1>5, <1>6

LEMMA HeadersOfPlans ==
  ASSUME NEW s \in Streams, NEW p \in Plans[s], NEW i \in 1 .. Len(p)
  PROVE  IsHeader(p[i].header) /\ p[i].first \in Nat
<1>1. p \in Seq(Range(p)) /\ DOMAIN p = 1 .. Len(p)
  <2>1. p \in Seq(Range(p))
    BY DemuxAssumption
  <2> QED BY <2>1, LenProperties
<1>2. IsHeader(p[i].header)
  BY <1>1, HeaderAssumption
<1>3. p[i].first \in Nat
  BY PlansAre DEF PesOK
<1> QED BY <1>2, <1>3

\* The first bytes of a header are enough for the parser if they are for the standard.
LEMMA HeadersAreRead ==
  ASSUME NEW s \in Streams, NEW p \in Plans[s], NEW i \in 1 .. Len(p), Good(p[i])
  PROVE  Parse(p[i].header, p[i].first) = "OK"
<1>1. IsHeader(p[i].header) /\ p[i].first \in Nat
  BY HeadersOfPlans
<1>2. WellFormed(p[i].header, p[i].first)
  BY DEF Good
<1> QED BY <1>1, <1>2, WellFormedPasses, VerdictIs
-----------------------------------------------------------------------------
(* The clock *)

LEMMA PtsToTsType ==
  ASSUME NEW d \in Demuxes, NEW raw \in Time
  PROVE  /\ PtsToTs(d, raw) \in Time
         /\ raw = None => PtsToTs(d, raw) = None
BY DEF PtsToTs, Demuxes, Groups, Time, None

\* Nothing of the demuxer but its group of PCRs matters for the stream time.
LEMMA SameClock ==
  ASSUME NEW d, NEW e, d.group = e.group
  PROVE  \A raw : PtsToTs(d, raw) = PtsToTs(e, raw)
BY DEF PtsToTs

LEMMA PresentAre == \A d : Present(d) \subseteq Streams
BY DEF Present

LEMMA OffsetType ==
  ASSUME NEW d \in Demuxes, NEW s \in Streams
  PROVE  OffsetOf(d, s) \in Int
<1> DEFINE t == d.stream[s]
<1>1. t \in StreamRecs
  BY DEF Demuxes
<1> HIDE DEF t
<1>2. CASE t.pending = <<>> \/ t.state = "empty" \/ t.raw = None
  BY <1>2 DEF OffsetOf, t
<1>3. CASE ~ (t.pending = <<>> \/ t.state = "empty" \/ t.raw = None)
  <2>1. t.pending \in Seq(Buffers) /\ t.pending # <<>> /\ t.raw \in Nat
    BY <1>1, <1>3 DEF StreamRecs, Time
  <2>2. t.pending[1] \in Buffers
    BY <2>1
  <2>3. t.pending[1].raw \in Time
    BY <2>2 DEF Buffers
  <2>4. PtsToTs(d, t.raw) \in Time
    BY <2>1, PtsToTsType DEF Time
  <2> DEFINE first == t.pending[1].raw
             now == PtsToTs(d, t.raw)
  <2>5. OffsetOf(d, s) = IF first = None \/ now = None THEN 0 ELSE now + t.raw - first
    BY <1>3 DEF OffsetOf, t
  <2>6. first \in Time /\ now \in Time
    BY <2>3, <2>4
  <2> HIDE DEF first, now
  <2> QED BY <2>1, <2>5, <2>6 DEF Time
<1> QED BY <1>2, <1>3

LEMMA GreatestOffset ==
  ASSUME NEW d \in Demuxes
  PROVE  Max({0} \cup {OffsetOf(d, s) : s \in Present(d)}) \in Nat
<1> DEFINE S == {0} \cup {OffsetOf(d, s) : s \in Present(d)}
           n == Len(StreamList)
           f == [i \in 1 .. n |-> IF StreamList[i] \in Present(d) THEN OffsetOf(d, StreamList[i]) ELSE 0]
<1>1. n \in Nat /\ DOMAIN StreamList = 1 .. n /\ \A i \in 1 .. n : StreamList[i] \in Streams
  BY DemuxAssumption
<1>2. f \in [1 .. n -> Int]
  BY <1>1, OffsetType
<1>3. PICK b \in Nat : /\ b = 0 \/ \E i \in 1 .. n : f[i] = b
                       /\ \A i \in 1 .. n : f[i] <= b
  <2> HIDE DEF f, n
  <2> QED BY <1>1, <1>2, BoundExists
<1>4. b \in S
  BY <1>3
<1>5. ASSUME NEW y \in S PROVE b >= y
  <2>1. CASE y = 0
    BY <2>1
  <2>2. CASE y # 0
    <3>1. PICK s \in Present(d) : y = OffsetOf(d, s)
      BY <2>2
    <3>2. s \in Range(StreamList)
      BY PresentAre DEF Streams
    <3>3. PICK i \in 1 .. n : s = StreamList[i]
      BY <1>1, <3>2 DEF Range
    <3>4. f[i] = y
      BY <3>1, <3>3
    <3> QED BY <1>2, <1>3, <3>4
  <2> QED BY <2>1, <2>2
<1> HIDE DEF S
<1>6. Max(S) \in S /\ Max(S) >= 0
  <2>1. 0 \in S
    BY DEF S
  <2>2. Max(S) \in S /\ \A y \in S : Max(S) >= y
    BY <1>4, <1>5 DEF Max
  <2> QED BY <2>1, <2>2
<1>7. S \subseteq Int
  BY OffsetType, PresentAre DEF S
<1>8. Max(S) \in Nat
  <2> DEFINE m == Max(S)
  <2>1. m \in Int /\ m >= 0
    BY <1>6, <1>7
  <2> HIDE DEF m
  <2>2. m \in Nat
    BY <2>1
  <2> QED BY <2>2 DEF m
<1> QED BY <1>8 DEF S

LEMMA ShiftedIs ==
  ASSUME NEW d \in Demuxes
  PROVE  LET e == Shifted(d) IN
         /\ e \in Demuxes
         /\ e.stream = d.stream /\ e.segment_event = d.segment_event /\ e.segment = d.segment
         /\ e.out = d.out /\ e.group.first = d.group.first /\ e.group.at = d.group.at
<1>1. CASE d.group.at # "current"
  BY <1>1 DEF Shifted
<1>2. CASE d.group.at = "current"
  <2> DEFINE o == Max({0} \cup {OffsetOf(d, s) : s \in Present(d)})
  <2>1. o \in Nat
    BY GreatestOffset
  <2>2. Shifted(d) = [d EXCEPT !.group.pcr_offset = o]
    BY <1>2 DEF Shifted
  <2> HIDE DEF o
  <2> QED BY <2>1, <2>2 DEF Demuxes, Groups
<1> QED BY <1>1, <1>2
-----------------------------------------------------------------------------
(* check_pending_buffers *)

LEMMA FirstKnownType ==
  ASSUME NEW q \in Seq(Time)
  PROVE  FirstKnown(q) \in Time
<1> DEFINE known == {i \in DOMAIN q : q[i] # None}
<1>1. CASE known = {}
  BY <1>1 DEF FirstKnown, Time
<1>2. CASE known # {}
  <2>1. known \in SUBSET Nat /\ \A i \in known : q[i] \in Time
    OBVIOUS
  <2>2. FirstKnown(q) = q[Min(known)]
    BY <1>2 DEF FirstKnown
  <2> HIDE DEF known
  <2>3. Min(known) \in known
    BY <1>2, <2>1, LeastExists
  <2> QED BY <2>1, <2>2, <2>3
<1> QED BY <1>1, <1>2

\* r is t with new time stamps, by the clock of e.
Stamping(e, t, r) ==
  /\ r \in StreamRecs
  /\ r.pad = t.pad /\ r.active = t.active /\ r.state = t.state /\ r.cc = t.cc /\ r.data = t.data
  /\ r.expected = t.expected /\ r.raw = t.raw /\ r.need_newsegment = t.need_newsegment
  /\ r.pending_ts = FALSE
  /\ r.pts = IF t.state # "empty" /\ t.raw # None THEN PtsToTs(e, t.raw) ELSE t.pts
  /\ Len(r.pending) = Len(t.pending)
  /\ \A i \in 1 .. Len(t.pending) :
       r.pending[i].data = t.pending[i].data /\ r.pending[i].raw = t.pending[i].raw
         /\ r.pending[i].pts = PtsToTs(e, t.pending[i].raw)

LEMMA StampedBuffers ==
  ASSUME NEW d \in Demuxes, NEW p \in Seq(Buffers), NEW q,
         q = [i \in DOMAIN p |-> [p[i] EXCEPT !.pts = PtsToTs(d, p[i].raw)]]
  PROVE  /\ q \in Seq(Buffers) /\ Len(q) = Len(p)
         /\ \A i \in 1 .. Len(p) : /\ q[i].data = p[i].data /\ q[i].raw = p[i].raw
                                   /\ q[i].pts = PtsToTs(d, p[i].raw)
<1>1. DOMAIN p = 1 .. Len(p) /\ Len(p) \in Nat
  OBVIOUS
<1>2. ASSUME NEW i \in 1 .. Len(p)
      PROVE  /\ q[i] \in Buffers
             /\ q[i].data = p[i].data /\ q[i].raw = p[i].raw /\ q[i].pts = PtsToTs(d, p[i].raw)
  <2>1. p[i] \in Buffers
    BY <1>1
  <2> DEFINE ts == PtsToTs(d, p[i].raw)
  <2>2. ts \in Time
    BY <2>1, PtsToTsType DEF Buffers
  <2>3. q[i] = [p[i] EXCEPT !.pts = ts]
    BY <1>1
  <2> HIDE DEF ts
  <2>4. q[i] \in Buffers /\ q[i].data = p[i].data /\ q[i].raw = p[i].raw /\ q[i].pts = ts
    BY <2>1, <2>2, <2>3 DEF Buffers
  <2> QED BY <2>4 DEF ts
<1>3. q \in Seq(Buffers) /\ Len(q) = Len(p)
  <2>1. q \in [1 .. Len(p) -> Buffers]
    BY <1>1, <1>2
  <2> QED BY <1>1, <2>1
<1> QED BY <1>2, <1>3

LEMMA RestampedIs ==
  ASSUME NEW d \in Demuxes, NEW t \in StreamRecs
  PROVE  Stamping(d, t, Restamped(d, t))
<1> DEFINE stamped == [i \in DOMAIN t.pending |-> [t.pending[i] EXCEPT !.pts = PtsToTs(d, t.pending[i].raw)]]
           known == t.state # "empty" /\ t.raw # None
           pts == IF known THEN PtsToTs(d, t.raw) ELSE t.pts
           current == IF known THEN <<pts>> ELSE <<>>
           all == <<t.first>> \o [i \in DOMAIN stamped |-> stamped[i].pts] \o current
           first == FirstKnown(all)
<1>1. t.pending \in Seq(Buffers) /\ t.raw \in Time /\ t.pts \in Time /\ t.first \in Time
  BY DEF StreamRecs
<1>2. /\ stamped \in Seq(Buffers) /\ Len(stamped) = Len(t.pending)
      /\ \A i \in 1 .. Len(t.pending) :
           /\ stamped[i].data = t.pending[i].data /\ stamped[i].raw = t.pending[i].raw
           /\ stamped[i].pts = PtsToTs(d, t.pending[i].raw)
  BY <1>1, StampedBuffers
<1>3. pts \in Time
  BY <1>1, PtsToTsType
<1>4. first \in Time
  <2>1. [i \in DOMAIN stamped |-> stamped[i].pts] \in Seq(Time)
    <3> HIDE DEF stamped
    <3>1. DOMAIN stamped = 1 .. Len(stamped) /\ Len(stamped) \in Nat
      BY <1>2
    <3>2. \A i \in DOMAIN stamped : stamped[i] \in Buffers
      BY <1>2
    <3>3. \A i \in DOMAIN stamped : stamped[i].pts \in Time
      BY <3>2 DEF Buffers
    <3> QED BY <3>1, <3>3
  <2>2. <<t.first>> \in Seq(Time) /\ current \in Seq(Time)
    BY <1>1, <1>3
  <2> DEFINE mid == [i \in DOMAIN stamped |-> stamped[i].pts]
  <2> HIDE DEF current, mid
  <2>3. <<t.first>> \o mid \o current \in Seq(Time)
    BY <2>1, <2>2 DEF mid
  <2> QED BY <2>3, FirstKnownType DEF mid
<1>5. Restamped(d, t) = [t EXCEPT !.pending_ts = FALSE, !.pending = stamped, !.pts = pts, !.first = first]
  BY DEF Restamped
<1> DEFINE r == Restamped(d, t)
<1>6. r = [t EXCEPT !.pending_ts = FALSE, !.pending = stamped, !.pts = pts, !.first = first]
  BY <1>5
<1> HIDE DEF r, stamped, first, all, current, pts
<1>7. /\ r \in StreamRecs
      /\ r.pad = t.pad /\ r.active = t.active /\ r.state = t.state /\ r.cc = t.cc /\ r.data = t.data
      /\ r.expected = t.expected /\ r.raw = t.raw /\ r.need_newsegment = t.need_newsegment
      /\ r.pending_ts = FALSE /\ r.pts = pts /\ r.pending = stamped
  <2>1. stamped \in Seq(Buffers) /\ pts \in Time /\ first \in Time
    BY <1>2, <1>3, <1>4
  <2> QED BY <1>6, <2>1 DEF StreamRecs
<1>8. Stamping(d, t, r)
  BY <1>2, <1>7 DEF Stamping, pts
<1> QED BY <1>8 DEF r

\* e is d with new time stamps in all its streams.
Stamps(d, e) ==
  /\ e \in Demuxes /\ e.segment_event = d.segment_event /\ e.segment = d.segment /\ e.out = d.out
  /\ e.group.first = d.group.first /\ e.group.at = d.group.at
  /\ \A x \in Streams : IF d.stream[x].pad THEN Stamping(e, d.stream[x], e.stream[x])
                                           ELSE e.stream[x] = d.stream[x]

LEMMA CheckPendingIs ==
  ASSUME NEW d \in Demuxes, NEW s, Observed(d)
  PROVE  Stamps(d, CheckPending(d, s))
<1> DEFINE e == Shifted(d)
           streams == [x \in Streams |-> IF x \in Present(e) THEN Restamped(e, e.stream[x]) ELSE e.stream[x]]
           f == CheckPending(d, s)
<1>1. /\ e \in Demuxes
      /\ e.stream = d.stream /\ e.segment_event = d.segment_event /\ e.segment = d.segment
      /\ e.out = d.out /\ e.group.first = d.group.first /\ e.group.at = d.group.at
  BY ShiftedIs
<1>2. f = [e EXCEPT !.stream = streams]
  BY DEF CheckPending
<1>3. \A x \in Streams : /\ e.stream[x].pad => streams[x] = Restamped(e, e.stream[x])
                         /\ ~ e.stream[x].pad => streams[x] = e.stream[x]
  BY DEF Present
<1> HIDE DEF e, streams, f
<1>4. \A x \in Streams : e.stream[x] \in StreamRecs
  BY <1>1 DEF Demuxes
<1>5. \A x \in Streams : e.stream[x].pad => Stamping(e, e.stream[x], streams[x])
  BY <1>1, <1>3, <1>4, RestampedIs
<1>6. streams \in [Streams -> StreamRecs]
  <2>1. \A x \in Streams : streams[x] \in StreamRecs
    BY <1>3, <1>4, <1>5 DEF Stamping
  <2> QED BY <2>1 DEF streams
<1>7. /\ f \in Demuxes /\ f.stream = streams /\ f.segment_event = e.segment_event
      /\ f.segment = e.segment /\ f.out = e.out /\ f.group = e.group
  BY <1>1, <1>2, <1>6 DEF Demuxes
<1>8. \A t, r : Stamping(e, t, r) => Stamping(f, t, r)
  BY <1>7, SameClock DEF Stamping
<1>9. \A x \in Streams : IF d.stream[x].pad THEN Stamping(f, d.stream[x], f.stream[x])
                                            ELSE f.stream[x] = d.stream[x]
  BY <1>1, <1>3, <1>5, <1>7, <1>8
<1>10. Stamps(d, f)
  BY <1>1, <1>7, <1>9 DEF Stamps
<1> QED BY <1>10 DEF f
-----------------------------------------------------------------------------
(* push_pending_data *)

LEMMA StartType ==
  ASSUME NEW d \in Demuxes
  PROVE  SegmentStart(d) \in Nat
<1> DEFINE firsts == {d.stream[x].first : x \in Present(d)} \ {None}
<1>1. firsts \in SUBSET Nat
  BY PresentAre DEF Demuxes, StreamRecs, Time
<1>2. SegmentStart(d) = IF firsts = {} THEN 0 ELSE Min(firsts)
  BY DEF SegmentStart
<1> HIDE DEF firsts
<1>3. firsts # {} => Min(firsts) \in Nat
  BY <1>1, LeastExists
<1> QED BY <1>2, <1>3

\* e is d after a segment event for all its streams.
Starts(d, e) ==
  /\ e \in Demuxes /\ e.group = d.group /\ e.out = d.out /\ e.segment_event \in Nat
  /\ \A x \in Streams :
       IF d.stream[x].pad
       THEN /\ e.segment[x] = e.segment_event
            /\ e.stream[x] = [d.stream[x] EXCEPT !.need_newsegment = FALSE]
       ELSE e.segment[x] = d.segment[x] /\ e.stream[x] = d.stream[x]

LEMMA NewSegmentIs ==
  ASSUME NEW d \in Demuxes, NEW s
  PROVE  Starts(d, NewSegment(d, s))
<1> DEFINE start == IF d.segment_event = None THEN SegmentStart(d) ELSE d.segment_event
           segment == [x \in Streams |-> IF x \in Present(d) THEN start ELSE d.segment[x]]
           streams == [x \in Streams |-> IF x \in Present(d)
                                         THEN [d.stream[x] EXCEPT !.need_newsegment = FALSE] ELSE d.stream[x]]
           e == NewSegment(d, s)
<1>1. start \in Nat
  <2>1. SegmentStart(d) \in Nat /\ d.segment_event \in Time
    BY StartType DEF Demuxes
  <2> QED BY <2>1 DEF Time
<1>2. e = [d EXCEPT !.segment_event = start, !.segment = segment, !.stream = streams]
  BY DEF NewSegment
<1> HIDE DEF start, e
<1>3. start \in Time
  BY <1>1 DEF Time
<1>4. segment \in [Streams -> Time] /\ streams \in [Streams -> StreamRecs]
  <2>1. ASSUME NEW x \in Streams
        PROVE  /\ d.segment[x] \in Time /\ d.stream[x] \in StreamRecs
               /\ [d.stream[x] EXCEPT !.need_newsegment = FALSE] \in StreamRecs
    <3>1. d.segment[x] \in Time /\ d.stream[x] \in StreamRecs
      BY DEF Demuxes
    <3> QED BY <3>1 DEF StreamRecs
  <2> QED BY <1>3, <2>1
<1>5. \A x \in Streams :
        IF d.stream[x].pad
        THEN segment[x] = start /\ streams[x] = [d.stream[x] EXCEPT !.need_newsegment = FALSE]
        ELSE segment[x] = d.segment[x] /\ streams[x] = d.stream[x]
  BY DEF Present
<1> HIDE DEF segment, streams
<1>6. /\ e \in Demuxes /\ e.group = d.group /\ e.out = d.out /\ e.segment_event = start
      /\ e.segment = segment /\ e.stream = streams
  BY <1>2, <1>3, <1>4 DEF Demuxes
<1>7. Starts(d, e)
  BY <1>1, <1>5, <1>6 DEF Starts
<1> QED BY <1>7 DEF e

\* f is d but for the stream s.
Sets(d, f, s, t) ==
  /\ f \in Demuxes /\ f.stream[s] = t /\ \A x \in Streams \ {s} : f.stream[x] = d.stream[x]
  /\ f.group = d.group /\ f.segment_event = d.segment_event /\ f.segment = d.segment /\ f.out = d.out

LEMMA SetIs ==
  ASSUME NEW d \in Demuxes, NEW s \in Streams, NEW t \in StreamRecs
  PROVE  Sets(d, [d EXCEPT !.stream[s] = t], s, t)
BY DEF Sets, Demuxes

LEMMA ResetIs ==
  ASSUME NEW t \in StreamRecs
  PROVE  LET r == Reset(t) IN
         /\ r \in StreamRecs
         /\ r.pad = t.pad /\ r.active = t.active /\ r.cc = t.cc /\ r.raw = t.raw /\ r.pts = t.pts
         /\ r.first = t.first /\ r.pending_ts = t.pending_ts /\ r.pending = t.pending
         /\ r.need_newsegment = t.need_newsegment
         /\ r.state = "empty" /\ r.data = <<>> /\ r.expected = 0
<1>1. <<>> \in Data
  BY DEF Data
<1> QED BY <1>1 DEF Reset, StreamRecs

LEMMA CurrentIs ==
  ASSUME NEW t \in StreamRecs
  PROVE  /\ Current(t) \in Buffers /\ [Current(t) EXCEPT !.pts = None] \in Buffers
         /\ Current(t).data = t.data /\ Current(t).raw = t.raw /\ Current(t).pts = t.pts
         /\ [Current(t) EXCEPT !.pts = None].data = t.data
         /\ [Current(t) EXCEPT !.pts = None].raw = t.raw
BY DEF Current, StreamRecs, Buffers, Time

\* The current buffer of s, if it is one, goes nowhere, waits or is pushed behind those that wait.
Drops(d, f, s) ==
  /\ d.stream[s].data = <<>> \/ d.stream[s].state # "buffer"
  /\ Sets(d, f, s, Reset(d.stream[s]))

Waits(d, f, s) ==
  LET t == d.stream[s]
      late == [Current(t) EXCEPT !.pts = None]
  IN /\ t.data # <<>> /\ t.state = "buffer" /\ t.pending_ts
     /\ Sets(d, f, s, [Reset(t) EXCEPT !.pending = Append(t.pending, late)])

Sends(d, f, s) ==
  LET t == d.stream[s] IN
  /\ t.data # <<>> /\ t.state = "buffer"
  /\ f \in Demuxes /\ f.stream[s] = [Reset(t) EXCEPT !.pending = <<>>]
  /\ \A x \in Streams \ {s} : f.stream[x] = d.stream[x] /\ f.out[x] = d.out[x]
  /\ f.group = d.group /\ f.segment_event = d.segment_event /\ f.segment = d.segment
  /\ f.out[s] = d.out[s] \o t.pending \o <<Current(t)>>

LEMMA PushedIs ==
  ASSUME NEW d \in Demuxes, NEW s \in Streams, d.stream[s].data # <<>>, d.stream[s].state = "buffer"
  PROVE  Sends(d, Pushed(d, s), s)
<1> DEFINE t == d.stream[s]
           r == [Reset(t) EXCEPT !.pending = <<>>]
           out == d.out[s] \o t.pending \o <<Current(t)>>
           f == Pushed(d, s)
<1>1. t \in StreamRecs
  BY DEF Demuxes
<1>2. r \in StreamRecs
  <2>1. <<>> \in Seq(Buffers) /\ Reset(t) \in StreamRecs
    BY <1>1, ResetIs
  <2> QED BY <2>1 DEF StreamRecs
<1>3. out \in Seq(Buffers)
  <2>1. d.out[s] \in Seq(Buffers) /\ t.pending \in Seq(Buffers) /\ Current(t) \in Buffers
    BY <1>1, CurrentIs DEF Demuxes, StreamRecs
  <2> HIDE DEF t
  <2>2. <<Current(t)>> \in Seq(Buffers)
    BY <2>1
  <2> QED BY <2>1, <2>2
<1>4. f = [d EXCEPT !.out[s] = out, !.stream[s] = r]
  BY DEF Pushed
<1> HIDE DEF r, out, f
<1>5. /\ f \in Demuxes /\ f.stream[s] = r /\ f.out[s] = out
      /\ \A x \in Streams \ {s} : f.stream[x] = d.stream[x] /\ f.out[x] = d.out[x]
      /\ f.group = d.group /\ f.segment_event = d.segment_event /\ f.segment = d.segment
  BY <1>2, <1>3, <1>4 DEF Demuxes
<1>6. Sends(d, f, s)
  BY <1>5 DEF Sends, r, out
<1> QED BY <1>6 DEF f

LEMMA PushPendingDataIs ==
  ASSUME NEW d \in Demuxes, NEW s \in Streams
  PROVE  LET f == PushPendingData(d, s)
             t == d.stream[s]
         IN \/ Drops(d, f, s)
            \/ Waits(d, f, s)
            \/ \E e1, e2 \in Demuxes :
                 /\ t.data # <<>> /\ t.state = "buffer"
                 /\ IF t.pending_ts THEN Observed(d) /\ Stamps(d, e1) ELSE e1 = d
                 /\ IF t.need_newsegment THEN Starts(e1, e2) ELSE e2 = e1
                 /\ Sends(e2, f, s)
<1> DEFINE f == PushPendingData(d, s)
           t == d.stream[s]
           e == IF t.pending_ts THEN CheckPending(d, s) ELSE d
<1>1. t \in StreamRecs
  BY DEF Demuxes
<1>2. CASE t.data = <<>> \/ t.state # "buffer"
  <2>1. f = [d EXCEPT !.stream[s] = Reset(t)]
    BY <1>2 DEF PushPendingData
  <2>2. Reset(t) \in StreamRecs
    BY <1>1, ResetIs
  <2>3. Sets(d, f, s, Reset(t))
    BY <2>1, <2>2, SetIs
  <2> QED BY <1>2, <2>3 DEF Drops
<1>3. CASE ~ (t.data = <<>> \/ t.state # "buffer") /\ t.pending_ts /\ ~ Observed(d)
  <2> DEFINE r == [Reset(t) EXCEPT !.pending = Append(t.pending, [Current(t) EXCEPT !.pts = None])]
  <2>1. f = [d EXCEPT !.stream[s] = r]
    <3>1. Reset(t).pending = t.pending
      BY <1>1, ResetIs
    <3> QED BY <1>3, <3>1 DEF PushPendingData
  <2>2. r \in StreamRecs
    <3>1. Append(t.pending, [Current(t) EXCEPT !.pts = None]) \in Seq(Buffers)
      BY <1>1, CurrentIs DEF StreamRecs
    <3>2. Reset(t) \in StreamRecs
      BY <1>1, ResetIs
    <3> QED BY <3>1, <3>2 DEF StreamRecs
  <2>3. Sets(d, f, s, r)
    BY <2>1, <2>2, SetIs
  <2> QED BY <1>3, <2>3 DEF Waits
<1>4. CASE ~ (t.data = <<>> \/ t.state # "buffer") /\ ~ (t.pending_ts /\ ~ Observed(d))
  <2>1. /\ IF t.pending_ts THEN Observed(d) /\ Stamps(d, e) ELSE e = d
        /\ e \in Demuxes
    BY <1>4, CheckPendingIs DEF Stamps
  <2>2. e.stream[s].state = "buffer" /\ e.stream[s].data # <<>>
    BY <1>4, <2>1 DEF Stamps, Stamping
  <2> DEFINE g == IF t.need_newsegment THEN NewSegment(e, s) ELSE e
  <2>3. f = Pushed(g, s)
    BY <1>4 DEF PushPendingData
  <2> HIDE DEF e
  <2>4. (IF t.need_newsegment THEN Starts(e, g) ELSE g = e) /\ g \in Demuxes
    BY <2>1, NewSegmentIs DEF Starts
  <2> HIDE DEF g
  <2>5. g.stream[s].state = "buffer" /\ g.stream[s].data # <<>>
    <3>1. e.stream[s] \in StreamRecs
      BY <2>1 DEF Demuxes
    <3>2. g.stream[s] = e.stream[s] \/ g.stream[s] = [e.stream[s] EXCEPT !.need_newsegment = FALSE]
      BY <2>4 DEF Starts
    <3> QED BY <2>2, <3>1, <3>2 DEF StreamRecs
  <2>6. Sends(g, f, s)
    BY <2>3, <2>4, <2>5, PushedIs
  <2> QED BY <1>4, <2>1, <2>4, <2>6
<1> QED BY <1>2, <1>3, <1>4
-----------------------------------------------------------------------------
(* What the demuxer makes of the packets of a stream, leaving the time     *)
(* aside: the shape of a stream is what it gathers and the data it has     *)
(* already made buffers of, pushed or waiting.  The shape after a packet   *)
(* depends on nothing but the shape before it and the packet.              *)

Datas(q) == [k \in 1 .. Len(q) |-> q[k].data]

Shape(d, x) ==
  LET t == d.stream[x] IN
  [pad |-> t.pad, state |-> t.state, cc |-> t.cc, data |-> t.data, expected |-> t.expected,
   held |-> Datas(d.out[x] \o t.pending)]

Shapes ==
  [pad : BOOLEAN, state : {"empty", "header", "buffer", "discont"}, cc : 0 .. MaxCC \cup {None},
   data : Data, expected : Nat, held : Seq(Data)]

LEMMA DatasOf ==
  ASSUME NEW q \in Seq(Buffers)
  PROVE  /\ Datas(q) \in Seq(Data) /\ Len(Datas(q)) = Len(q)
         /\ \A b \in Buffers : Datas(Append(q, b)) = Append(Datas(q), b.data)
<1>1. Len(q) \in Nat /\ \A k \in 1 .. Len(q) : q[k] \in Buffers /\ q[k].data \in Data
  <2>1. Len(q) \in Nat /\ \A k \in 1 .. Len(q) : q[k] \in Buffers
    OBVIOUS
  <2>2. \A b \in Buffers : b.data \in Data
    BY DEF Buffers
  <2> QED BY <2>1, <2>2
<1>2. Datas(q) \in [1 .. Len(q) -> Data]
  BY <1>1 DEF Datas
<1>3. Datas(q) \in Seq(Data) /\ Len(Datas(q)) = Len(q)
  BY <1>1, <1>2
<1>4. ASSUME NEW b \in Buffers PROVE Datas(Append(q, b)) = Append(Datas(q), b.data)
  <2> DEFINE r == Append(q, b)
             u == Datas(r)
             w == Append(Datas(q), b.data)
             n == Len(q) + 1
  <2>1. Len(r) = n /\ r[n] = b /\ \A k \in 1 .. Len(q) : r[k] = q[k]
    BY <1>1, AppendProperties
  <2>2. b.data \in Data
    BY DEF Buffers
  <2>3. Len(w) = n /\ w[n] = b.data /\ (\A k \in 1 .. Len(q) : w[k] = Datas(q)[k]) /\ w \in Seq(Data)
    BY <1>3, <2>2, AppendProperties
  <2>4. u = [k \in 1 .. n |-> r[k].data]
    BY <2>1 DEF Datas
  <2>5. \A k \in 1 .. Len(q) : Datas(q)[k] = q[k].data
    BY DEF Datas
  <2> HIDE DEF r, u, w
  <2>6. \A k \in 1 .. n : k \in 1 .. Len(q) \/ k = n
    BY <1>1 DEF n
  <2>7. n \in Nat
    BY <1>1 DEF n
  <2> HIDE DEF n
  <2>8. \A k \in 1 .. n : w[k] = u[k]
    BY <2>1, <2>3, <2>4, <2>5, <2>6
  <2>9. DOMAIN u = 1 .. n /\ w = [k \in 1 .. n |-> w[k]]
    BY <2>3, <2>4
  <2>10. u = w
    BY <2>4, <2>8, <2>9
  <2> QED BY <2>10 DEF u, r, w
<1> QED BY <1>3, <1>4

LEMMA ShapeType ==
  ASSUME NEW d \in Demuxes, NEW x \in Streams
  PROVE  Shape(d, x) \in Shapes /\ d.out[x] \o d.stream[x].pending \in Seq(Buffers)
<1>1. d.stream[x] \in StreamRecs /\ d.out[x] \in Seq(Buffers)
  BY DEF Demuxes
<1>2. d.out[x] \o d.stream[x].pending \in Seq(Buffers)
  BY <1>1 DEF StreamRecs
<1>3. Datas(d.out[x] \o d.stream[x].pending) \in Seq(Data)
  BY <1>2, DatasOf
<1> QED BY <1>1, <1>2, <1>3 DEF Shape, Shapes, StreamRecs

\* Streams that gather the same have the same shape if their buffers have the same data.
LEMMA SameShape ==
  ASSUME NEW d \in Demuxes, NEW e \in Demuxes, NEW x \in Streams,
         e.out[x] = d.out[x],
         e.stream[x].pad = d.stream[x].pad, e.stream[x].state = d.stream[x].state,
         e.stream[x].cc = d.stream[x].cc, e.stream[x].data = d.stream[x].data,
         e.stream[x].expected = d.stream[x].expected,
         Len(e.stream[x].pending) = Len(d.stream[x].pending),
         \A i \in 1 .. Len(d.stream[x].pending) :
           e.stream[x].pending[i].data = d.stream[x].pending[i].data
  PROVE  Shape(e, x) = Shape(d, x)
<1> DEFINE out == d.out[x]
           p == d.stream[x].pending
           q == e.stream[x].pending
<1>1. out \in Seq(Buffers) /\ p \in Seq(Buffers) /\ q \in Seq(Buffers)
  BY DEF Demuxes, StreamRecs
<1>2. Len(p) = Len(q) /\ \A i \in 1 .. Len(p) : q[i].data = p[i].data
  OBVIOUS
<1>3. Datas(out \o q) = Datas(out \o p)
  <2> HIDE DEF out, p, q
  <2>1. /\ Len(out \o p) = Len(out) + Len(p) /\ Len(out \o q) = Len(out) + Len(p)
        /\ Len(out) \in Nat /\ Len(p) \in Nat
    BY <1>1, <1>2, ConcatProperties, LenProperties
  <2>2. ASSUME NEW k \in 1 .. Len(out) + Len(p) PROVE (out \o q)[k].data = (out \o p)[k].data
    <3>1. CASE k <= Len(out)
      <4>1. (out \o q)[k] = out[k] /\ (out \o p)[k] = out[k]
        BY <1>1, <1>2, <3>1
      <4> QED BY <4>1
    <3>2. CASE k > Len(out)
      <4>1. /\ (out \o q)[k] = q[k - Len(out)] /\ (out \o p)[k] = p[k - Len(out)]
            /\ k - Len(out) \in 1 .. Len(p)
        BY <1>1, <1>2, <3>2
      <4> QED BY <1>2, <4>1
    <3> QED BY <2>1, <3>1, <3>2
  <2> QED BY <2>1, <2>2 DEF Datas
<1> QED BY <1>3 DEF Shape

LEMMA StampsShape ==
  ASSUME NEW d \in Demuxes, NEW e, Stamps(d, e), NEW x \in Streams
  PROVE  Shape(e, x) = Shape(d, x)
<1>1. e \in Demuxes /\ e.out[x] = d.out[x]
  BY DEF Stamps
<1>2. CASE d.stream[x].pad
  <2>1. Stamping(e, d.stream[x], e.stream[x])
    BY <1>2 DEF Stamps
  <2> QED BY <1>1, <2>1, SameShape DEF Stamping
<1>3. CASE ~ d.stream[x].pad
  <2>1. e.stream[x] = d.stream[x]
    BY <1>3 DEF Stamps
  <2> QED BY <1>1, <2>1, SameShape
<1> QED BY <1>2, <1>3

LEMMA StartsShape ==
  ASSUME NEW d \in Demuxes, NEW e, Starts(d, e), NEW x \in Streams
  PROVE  Shape(e, x) = Shape(d, x)
<1>1. d.stream[x] \in StreamRecs /\ e \in Demuxes /\ e.out = d.out
  BY DEF Demuxes, Starts
<1>2. e.stream[x] = d.stream[x] \/ e.stream[x] = [d.stream[x] EXCEPT !.need_newsegment = FALSE]
  BY DEF Starts
<1>3. /\ e.stream[x].pad = d.stream[x].pad /\ e.stream[x].state = d.stream[x].state
      /\ e.stream[x].cc = d.stream[x].cc /\ e.stream[x].data = d.stream[x].data
      /\ e.stream[x].expected = d.stream[x].expected /\ e.stream[x].pending = d.stream[x].pending
  BY <1>1, <1>2 DEF StreamRecs
<1> QED BY <1>1, <1>3, SameShape

\* What push_pending_data does to the shape of a stream.
Ejected(h) ==
  [pad |-> h.pad, state |-> "empty", cc |-> h.cc, data |-> <<>>, expected |-> 0,
   held |-> IF h.data # <<>> /\ h.state = "buffer" THEN Append(h.held, h.data) ELSE h.held]

LEMMA EjectedIs ==
  ASSUME NEW d, NEW f, NEW s,
         f.stream[s].pad = d.stream[s].pad, f.stream[s].state = "empty", f.stream[s].cc = d.stream[s].cc,
         f.stream[s].data = <<>>, f.stream[s].expected = 0,
         Datas(f.out[s] \o f.stream[s].pending) =
           IF d.stream[s].data # <<>> /\ d.stream[s].state = "buffer"
           THEN Append(Datas(d.out[s] \o d.stream[s].pending), d.stream[s].data)
           ELSE Datas(d.out[s] \o d.stream[s].pending)
  PROVE  Shape(f, s) = Ejected(Shape(d, s))
BY DEF Shape, Ejected

LEMMA AppendedConcat ==
  ASSUME NEW S, NEW p \in Seq(S), NEW q \in Seq(S), NEW b \in S
  PROVE  p \o Append(q, b) = Append(p \o q, b)
<1>1. <<b>> \in Seq(S) /\ p \o q \in Seq(S)
  BY ConcatProperties
<1>2. (p \o q) \o <<b>> = p \o (q \o <<b>>)
  BY <1>1, ConcatAssociative
<1>3. q \o <<b>> = Append(q, b) /\ (p \o q) \o <<b>> = Append(p \o q, b)
  BY <1>1
<1> QED BY <1>2, <1>3

LEMMA DropsShape ==
  ASSUME NEW d \in Demuxes, NEW s \in Streams, NEW f, Drops(d, f, s)
  PROVE  Shape(f, s) = Ejected(Shape(d, s))
<1> DEFINE t == d.stream[s]
<1>1. t \in StreamRecs
  BY DEF Demuxes
<1>2. f.stream[s] = Reset(t) /\ f.out = d.out /\ ~ (t.data # <<>> /\ t.state = "buffer")
  BY DEF Drops, Sets
<1>3. LET r == f.stream[s] IN
      /\ r.pad = t.pad /\ r.state = "empty" /\ r.cc = t.cc /\ r.data = <<>> /\ r.expected = 0
      /\ r.pending = t.pending
  BY <1>1, <1>2, ResetIs
<1>4. Datas(f.out[s] \o f.stream[s].pending) = Datas(d.out[s] \o t.pending)
  BY <1>2, <1>3
<1> QED BY <1>2, <1>3, <1>4, EjectedIs

LEMMA WaitsShape ==
  ASSUME NEW d \in Demuxes, NEW s \in Streams, NEW f, Waits(d, f, s)
  PROVE  Shape(f, s) = Ejected(Shape(d, s))
<1> DEFINE t == d.stream[s]
           late == [Current(t) EXCEPT !.pts = None]
           r == f.stream[s]
<1>1. t \in StreamRecs /\ t.pending \in Seq(Buffers) /\ d.out[s] \in Seq(Buffers)
  BY DEF Demuxes, StreamRecs
<1>2. /\ f.stream[s] = [Reset(t) EXCEPT !.pending = Append(t.pending, late)]
      /\ f.out = d.out /\ t.data # <<>> /\ t.state = "buffer"
  BY DEF Waits, Sets
<1>3. Reset(t) \in StreamRecs /\ late \in Buffers /\ late.data = t.data
  BY <1>1, ResetIs, CurrentIs
<1>4. /\ r.pad = t.pad /\ r.cc = t.cc /\ r.state = "empty" /\ r.data = <<>> /\ r.expected = 0
      /\ r.pending = Append(t.pending, late)
  <2> HIDE DEF t, late
  <2> QED BY <1>1, <1>2, <1>3, ResetIs DEF StreamRecs
<1>5. d.out[s] \o Append(t.pending, late) = Append(d.out[s] \o t.pending, late)
  <2>1. \A p, q \in Seq(Buffers) : \A b \in Buffers : p \o Append(q, b) = Append(p \o q, b)
    BY AppendedConcat
  <2> QED BY <1>1, <1>3, <2>1
<1>6. Datas(f.out[s] \o r.pending) = Append(Datas(d.out[s] \o t.pending), t.data)
  <2>1. d.out[s] \o t.pending \in Seq(Buffers)
    BY ShapeType
  <2>2. Datas(Append(d.out[s] \o t.pending, late)) = Append(Datas(d.out[s] \o t.pending), late.data)
    BY <1>3, <2>1, DatasOf
  <2>3. f.out[s] \o r.pending = Append(d.out[s] \o t.pending, late)
    BY <1>2, <1>4, <1>5
  <2> QED BY <1>3, <2>2, <2>3
<1>7. Datas(f.out[s] \o r.pending) =
        IF t.data # <<>> /\ t.state = "buffer" THEN Append(Datas(d.out[s] \o t.pending), t.data)
                                              ELSE Datas(d.out[s] \o t.pending)
  BY <1>2, <1>6
<1> QED BY <1>4, <1>7, EjectedIs

LEMMA SendsShape ==
  ASSUME NEW d \in Demuxes, NEW s \in Streams, NEW f, Sends(d, f, s)
  PROVE  Shape(f, s) = Ejected(Shape(d, s))
<1> DEFINE t == d.stream[s]
           r == f.stream[s]
           now == Current(t)
<1>1. t \in StreamRecs /\ t.pending \in Seq(Buffers) /\ d.out[s] \in Seq(Buffers)
  BY DEF Demuxes, StreamRecs
<1>2. /\ r = [Reset(t) EXCEPT !.pending = <<>>]
      /\ f.out[s] = d.out[s] \o t.pending \o <<now>> /\ t.data # <<>> /\ t.state = "buffer"
  BY DEF Sends
<1>3. Reset(t) \in StreamRecs /\ now \in Buffers /\ now.data = t.data
  BY <1>1, ResetIs, CurrentIs
<1>4. /\ r.pad = t.pad /\ r.cc = t.cc /\ r.state = "empty" /\ r.data = <<>> /\ r.expected = 0
      /\ r.pending = <<>>
  <2> HIDE DEF t
  <2> QED BY <1>1, <1>2, <1>3, ResetIs DEF StreamRecs
<1>5. d.out[s] \o t.pending \o <<now>> \o <<>> = Append(d.out[s] \o t.pending, now)
  <2> DEFINE held == d.out[s] \o t.pending
  <2>1. held \in Seq(Buffers)
    BY ShapeType
  <2> HIDE DEF held, now
  <2>2. held \o <<now>> = Append(held, now) /\ held \o <<now>> \in Seq(Buffers)
    BY <1>3, <2>1
  <2>3. (held \o <<now>>) \o <<>> = held \o <<now>>
    BY <2>2
  <2> QED BY <2>2, <2>3 DEF held
<1>6. Datas(f.out[s] \o r.pending) = Append(Datas(d.out[s] \o t.pending), t.data)
  <2>1. d.out[s] \o t.pending \in Seq(Buffers)
    BY ShapeType
  <2>2. Datas(Append(d.out[s] \o t.pending, now)) = Append(Datas(d.out[s] \o t.pending), now.data)
    BY <1>3, <2>1, DatasOf
  <2>3. f.out[s] \o r.pending = Append(d.out[s] \o t.pending, now)
    BY <1>2, <1>4, <1>5
  <2> QED BY <1>3, <2>2, <2>3
<1>7. Datas(f.out[s] \o r.pending) =
        IF t.data # <<>> /\ t.state = "buffer" THEN Append(Datas(d.out[s] \o t.pending), t.data)
                                              ELSE Datas(d.out[s] \o t.pending)
  BY <1>2, <1>6
<1> QED BY <1>4, <1>7, EjectedIs

LEMMA PushShape ==
  ASSUME NEW d \in Demuxes, NEW s \in Streams
  PROVE  LET f == PushPendingData(d, s) IN
         /\ f \in Demuxes /\ Shape(f, s) = Ejected(Shape(d, s))
         /\ \A x \in Streams \ {s} : Shape(f, x) = Shape(d, x)
<1> DEFINE f == PushPendingData(d, s)
           t == d.stream[s]
<1>1. CASE Drops(d, f, s) \/ Waits(d, f, s)
  <2>1. Shape(f, s) = Ejected(Shape(d, s))
    BY <1>1, DropsShape, WaitsShape
  <2>2. f \in Demuxes /\ f.out = d.out /\ \A x \in Streams \ {s} : f.stream[x] = d.stream[x]
    BY <1>1 DEF Drops, Waits, Sets
  <2> QED BY <2>1, <2>2 DEF Shape
<1>2. CASE \E e1, e2 \in Demuxes :
             /\ t.data # <<>> /\ t.state = "buffer"
             /\ IF t.pending_ts THEN Observed(d) /\ Stamps(d, e1) ELSE e1 = d
             /\ IF t.need_newsegment THEN Starts(e1, e2) ELSE e2 = e1
             /\ Sends(e2, f, s)
  <2> HIDE DEF f
  <2>1. PICK e1, e2 \in Demuxes :
             /\ IF t.pending_ts THEN Observed(d) /\ Stamps(d, e1) ELSE e1 = d
             /\ IF t.need_newsegment THEN Starts(e1, e2) ELSE e2 = e1
             /\ Sends(e2, f, s)
    BY <1>2
  <2>2. \A x \in Streams : Shape(e1, x) = Shape(d, x)
    BY <2>1, StampsShape
  <2>3. \A x \in Streams : Shape(e2, x) = Shape(e1, x)
    BY <2>1, StartsShape
  <2>4. Shape(f, s) = Ejected(Shape(e2, s))
    BY <2>1, SendsShape
  <2>5. f \in Demuxes /\ \A x \in Streams \ {s} : f.stream[x] = e2.stream[x] /\ f.out[x] = e2.out[x]
    BY <2>1 DEF Sends
  <2>6. \A x \in Streams \ {s} : Shape(f, x) = Shape(e2, x)
    BY <2>5 DEF Shape
  <2>7. Shape(f, s) = Ejected(Shape(d, s)) /\ \A x \in Streams \ {s} : Shape(f, x) = Shape(d, x)
    BY <2>2, <2>3, <2>4, <2>6
  <2> QED BY <2>5, <2>7 DEF f
<1> QED BY <1>1, <1>2, PushPendingDataIs
-----------------------------------------------------------------------------
(* handle_packet *)

\* What the stream s reads in a header, before it is said what becomes of its timestamp.
Reads(d, e, s, raw) == Sets(d, e, s, [d.stream[s] EXCEPT !.raw = raw, !.pts = PtsToTs(d, raw)])

\* With the buffer that the first packet begins.
Begins(e, f, s, p) ==
  LET pes == plan[s][p.n] IN
  Sets(e, f, s, [e.stream[s] EXCEPT !.expected = IF Bounded(pes.header) THEN pes.length ELSE 0,
                                    !.data = <<<<p.n, p.i>>>>, !.state = "buffer"])

LEMMA ParseIs ==
  ASSUME NEW d \in Demuxes, NEW s \in Streams, d.stream[s].pad, plan[s] \in Plans[s],
         NEW p, p.n \in 1 .. Len(plan[s]), p.i \in Nat
  PROVE  LET f == ParsePesHeader(d, s, p)
             t == d.stream[s]
             pes == plan[s][p.n]
             raw == PtsOf(pes.header)
         IN IF Parse(pes.header, pes.first) # "OK" THEN Sets(d, f, s, [t EXCEPT !.state = "discont"])
            ELSE \E e1, e2 \in Demuxes :
                   /\ raw \in Time /\ Reads(d, e1, s, raw)
                   /\ IF t.pending_ts /\ PtsToTs(d, raw) # None THEN Observed(e1) /\ Stamps(e1, e2)
                      ELSE \E first \in Time : Sets(e1, e2, s, [e1.stream[s] EXCEPT !.first = first])
                   /\ Begins(e2, f, s, p)
<1> DEFINE t == d.stream[s]
           pes == plan[s][p.n]
           raw == PtsOf(pes.header)
           f == ParsePesHeader(d, s, p)
<1>1. t \in StreamRecs /\ PesOK(pes) /\ p.n \in Nat
  BY PlansAre DEF Demuxes
<1>2. CASE Parse(pes.header, pes.first) # "OK"
  <2>1. f = [d EXCEPT !.stream[s].state = "discont"]
    BY <1>2 DEF ParsePesHeader
  <2>2. f = [d EXCEPT !.stream[s] = [t EXCEPT !.state = "discont"]]
    BY <2>1 DEF Demuxes
  <2>3. [t EXCEPT !.state = "discont"] \in StreamRecs
    BY <1>1 DEF StreamRecs
  <2>4. Sets(d, f, s, [t EXCEPT !.state = "discont"])
    BY <2>2, <2>3, SetIs
  <2> QED BY <1>2, <2>4
<1>3. CASE Parse(pes.header, pes.first) = "OK"
  <2> DEFINE pts == PtsToTs(d, raw)
             r == [t EXCEPT !.raw = raw, !.pts = pts]
             read == [d EXCEPT !.stream[s] = r]
             e == IF t.pending_ts /\ pts # None THEN CheckPending(read, s)
                  ELSE IF t.first = None THEN [read EXCEPT !.stream[s].first = pts] ELSE read
             expected == IF Bounded(pes.header) THEN pes.length ELSE 0
             done(u) == [u EXCEPT !.expected = expected, !.data = <<<<p.n, p.i>>>>, !.state = "buffer"]
  <2>1. raw \in Time /\ expected \in Nat /\ pts \in Time
    BY <1>1, PtsToTsType DEF PesOK
  <2>2. r \in StreamRecs /\ r.pending_ts = t.pending_ts /\ r.first = t.first /\ r.pts = pts /\ r.raw = raw
        /\ r.pad = t.pad
    BY <1>1, <2>1 DEF StreamRecs
  <2>3. read \in Demuxes /\ Sets(d, read, s, r) /\ read.stream[s] = r
    BY <2>2, SetIs DEF Sets
  <2>4. f = [e EXCEPT !.stream[s].expected = expected, !.stream[s].data = <<<<p.n, p.i>>>>,
                      !.stream[s].state = "buffer"]
    <3>1. [d EXCEPT !.stream[s].raw = raw, !.stream[s].pts = pts] = read
      BY <1>1 DEF Demuxes
    <3>2. read.stream[s].pending_ts = t.pending_ts /\ read.stream[s].pts = pts /\ read.stream[s].first = t.first
      BY <2>2, <2>3
    <3> DEFINE old == [d EXCEPT !.stream[s].raw = raw, !.stream[s].pts = pts]
               u == old.stream[s]
               x == IF u.pending_ts /\ u.pts # None THEN CheckPending(old, s)
                    ELSE IF u.first = None THEN [old EXCEPT !.stream[s].first = u.pts] ELSE old
    <3>3. f = [x EXCEPT !.stream[s].expected = expected, !.stream[s].data = <<<<p.n, p.i>>>>,
                        !.stream[s].state = "buffer"]
      BY <1>3 DEF ParsePesHeader
    <3>4. x = e
      <4>1. old = read
        BY <3>1
      <4> HIDE DEF old, read, pts, raw
      <4>2. u.pending_ts = t.pending_ts /\ u.pts = pts /\ u.first = t.first
        BY <3>2, <4>1
      <4> HIDE DEF u, t
      <4> QED BY <4>1, <4>2
    <3> HIDE DEF x, e, expected
    <3> QED BY <3>3, <3>4
  <2> HIDE DEF read
  <2>5. IF t.pending_ts /\ pts # None THEN Observed(read) /\ Stamps(read, e)
        ELSE \E first \in Time : Sets(read, e, s, [read.stream[s] EXCEPT !.first = first])
    <3>1. CASE t.pending_ts /\ pts # None
      <4>1. raw # None
        BY <2>1, <3>1, PtsToTsType
      <4>2. Observed(read)
        BY <2>2, <2>3, <3>1, <4>1 DEF Observed, Present
      <4> QED BY <2>3, <3>1, <4>2, CheckPendingIs
    <3>2. CASE ~ (t.pending_ts /\ pts # None) /\ t.first = None
      <4>1. e = [read EXCEPT !.stream[s].first = pts]
        BY <3>2
      <4>2. e = [read EXCEPT !.stream[s] = [r EXCEPT !.first = pts]]
        BY <2>3, <4>1 DEF Demuxes
      <4>3. [r EXCEPT !.first = pts] \in StreamRecs
        BY <2>1, <2>2 DEF StreamRecs
      <4>4. Sets(read, e, s, [r EXCEPT !.first = pts])
        BY <2>3, <4>2, <4>3, SetIs
      <4> QED BY <2>1, <2>3, <3>2, <4>4
    <3>3. CASE ~ (t.pending_ts /\ pts # None) /\ t.first # None
      <4>1. [r EXCEPT !.first = t.first] = r /\ t.first \in Time
        BY <1>1, <2>2 DEF StreamRecs
      <4>2. Sets(read, e, s, r)
        BY <2>3, <3>3 DEF Sets
      <4> QED BY <2>3, <3>3, <4>1, <4>2
    <3> QED BY <3>1, <3>2, <3>3
  <2>6. e \in Demuxes
    BY <2>5 DEF Stamps, Sets
  <2> HIDE DEF e
  <2>7. Sets(e, f, s, done(e.stream[s]))
    <3>1. f = [e EXCEPT !.stream[s] = done(e.stream[s])]
      <4> DEFINE data == <<<<p.n, p.i>>>>
      <4>1. f = [e EXCEPT !.stream[s].expected = expected, !.stream[s].data = data,
                          !.stream[s].state = "buffer"]
        BY <2>4
      <4>2. e.stream[s] \in StreamRecs
        BY <2>6 DEF Demuxes
      <4> HIDE DEF data, expected, f
      <4>3. f.stream[s] = [e.stream[s] EXCEPT !.expected = expected, !.data = data, !.state = "buffer"]
        BY <2>6, <4>1, <4>2 DEF Demuxes, StreamRecs
      <4>4. f = [e EXCEPT !.stream = [e.stream EXCEPT ![s] = f.stream[s]]]
        BY <2>6, <4>1 DEF Demuxes
      <4>5. f = [e EXCEPT !.stream[s] = f.stream[s]]
        BY <4>4
      <4> QED BY <4>3, <4>5 DEF data
    <3>2. <<<<p.n, p.i>>>> \in Data
      BY <1>1 DEF Data
    <3>3. e.stream[s] \in StreamRecs
      BY <2>6 DEF Demuxes
    <3> HIDE DEF expected
    <3>4. done(e.stream[s]) \in StreamRecs
      BY <2>1, <3>2, <3>3 DEF StreamRecs
    <3> QED BY <2>6, <3>1, <3>4, SetIs
  <2>8. Begins(e, f, s, p) /\ Reads(d, read, s, raw)
    BY <2>3, <2>7 DEF Begins, Reads
  <2> QED BY <1>3, <2>1, <2>3, <2>5, <2>6, <2>8
<1> QED BY <1>2, <1>3

Continues(cc, p) == cc = None \/ p.cc = (cc + 1) % (MaxCC + 1)

\* What queue_data does to the shape of a stream.
Queued(h, s, p) ==
  LET pes == plan[s][p.n] IN
  IF h.state = "empty" /\ p.i = 1
    THEN IF Parse(pes.header, pes.first) = "OK"
         THEN [pad |-> h.pad, state |-> "buffer", cc |-> p.cc, data |-> <<<<p.n, p.i>>>>,
               expected |-> IF Bounded(pes.header) THEN pes.length ELSE 0, held |-> h.held]
         ELSE [pad |-> h.pad, state |-> "discont", cc |-> p.cc, data |-> h.data,
               expected |-> h.expected, held |-> h.held]
  ELSE IF h.state = "buffer" /\ Continues(h.cc, p)
    THEN [pad |-> h.pad, state |-> "buffer", cc |-> p.cc, data |-> Append(h.data, <<p.n, p.i>>),
          expected |-> h.expected, held |-> h.held]
  ELSE [pad |-> h.pad, state |-> "discont", cc |-> None, data |-> <<>>,
        expected |-> h.expected, held |-> h.held]

\* What of queue_data is not the header.
Joins(d, f, s, p) ==
  LET t == d.stream[s] IN
  IF t.state = "buffer" /\ Continues(t.cc, p)
  THEN Sets(d, f, s, [t EXCEPT !.cc = p.cc, !.data = Append(t.data, <<p.n, p.i>>)])
  ELSE Sets(d, f, s, [t EXCEPT !.state = "discont", !.cc = None, !.data = <<>>])

Opens(d, e, s, p) == Sets(d, e, s, [d.stream[s] EXCEPT !.state = "header", !.cc = p.cc])

\* A packet that the demuxer can get on s.
IsPacket(s, p) ==
  plan[s] \in Plans[s] /\ p.n \in 1 .. Len(plan[s]) /\ p.i \in Nat \ {0} /\ p.cc \in 0 .. MaxCC

LEMMA QueueIs ==
  ASSUME NEW d \in Demuxes, NEW s \in Streams, NEW p, IsPacket(s, p), d.stream[s].state # "header"
  PROVE  LET f == QueueData(d, s, p)
             t == d.stream[s]
         IN IF t.state = "empty" /\ p.i = 1
            THEN \E e \in Demuxes : Opens(d, e, s, p) /\ f = ParsePesHeader(e, s, p)
            ELSE Joins(d, f, s, p)
<1> DEFINE t == d.stream[s]
           f == QueueData(d, s, p)
           u == Started([Checked(t, p) EXCEPT !.cc = p.cc], p)
<1>1. t \in StreamRecs /\ t.state \in {"empty", "buffer", "discont"}
  BY DEF Demuxes, StreamRecs
<1>2. p.n \in Nat /\ p.i \in Nat /\ p.cc \in 0 .. MaxCC
  BY PlansAre DEF IsPacket
<1>3. CASE t.state = "empty" /\ p.i = 1
  <2> DEFINE r == [t EXCEPT !.state = "header", !.cc = p.cc]
  <2>1. u = r
    BY <1>1, <1>3 DEF Started, Checked, StreamRecs
  <2>2. r \in StreamRecs /\ r.state = "header"
    BY <1>1, <1>2 DEF StreamRecs
  <2> DEFINE e == [d EXCEPT !.stream[s] = r]
  <2>3. f = ParsePesHeader(e, s, p)
    BY <2>1, <2>2 DEF QueueData
  <2>4. Sets(d, e, s, r) /\ e \in Demuxes
    BY <2>2, SetIs DEF Sets
  <2> QED BY <1>3, <2>3, <2>4 DEF Opens
<1>4. CASE t.state = "buffer" /\ Continues(t.cc, p)
  <2> DEFINE r == [t EXCEPT !.cc = p.cc, !.data = Append(t.data, <<p.n, p.i>>)]
  <2>1. u = [t EXCEPT !.cc = p.cc] /\ u.state = "buffer" /\ u.data = t.data
    BY <1>1, <1>2, <1>4 DEF Started, Checked, Continues, StreamRecs
  <2>2. f = [d EXCEPT !.stream[s] = [u EXCEPT !.data = Append(u.data, <<p.n, p.i>>)]]
    BY <2>1 DEF QueueData
  <2>3. [u EXCEPT !.data = Append(u.data, <<p.n, p.i>>)] = r
    BY <1>1, <2>1 DEF StreamRecs
  <2>4. r \in StreamRecs
    <3>1. Append(t.data, <<p.n, p.i>>) \in Data
      BY <1>1, <1>2 DEF StreamRecs, Data
    <3> QED BY <1>1, <1>2, <3>1 DEF StreamRecs
  <2>5. f = [d EXCEPT !.stream[s] = r]
    <3> HIDE DEF f, u, r
    <3> QED BY <2>2, <2>3
  <2>6. Sets(d, f, s, r)
    <3> HIDE DEF f, r
    <3> QED BY <2>4, <2>5, SetIs
  <2> QED BY <1>4, <2>6 DEF Joins
<1>5. CASE ~ (t.state = "empty" /\ p.i = 1) /\ ~ (t.state = "buffer" /\ Continues(t.cc, p))
  <2> DEFINE r == [t EXCEPT !.state = "discont", !.cc = None, !.data = <<>>]
  <2>1. u = [t EXCEPT !.state = "discont", !.cc = p.cc]
    <3>1. CASE t.state = "empty"
      BY <1>1, <1>5, <3>1 DEF Started, Checked, StreamRecs
    <3>2. CASE t.state = "buffer"
      BY <1>1, <1>5, <3>2 DEF Started, Checked, Continues, StreamRecs
    <3>3. CASE t.state = "discont"
      BY <1>1, <1>5, <3>3 DEF Started, Checked, StreamRecs
    <3> QED BY <1>1, <3>1, <3>2, <3>3
  <2>2. u.state = "discont"
    BY <1>1, <2>1 DEF StreamRecs
  <2>3. f = [d EXCEPT !.stream[s] = [u EXCEPT !.data = <<>>, !.cc = None]]
    BY <2>2 DEF QueueData
  <2>4. [u EXCEPT !.data = <<>>, !.cc = None] = r
    BY <1>1, <2>1 DEF StreamRecs
  <2>5. r \in StreamRecs
    <3>1. <<>> \in Data
      BY DEF Data
    <3> QED BY <1>1, <3>1 DEF StreamRecs
  <2>6. Sets(d, f, s, r)
    BY <2>3, <2>4, <2>5, SetIs
  <2> QED BY <1>5, <2>6 DEF Joins
<1> QED BY <1>3, <1>4, <1>5

\* A change of one stream that leaves its pending buffers.
LEMMA SetsShape ==
  ASSUME NEW d \in Demuxes, NEW s \in Streams, NEW f, NEW r, Sets(d, f, s, r),
         r.pending = d.stream[s].pending
  PROVE  /\ f \in Demuxes /\ \A x \in Streams \ {s} : Shape(f, x) = Shape(d, x)
         /\ Shape(f, s) = [pad |-> r.pad, state |-> r.state, cc |-> r.cc, data |-> r.data,
                           expected |-> r.expected, held |-> Shape(d, s).held]
BY DEF Sets, Shape

LEMMA ParseShape ==
  ASSUME NEW d \in Demuxes, NEW s \in Streams, NEW e \in Demuxes, NEW p, IsPacket(s, p),
         d.stream[s].pad, d.stream[s].state = "empty", p.i = 1, Opens(d, e, s, p)
  PROVE  LET f == ParsePesHeader(e, s, p) IN
         /\ f \in Demuxes /\ Shape(f, s) = Queued(Shape(d, s), s, p)
         /\ \A x \in Streams \ {s} : Shape(f, x) = Shape(d, x)
<1> DEFINE t == d.stream[s]
           u == e.stream[s]
           pes == plan[s][p.n]
           raw == PtsOf(pes.header)
           f == ParsePesHeader(e, s, p)
<1>1. t \in StreamRecs /\ u \in StreamRecs
  BY DEF Demuxes
<1>2. u = [t EXCEPT !.state = "header", !.cc = p.cc]
  BY DEF Opens, Sets
<1>3. /\ u.pad = t.pad /\ u.cc = p.cc /\ u.data = t.data /\ u.expected = t.expected
      /\ u.pending = t.pending
  BY <1>1, <1>2 DEF StreamRecs
<1>4. Shape(e, s).held = Shape(d, s).held /\ \A x \in Streams \ {s} : Shape(e, x) = Shape(d, x)
  <2>1. Sets(d, e, s, u) /\ u.pending = d.stream[s].pending
    BY <1>2, <1>3 DEF Opens
  <2>2. /\ \A x \in Streams \ {s} : Shape(e, x) = Shape(d, x)
        /\ Shape(e, s) = [pad |-> u.pad, state |-> u.state, cc |-> u.cc, data |-> u.data,
                          expected |-> u.expected, held |-> Shape(d, s).held]
    BY <2>1, SetsShape
  <2> QED BY <2>2
<1> DEFINE h == Shape(d, s)
<1>5. h.pad = t.pad /\ h.state = "empty" /\ h.data = t.data /\ h.expected = t.expected
  BY DEF Shape
<1>6. CASE Parse(pes.header, pes.first) # "OK"
  <2> DEFINE r == [u EXCEPT !.state = "discont"]
  <2>1. Sets(e, f, s, r)
    BY <1>3, <1>6, ParseIs DEF IsPacket
  <2>2. /\ r.pending = u.pending /\ r.pad = u.pad /\ r.state = "discont" /\ r.cc = u.cc
        /\ r.data = u.data /\ r.expected = u.expected
    BY <1>1 DEF StreamRecs
  <2> HIDE DEF r, f, u
  <2>3. /\ f \in Demuxes /\ \A x \in Streams \ {s} : Shape(f, x) = Shape(e, x)
        /\ Shape(f, s) = [pad |-> r.pad, state |-> r.state, cc |-> r.cc, data |-> r.data,
                          expected |-> r.expected, held |-> Shape(e, s).held]
    BY <2>1, <2>2, SetsShape DEF u
  <2> HIDE DEF h, t
  <2>4. Shape(f, s) = Queued(h, s, p)
    BY <1>3, <1>4, <1>5, <1>6, <2>2, <2>3 DEF Queued, h
  <2> QED BY <1>4, <2>3, <2>4 DEF h, f
<1>7. CASE Parse(pes.header, pes.first) = "OK"
  <2>1. PICK e1, e2 \in Demuxes :
          /\ raw \in Time /\ Reads(e, e1, s, raw)
          /\ IF u.pending_ts /\ PtsToTs(e, raw) # None THEN Observed(e1) /\ Stamps(e1, e2)
             ELSE \E first \in Time : Sets(e1, e2, s, [e1.stream[s] EXCEPT !.first = first])
          /\ Begins(e2, f, s, p)
    BY <1>3, <1>7, ParseIs DEF IsPacket
  <2> HIDE DEF f, u
  <2>2. /\ Shape(e1, s).held = Shape(e, s).held /\ \A x \in Streams \ {s} : Shape(e1, x) = Shape(e, x)
        /\ e1.stream[s].pad = u.pad
    <3> DEFINE r == [u EXCEPT !.raw = raw, !.pts = PtsToTs(e, raw)]
    <3>1. Sets(e, e1, s, r)
      BY <2>1 DEF Reads, u
    <3>2. r.pending = u.pending /\ r.pad = u.pad
      BY <1>1 DEF StreamRecs
    <3> HIDE DEF r
    <3> QED BY <3>1, <3>2, SetsShape DEF u, Sets
  <2>3. /\ Shape(e2, s).held = Shape(e1, s).held /\ \A x \in Streams \ {s} : Shape(e2, x) = Shape(e1, x)
        /\ e2.stream[s].pad = u.pad
    <3>1. CASE Stamps(e1, e2)
      <4>1. \A x \in Streams : Shape(e2, x) = Shape(e1, x)
        BY <3>1, StampsShape
      <4>2. e2.stream[s].pad = e1.stream[s].pad
        BY <3>1 DEF Stamps, Stamping
      <4> QED BY <2>2, <4>1, <4>2
    <3>2. CASE \E first \in Time : Sets(e1, e2, s, [e1.stream[s] EXCEPT !.first = first])
      <4>1. PICK first \in Time : Sets(e1, e2, s, [e1.stream[s] EXCEPT !.first = first])
        BY <3>2
      <4> DEFINE r == [e1.stream[s] EXCEPT !.first = first]
      <4>2. r.pending = e1.stream[s].pending /\ r.pad = e1.stream[s].pad
        BY DEF Demuxes, StreamRecs
      <4>3. Sets(e1, e2, s, r)
        BY <4>1
      <4> HIDE DEF r
      <4> QED BY <2>2, <4>2, <4>3, SetsShape DEF Sets
    <3> QED BY <2>1, <3>1, <3>2
  <2> DEFINE data == <<<<p.n, p.i>>>>
             expected == IF Bounded(pes.header) THEN pes.length ELSE 0
             r == [e2.stream[s] EXCEPT !.expected = expected, !.data = data, !.state = "buffer"]
  <2>4. Sets(e2, f, s, r)
    BY <2>1 DEF Begins
  <2> HIDE DEF data, expected
  <2>5. /\ r.pending = e2.stream[s].pending /\ r.pad = e2.stream[s].pad /\ r.state = "buffer"
        /\ r.cc = e2.stream[s].cc /\ r.data = data /\ r.expected = expected
    <3>1. e2.stream[s] \in StreamRecs
      BY DEF Demuxes
    <3> QED BY <3>1 DEF StreamRecs
  <2> HIDE DEF r
  <2>6. /\ f \in Demuxes /\ \A x \in Streams \ {s} : Shape(f, x) = Shape(e2, x)
        /\ Shape(f, s) = [pad |-> r.pad, state |-> r.state, cc |-> r.cc, data |-> r.data,
                          expected |-> r.expected, held |-> Shape(e2, s).held]
    BY <2>4, <2>5, SetsShape
  <2>7. e2.stream[s].cc = p.cc
    <3>1. e1.stream[s].cc = u.cc
      BY <1>1, <2>1 DEF Reads, Sets, StreamRecs, u
    <3>2. e2.stream[s].cc = e1.stream[s].cc
      <4>1. CASE Stamps(e1, e2)
        <5>1. e1.stream[s].pad
          BY <1>3, <2>2
        <5> QED BY <4>1, <5>1 DEF Stamps, Stamping
      <4>2. CASE \E first \in Time : Sets(e1, e2, s, [e1.stream[s] EXCEPT !.first = first])
        <5>1. e1.stream[s] \in StreamRecs
          BY DEF Demuxes
        <5> QED BY <4>2, <5>1 DEF Sets, StreamRecs
      <4> QED BY <2>1, <4>1, <4>2
    <3> QED BY <1>3, <3>1, <3>2
  <2> HIDE DEF h, t
  <2>8. Shape(f, s) = Queued(h, s, p)
    BY <1>3, <1>4, <1>5, <1>7, <2>2, <2>3, <2>5, <2>6, <2>7 DEF Queued, h, data, expected
  <2> QED BY <1>4, <2>2, <2>3, <2>6, <2>8 DEF h, f
<1> QED BY <1>6, <1>7

\* What handle_packet does to the shape of a stream.
Handled(h, s, p) ==
  LET g == Queued(IF p.i = 1 THEN Ejected(h) ELSE h, s, p)
  IN IF g.expected # 0 /\ Len(g.data) = g.expected THEN Ejected(g) ELSE g

LEMMA QueueShape ==
  ASSUME NEW d \in Demuxes, NEW s \in Streams, NEW p, IsPacket(s, p),
         d.stream[s].pad, d.stream[s].state # "header"
  PROVE  LET f == QueueData(d, s, p) IN
         /\ f \in Demuxes /\ Shape(f, s) = Queued(Shape(d, s), s, p)
         /\ \A x \in Streams \ {s} : Shape(f, x) = Shape(d, x)
<1> DEFINE t == d.stream[s]
           f == QueueData(d, s, p)
           h == Shape(d, s)
<1>1. t \in StreamRecs
  BY DEF Demuxes
<1>2. h.pad = t.pad /\ h.state = t.state /\ h.cc = t.cc /\ h.data = t.data /\ h.expected = t.expected
  BY DEF Shape
<1>3. CASE t.state = "empty" /\ p.i = 1
  <2> HIDE DEF f
  <2>1. PICK e \in Demuxes : Opens(d, e, s, p) /\ f = ParsePesHeader(e, s, p)
    BY <1>3, QueueIs DEF f
  <2>2. /\ f \in Demuxes /\ Shape(f, s) = Queued(Shape(d, s), s, p)
        /\ \A x \in Streams \ {s} : Shape(f, x) = Shape(d, x)
    BY <1>3, <2>1, ParseShape
  <2> QED BY <2>2 DEF f
<1>4. CASE ~ (t.state = "empty" /\ p.i = 1)
  <2>1. Joins(d, f, s, p)
    BY <1>4, QueueIs
  <2> HIDE DEF f, h
  <2>2. CASE t.state = "buffer" /\ Continues(t.cc, p)
    <3> DEFINE data == Append(t.data, <<p.n, p.i>>)
               r == [t EXCEPT !.cc = p.cc, !.data = data]
    <3>1. Sets(d, f, s, r)
      BY <2>1, <2>2 DEF Joins
    <3> HIDE DEF data
    <3>2. /\ r.pending = t.pending /\ r.pad = t.pad /\ r.state = "buffer" /\ r.cc = p.cc /\ r.data = data
          /\ r.expected = t.expected
      BY <1>1, <2>2 DEF StreamRecs
    <3> HIDE DEF r
    <3>3. /\ f \in Demuxes /\ \A x \in Streams \ {s} : Shape(f, x) = Shape(d, x)
          /\ Shape(f, s) = [pad |-> r.pad, state |-> r.state, cc |-> r.cc, data |-> r.data,
                            expected |-> r.expected, held |-> h.held]
      BY <3>1, <3>2, SetsShape DEF h
    <3> HIDE DEF t
    <3>4. Shape(f, s) = Queued(h, s, p)
      BY <1>2, <2>2, <3>2, <3>3 DEF Queued, data
    <3> QED BY <3>3, <3>4 DEF f, h
  <2>3. CASE ~ (t.state = "buffer" /\ Continues(t.cc, p))
    <3> DEFINE r == [t EXCEPT !.state = "discont", !.cc = None, !.data = <<>>]
    <3>1. Sets(d, f, s, r)
      BY <2>1, <2>3 DEF Joins
    <3>2. /\ r.pending = t.pending /\ r.pad = t.pad /\ r.state = "discont" /\ r.cc = None
          /\ r.data = <<>> /\ r.expected = t.expected
      BY <1>1 DEF StreamRecs
    <3> HIDE DEF r
    <3>3. /\ f \in Demuxes /\ \A x \in Streams \ {s} : Shape(f, x) = Shape(d, x)
          /\ Shape(f, s) = [pad |-> r.pad, state |-> r.state, cc |-> r.cc, data |-> r.data,
                            expected |-> r.expected, held |-> h.held]
      BY <3>1, <3>2, SetsShape DEF h
    <3> HIDE DEF t
    <3>4. Shape(f, s) = Queued(h, s, p)
      BY <1>2, <1>4, <2>3, <3>2, <3>3 DEF Queued
    <3> QED BY <3>3, <3>4 DEF f, h
  <2> QED BY <2>2, <2>3
<1> QED BY <1>3, <1>4

LEMMA HandleShape ==
  ASSUME NEW d \in Demuxes, NEW s \in Streams, NEW p, IsPacket(s, p),
         d.stream[s].pad, d.stream[s].state # "header"
  PROVE  LET f == HandlePacket(d, s, p) IN
         /\ f \in Demuxes /\ Shape(f, s) = Handled(Shape(d, s), s, p)
         /\ \A x \in Streams \ {s} : Shape(f, x) = Shape(d, x)
<1> DEFINE a == IF p.i = 1 THEN PushPendingData(d, s) ELSE d
           ha == IF p.i = 1 THEN Ejected(Shape(d, s)) ELSE Shape(d, s)
           e == QueueData(a, s, p)
           f == HandlePacket(d, s, p)
<1>1. /\ a \in Demuxes /\ Shape(a, s) = ha /\ \A x \in Streams \ {s} : Shape(a, x) = Shape(d, x)
  BY PushShape
<1>2. a.stream[s].pad /\ a.stream[s].state # "header"
  <2>1. Shape(a, s).pad = a.stream[s].pad /\ Shape(a, s).state = a.stream[s].state
    BY DEF Shape
  <2>2. Shape(d, s).pad /\ Shape(d, s).state # "header"
    BY DEF Shape
  <2>3. ha.pad /\ ha.state # "header"
    BY <2>2 DEF Ejected
  <2> HIDE DEF a, ha
  <2> QED BY <1>1, <2>1, <2>3
<1> HIDE DEF a
<1>3. /\ e \in Demuxes /\ Shape(e, s) = Queued(ha, s, p)
      /\ \A x \in Streams \ {s} : Shape(e, x) = Shape(a, x)
  BY <1>1, <1>2, QueueShape
<1>4. f = LET t == e.stream[s] IN
          IF t.expected # 0 /\ Len(t.data) = t.expected THEN PushPendingData(e, s) ELSE e
  BY DEF HandlePacket, a
<1>5. Shape(e, s).expected = e.stream[s].expected /\ Shape(e, s).data = e.stream[s].data
  BY DEF Shape
<1> DEFINE g == Queued(ha, s, p)
<1>6. Handled(Shape(d, s), s, p) = IF g.expected # 0 /\ Len(g.data) = g.expected THEN Ejected(g) ELSE g
  BY DEF Handled
<1> HIDE DEF e, f, g, ha
<1>7. /\ f \in Demuxes /\ \A x \in Streams \ {s} : Shape(f, x) = Shape(e, x)
      /\ Shape(f, s) = IF g.expected # 0 /\ Len(g.data) = g.expected THEN Ejected(g) ELSE g
  <2>1. e.stream[s].expected = g.expected /\ e.stream[s].data = g.data /\ Shape(e, s) = g
    BY <1>3, <1>5 DEF g
  <2>2. CASE g.expected # 0 /\ Len(g.data) = g.expected
    <3>1. f = PushPendingData(e, s)
      BY <1>4, <2>1, <2>2
    <3> QED BY <1>3, <2>1, <2>2, <3>1, PushShape
  <2>3. CASE ~ (g.expected # 0 /\ Len(g.data) = g.expected)
    <3>1. f = e
      BY <1>4, <2>1, <2>3
    <3> QED BY <1>3, <2>1, <2>3, <3>1
  <2> QED BY <2>2, <2>3
<1>8. /\ f \in Demuxes /\ Shape(f, s) = Handled(Shape(d, s), s, p)
      /\ \A x \in Streams \ {s} : Shape(f, x) = Shape(d, x)
  BY <1>1, <1>3, <1>6, <1>7
<1> QED BY <1>8 DEF f
-----------------------------------------------------------------------------
(* Draining and flushing *)

\* u[i] is d with its first i streams drained.
Drains(d, u) ==
  u = [i \in 0 .. Len(StreamList) |->
         IF i = 0 THEN d
         ELSE IF StreamList[i] \in Present(d) THEN PushPendingData(u[i - 1], StreamList[i]) ELSE u[i - 1]]

LEMMA ListIs ==
  /\ Len(StreamList) \in Nat
  /\ \A i \in 1 .. Len(StreamList) : StreamList[i] \in Streams
  /\ \A s \in Streams : \E i \in 1 .. Len(StreamList) : StreamList[i] = s
<1>1. Len(StreamList) \in Nat /\ DOMAIN StreamList = 1 .. Len(StreamList)
  BY DemuxAssumption, LenProperties
<1> QED BY <1>1 DEF Streams, Range

\* There is such a function, so the recursive definition of gst_ts_demux_drain denotes one.
LEMMA DrainExists ==
  ASSUME NEW d
  PROVE  \E u : Drains(d, u)
<1> DEFINE n == Len(StreamList)
           Next1(i, v) == IF StreamList[i] \in Present(d) THEN PushPendingData(v, StreamList[i]) ELSE v
           Upto(k, u) == u = [i \in 0 .. k |-> IF i = 0 THEN d ELSE Next1(i, u[i - 1])]
           Bad == {k \in 0 .. n : ~ \E u : Upto(k, u)}
<1>1. n \in Nat
  BY ListIs
<1> HIDE DEF n, Next1
<1>2. SUFFICES ASSUME Bad # {} PROVE FALSE
  <2>1. n \in 0 .. n
    BY <1>1
  <2>2. \E u : Upto(n, u)
    BY <1>2, <2>1
  <2> QED BY <2>2 DEF Drains, n, Next1
<1> DEFINE k == Min(Bad)
<1>3. k \in Bad /\ \A j \in Bad : k <= j
  <2>1. Bad \in SUBSET Nat
    BY <1>1
  <2> HIDE DEF Bad
  <2> QED BY <1>2, <2>1, LeastExists
<1> HIDE DEF k
<1>4. k \in 0 .. n /\ ~ \E u : Upto(k, u)
  BY <1>3
<1>5. k # 0
  <2>1. ASSUME k = 0 PROVE Upto(k, [i \in 0 .. k |-> d])
    BY <2>1
  <2> QED BY <1>4, <2>1
<1>6. PICK u : Upto(k - 1, u)
  <2>1. k - 1 \in 0 .. n /\ ~ (k <= k - 1)
    BY <1>1, <1>4, <1>5
  <2>2. k - 1 \notin Bad
    BY <1>3, <2>1
  <2> QED BY <2>1, <2>2
<1>7. Upto(k, [i \in 0 .. k |-> IF i = 0 THEN d ELSE Next1(i, u[i - 1])])
  <2> DEFINE w == [i \in 0 .. k |-> IF i = 0 THEN d ELSE Next1(i, u[i - 1])]
  <2>1. ASSUME NEW i \in 0 .. k - 1 PROVE u[i] = IF i = 0 THEN d ELSE Next1(i, u[i - 1])
    BY <1>6
  <2>2. ASSUME NEW i \in 0 .. k, i # 0 PROVE w[i - 1] = u[i - 1]
    <3>1. i - 1 \in 0 .. k - 1 /\ i - 1 \in 0 .. k
      BY <1>1, <1>4, <2>2
    <3> QED BY <2>1, <3>1
  <2>3. \A i \in 0 .. k : w[i] = IF i = 0 THEN d ELSE Next1(i, w[i - 1])
    BY <2>2
  <2> QED BY <2>3
<1> QED BY <1>4, <1>7

LEMMA DrainedIs ==
  ASSUME NEW d
  PROVE  \E u : Drains(d, u) /\ Drained(d) = u[Len(StreamList)]
<1> DEFINE u == CHOOSE u : Drains(d, u)
<1>1. Drains(d, u)
  BY DrainExists
<1>2. Drained(d) = u[Len(StreamList)]
  BY DEF Drained, Drains
<1> QED BY <1>1, <1>2
-----------------------------------------------------------------------------
(* The continuity counter *)

Follow(cc) == IF cc = MaxCC THEN 0 ELSE cc + 1

\* How many packets cc is behind now, if not more than the counter can tell.
Behind(cc, now) == IF cc <= now THEN now - cc ELSE now - cc + MaxCC + 1

LEMMA Following1 ==
  ASSUME NEW cc \in 0 .. MaxCC
  PROVE  (cc + 1) % (MaxCC + 1) = Follow(cc) /\ Follow(cc) \in 0 .. MaxCC /\ Follow(cc) # cc
<1> DEFINE n == MaxCC + 1
<1>1. MaxCC \in Nat /\ n \in Nat /\ n > 1 /\ cc + 1 \in 1 .. n
  BY Numbers
<1>2. (cc + 1) % n = IF cc + 1 = n THEN 0 ELSE cc + 1
  <2> HIDE DEF n
  <2> QED BY <1>1
<1> QED BY <1>1, <1>2 DEF Follow

LEMMA Distance ==
  ASSUME NEW a \in 0 .. MaxCC, NEW b \in 0 .. MaxCC
  PROVE  /\ Behind(a, b) \in 0 .. MaxCC
         /\ Behind(a, b) = 0 <=> a = b
         /\ Follow(a) = Follow(b) => a = b
         /\ Behind(a, b) < MaxCC => Behind(a, Follow(b)) = Behind(a, b) + 1
BY Numbers DEF Behind, Follow
-----------------------------------------------------------------------------
(* What a stream gathers follows what is sent.  src is the last packet     *)
(* that was sent on it; twice are the PES packets whose first packet came  *)
(* again; n bounds the faults until now.                                   *)

IsFront(x) == Len(x) >= 1 /\ \A j \in 1 .. Len(x) : x[j] = <<x[1][1], j>>

\* Fronts of PES packets up to the number top, in their order.
Ordered(q, twice, top) ==
  /\ \A k \in 1 .. Len(q) : IsFront(q[k]) /\ q[k][1][1] <= top
  /\ \A j, k \in 1 .. Len(q) :
       j < k => q[j][1][1] < q[k][1][1] \/ (q[j][1][1] = q[k][1][1] /\ q[j][1][1] \in twice)

\* The last PES packet that may be before the one with the number c.
Before(c, twice) == IF c \in twice THEN c ELSE c - 1

\* A buffer is as far behind what was sent as its counter is.  If that is one packet then either
\* that packet goes on with it, or it begins another one.
Gathers(h, src, twice, n) ==
  LET c == h.data[1][1] IN
  /\ IsFront(h.data) /\ c <= src.n /\ Ordered(h.held, twice, Before(c, twice))
  /\ h.cc \in 0 .. MaxCC /\ Behind(h.cc, src.cc) <= n
  /\ src.cc = h.cc => src.n = c /\ src.i = Len(h.data)
  /\ src.cc = Follow(h.cc) => src.i = 1 \/ (src.n = c /\ src.i = Len(h.data) + 1)

Line(h, src, twice, n) ==
  /\ h.state # "header" /\ (h.state # "buffer" => h.data = <<>>)
  /\ Ordered(h.held, twice, src.n)
  /\ ~ h.pad => h.state = "empty" /\ h.held = <<>>
  /\ src.i = 0 => h.held = <<>> /\ h.state # "buffer"
  /\ h.state = "buffer" => Gathers(h, src, twice, n)

\* src is a packet of the plan p, or none has been sent.
Sent(src, p) ==
  /\ src.n \in 1 .. Len(p) /\ src.i \in 0 .. p[src.n].length /\ src.cc \in 0 .. MaxCC
  /\ src.i = 0 => src.n = 1

Follows(src, e, p) ==
  /\ e.cc = Follow(src.cc)
  /\ \/ src.i < p[src.n].length /\ e.n = src.n /\ e.i = src.i + 1
     \/ src.i = p[src.n].length /\ src.n < Len(p) /\ e.n = src.n + 1 /\ e.i = 1

LEMMA FollowsSent ==
  ASSUME NEW s \in Streams, NEW p \in Plans[s], NEW src, Sent(src, p), NEW e, Follows(src, e, p)
  PROVE  Sent(e, p) /\ e.i >= 1 /\ src.n \in Nat /\ src.i \in Nat
<1>1. Len(p) \in Nat /\ \A i \in 1 .. Len(p) : p[i].length \in Nat \ {0}
  BY PlansAre DEF PesOK
<1>2. Follow(src.cc) \in 0 .. MaxCC
  BY Following1 DEF Sent
<1>3. /\ src.n \in 1 .. Len(p) /\ src.n \in Nat /\ src.i \in 0 .. p[src.n].length /\ src.i \in Nat
      /\ p[src.n].length \in Nat \ {0}
  BY <1>1 DEF Sent
<1>4. CASE src.i < p[src.n].length /\ e.n = src.n /\ e.i = src.i + 1
  BY <1>2, <1>3, <1>4 DEF Sent, Follows
<1>5. CASE src.i = p[src.n].length /\ src.n < Len(p) /\ e.n = src.n + 1 /\ e.i = 1
  <2>1. e.n \in 1 .. Len(p)
    BY <1>1, <1>3, <1>5
  <2>2. p[e.n].length \in Nat \ {0}
    BY <1>1, <2>1
  <2> QED BY <1>2, <1>3, <1>5, <2>1, <2>2 DEF Sent, Follows
<1> QED BY <1>3, <1>4, <1>5 DEF Follows

LEMMA NumberType ==
  ASSUME NEW x \in Data, IsFront(x)
  PROVE  x[1][1] \in Nat
BY DEF IsFront, Data

LEMMA BeforeIs ==
  ASSUME NEW c \in Nat, NEW twice
  PROVE  Before(c, twice) \in Int /\ Before(c, twice) <= c /\ c - 1 <= Before(c, twice)
<1>1. c \in twice => Before(c, twice) = c
  BY DEF Before
<1>2. c \notin twice => Before(c, twice) = c - 1
  BY DEF Before
<1> HIDE DEF Before
<1> QED BY <1>1, <1>2

\* Appending a later front, or another of one whose first packet came again.
LEMMA OrderedAppend ==
  ASSUME NEW q \in Seq(Data), NEW x \in Data, IsFront(x), NEW twice,
         Ordered(q, twice, Before(x[1][1], twice)), NEW top \in Nat, x[1][1] <= top
  PROVE  Append(q, x) \in Seq(Data) /\ Ordered(Append(q, x), twice, top)
<1> DEFINE w == Append(q, x)
           m == Len(q)
<1>1. w \in Seq(Data) /\ Len(w) = m + 1 /\ w[m + 1] = x /\ (\A k \in 1 .. m : w[k] = q[k]) /\ m \in Nat
  BY AppendProperties, LenProperties
<1>2. x[1][1] \in Nat
  BY NumberType
<1>3. ASSUME NEW k \in 1 .. m PROVE q[k][1][1] \in Nat
  BY NumberType DEF Ordered
<1> HIDE DEF w
<1>4. \A k \in 1 .. m + 1 : k \in 1 .. m \/ k = m + 1
  BY <1>1
<1>5. ASSUME NEW k \in 1 .. m
      PROVE  /\ IsFront(q[k]) /\ q[k][1][1] <= top
             /\ q[k][1][1] < x[1][1] \/ (q[k][1][1] = x[1][1] /\ q[k][1][1] \in twice)
  <2>1. IsFront(q[k]) /\ q[k][1][1] <= Before(x[1][1], twice)
    BY DEF Ordered
  <2>2. CASE x[1][1] \in twice
    <3>1. q[k][1][1] <= x[1][1]
      BY <2>1, <2>2 DEF Before
    <3> QED BY <1>2, <1>3, <2>1, <2>2, <3>1
  <2>3. CASE x[1][1] \notin twice
    <3>1. q[k][1][1] <= x[1][1] - 1
      BY <2>1, <2>3 DEF Before
    <3> QED BY <1>2, <1>3, <2>1, <3>1
  <2> QED BY <2>2, <2>3
<1>6. \A k \in 1 .. Len(w) : IsFront(w[k]) /\ w[k][1][1] <= top
  <2> TAKE k \in 1 .. Len(w)
  <2>1. CASE k = m + 1
    BY <1>1, <2>1
  <2>2. CASE k \in 1 .. m
    BY <1>1, <1>5, <2>2
  <2> QED BY <1>1, <1>4, <2>1, <2>2
<1>7. \A j, k \in 1 .. Len(w) :
        j < k => w[j][1][1] < w[k][1][1] \/ (w[j][1][1] = w[k][1][1] /\ w[j][1][1] \in twice)
  <2> TAKE j, k \in 1 .. Len(w)
  <2> HAVE j < k
  <2>1. j \in 1 .. m
    BY <1>1
  <2>2. CASE k = m + 1
    BY <1>1, <1>5, <2>1, <2>2
  <2>3. CASE k \in 1 .. m
    BY <1>1, <2>1, <2>3 DEF Ordered
  <2> QED BY <1>1, <1>4, <2>2, <2>3
<1> QED BY <1>1, <1>6, <1>7 DEF w, Ordered

LEMMA OrderedUp ==
  ASSUME NEW q \in Seq(Data), NEW m \in Int, NEW n \in Int, m <= n, NEW some, NEW twice,
         some \subseteq twice, Ordered(q, some, m)
  PROVE  Ordered(q, twice, n)
<1>1. ASSUME NEW k \in 1 .. Len(q) PROVE q[k][1][1] \in Nat
  BY NumberType DEF Ordered
<1> QED BY <1>1 DEF Ordered

LEMMA EjectedType ==
  ASSUME NEW h \in Shapes
  PROVE  /\ Ejected(h) \in Shapes
         /\ Ejected(h).pad = h.pad /\ Ejected(h).state = "empty" /\ Ejected(h).data = <<>>
         /\ Ejected(h).cc = h.cc
         /\ Ejected(h).held = IF h.data # <<>> /\ h.state = "buffer" THEN Append(h.held, h.data)
                              ELSE h.held
<1>1. <<>> \in Data
  BY DEF Data
<1>2. h.held \in Seq(Data) /\ h.data \in Data
  BY DEF Shapes
<1>3. Append(h.held, h.data) \in Seq(Data)
  BY <1>2
<1> QED BY <1>1, <1>2, <1>3 DEF Ejected, Shapes

LEMMA EjectedLine ==
  ASSUME NEW h \in Shapes, NEW src, NEW twice, NEW n \in Nat, src.n \in Nat, Line(h, src, twice, n)
  PROVE  Line(Ejected(h), src, twice, n)
<1> DEFINE g == Ejected(h)
<1>1. /\ g \in Shapes /\ g.pad = h.pad /\ g.state = "empty" /\ g.data = <<>>
      /\ g.held = IF h.data # <<>> /\ h.state = "buffer" THEN Append(h.held, h.data) ELSE h.held
  BY EjectedType
<1> HIDE DEF g
<1>2. CASE h.data # <<>> /\ h.state = "buffer"
  <2>1. /\ IsFront(h.data) /\ h.data[1][1] <= src.n /\ src.i # 0 /\ h.pad
        /\ Ordered(h.held, twice, Before(h.data[1][1], twice))
    BY <1>2 DEF Line, Gathers
  <2>2. h.held \in Seq(Data) /\ h.data \in Data
    BY DEF Shapes
  <2>3. Ordered(g.held, twice, src.n)
    BY <1>1, <1>2, <2>1, <2>2, OrderedAppend
  <2> QED BY <1>1, <2>1, <2>3 DEF Line, g
<1>3. CASE ~ (h.data # <<>> /\ h.state = "buffer")
  BY <1>1, <1>3 DEF Line, g
<1> QED BY <1>2, <1>3

\* A packet whose PES packet cannot be gathered.
LEMMA DiscontLine ==
  ASSUME NEW h \in Shapes, h.pad, NEW src, NEW twice, NEW n, Line(h, src, twice, n),
         NEW e, NEW m, NEW g \in Shapes,
         src.n \in Nat, e.n \in Nat, src.n <= e.n, e.i # 0,
         g.pad = h.pad, g.state = "discont", g.data = <<>>, g.held = h.held
  PROVE  Line(g, e, twice, m)
<1>1. Ordered(h.held, twice, e.n)
  BY OrderedUp DEF Line, Shapes
<1> QED BY <1>1 DEF Line

\* The next packet of the one that is gathered.
LEMMA GrownLine ==
  ASSUME NEW h \in Shapes, h.pad, NEW src, NEW twice, NEW n, Gathers(h, src, twice, n),
         NEW e, NEW m \in Nat,
         NEW g \in Shapes, e.n = h.data[1][1], e.i = Len(h.data) + 1, e.cc \in 0 .. MaxCC,
         g.pad = h.pad, g.state = "buffer", g.cc = e.cc, g.data = Append(h.data, <<e.n, e.i>>),
         g.held = h.held
  PROVE  Line(g, e, twice, m)
<1> DEFINE top == Before(e.n, twice)
<1>1. h.data \in Data /\ h.held \in Seq(Data) /\ IsFront(h.data) /\ Ordered(h.held, twice, top)
  BY DEF Shapes, Gathers
<1> HIDE DEF top
<1>2. e.n \in Nat /\ Len(h.data) \in Nat /\ Len(h.data) >= 1
  <2>1. h.data \in Data /\ IsFront(h.data)
    BY <1>1
  <2>2. e.n \in Nat
    BY <2>1, NumberType
  <2>3. Len(h.data) \in Nat
    BY <2>1, LenProperties DEF Data
  <2> QED BY <2>1, <2>2, <2>3 DEF IsFront
<1> DEFINE x == <<e.n, e.i>>
           k == Len(h.data)
<1>3. x \in Nat \X Nat /\ x = <<e.n, e.i>>
  BY <1>2
<1> HIDE DEF x
<1>4. Len(g.data) = k + 1 /\ g.data[k + 1] = x /\ \A j \in 1 .. k : g.data[j] = h.data[j]
  BY <1>1, <1>3, AppendProperties DEF Data, x
<1>5. g.data[1][1] = e.n
  BY <1>2, <1>4
<1>6. IsFront(g.data)
  <2>1. ASSUME NEW j \in 1 .. k + 1 PROVE g.data[j] = <<e.n, j>>
    <3>1. CASE j = k + 1
      BY <1>3, <1>4, <3>1
    <3>2. CASE j \in 1 .. k
      BY <1>1, <1>4, <3>2 DEF IsFront
    <3> QED BY <1>2, <3>1, <3>2
  <2> QED BY <1>2, <1>4, <1>5, <2>1 DEF IsFront
<1>7. Behind(g.cc, e.cc) = 0 /\ e.cc # Follow(g.cc)
  BY Distance, Following1
<1>8. Gathers(g, e, twice, m)
  BY <1>1, <1>2, <1>4, <1>5, <1>6, <1>7 DEF Gathers, top
<1>9. Ordered(g.held, twice, e.n)
  <2>1. top \in Int /\ top <= e.n
    BY <1>2, BeforeIs DEF top
  <2> QED BY <1>1, <1>2, <2>1, OrderedUp
<1> QED BY <1>2, <1>8, <1>9 DEF Line

LEMMA QueuedType ==
  ASSUME NEW h \in Shapes, NEW s \in Streams, NEW p, IsPacket(s, p)
  PROVE  Queued(h, s, p) \in Shapes /\ Queued(h, s, p).pad = h.pad /\ Queued(h, s, p).held = h.held
<1> DEFINE pes == plan[s][p.n]
           expected == IF Bounded(pes.header) THEN pes.length ELSE 0
           one == <<<<p.n, p.i>>>>
           more == Append(h.data, <<p.n, p.i>>)
<1>1. p.n \in Nat /\ p.i \in Nat /\ p.cc \in 0 .. MaxCC /\ PesOK(pes)
  BY PlansAre DEF IsPacket
<1>2. expected \in Nat
  BY <1>1 DEF PesOK
<1>3. <<p.n, p.i>> \in Nat \X Nat /\ h.data \in Data
  BY <1>1 DEF Shapes
<1>4. one \in Data /\ more \in Data /\ <<>> \in Data
  BY <1>3 DEF Data
<1>5. Queued(h, s, p) =
        IF h.state = "empty" /\ p.i = 1
          THEN IF Parse(pes.header, pes.first) = "OK"
               THEN [pad |-> h.pad, state |-> "buffer", cc |-> p.cc, data |-> one,
                     expected |-> expected, held |-> h.held]
               ELSE [pad |-> h.pad, state |-> "discont", cc |-> p.cc, data |-> h.data,
                     expected |-> h.expected, held |-> h.held]
        ELSE IF h.state = "buffer" /\ Continues(h.cc, p)
          THEN [pad |-> h.pad, state |-> "buffer", cc |-> p.cc, data |-> more,
                expected |-> h.expected, held |-> h.held]
        ELSE [pad |-> h.pad, state |-> "discont", cc |-> None, data |-> <<>>,
              expected |-> h.expected, held |-> h.held]
  BY DEF Queued
<1> HIDE DEF expected, one, more, pes
<1> QED BY <1>1, <1>2, <1>4, <1>5 DEF Shapes

\* A packet that comes.
LEMMA PacketLine ==
  ASSUME NEW h \in Shapes, h.pad, NEW s \in Streams, NEW src, plan[s] \in Plans[s], Sent(src, plan[s]),
         NEW e, Follows(src, e, plan[s]), NEW twice, NEW n \in Nat, n <= MaxFaults,
         Line(h, src, twice, n)
  PROVE  LET a == IF e.i = 1 THEN Ejected(h) ELSE h
             g == Queued(a, s, e)
         IN /\ IsPacket(s, e) /\ a \in Shapes /\ g \in Shapes
            /\ Line(a, src, twice, n) /\ Line(g, e, twice, n) /\ Line(Handled(h, s, e), e, twice, n)
<1> DEFINE a == IF e.i = 1 THEN Ejected(h) ELSE h
           g == Queued(a, s, e)
<1>1. Sent(e, plan[s]) /\ e.i >= 1 /\ src.n \in Nat /\ src.i \in Nat
  BY FollowsSent
<1>2. IsPacket(s, e) /\ e.n \in Nat /\ e.i \in Nat /\ e.cc \in 0 .. MaxCC /\ src.cc \in 0 .. MaxCC
  BY <1>1, PlansAre DEF Sent, IsPacket, PesOK
<1>3. /\ a \in Shapes /\ a.pad /\ a.held \in Seq(Data) /\ Line(a, src, twice, n)
      /\ e.i = 1 => a.state = "empty" /\ a.data = <<>>
      /\ e.i # 1 => a = h
  <2>1. CASE e.i = 1
    BY <1>1, <2>1, EjectedType, EjectedLine DEF Shapes
  <2>2. CASE e.i # 1
    BY <2>2 DEF Shapes
  <2> QED BY <2>1, <2>2
<1> HIDE DEF a
<1>4. g \in Shapes /\ g.pad = a.pad /\ g.held = a.held
  BY <1>2, <1>3, QueuedType
<1>5. e.n >= src.n
  BY <1>1 DEF Follows
<1>6. Line(g, e, twice, n)
  <2>1. CASE e.i = 1 /\ Parse(plan[s][e.n].header, plan[s][e.n].first) = "OK"
    <3>1. g.state = "buffer" /\ g.cc = e.cc /\ g.data = <<<<e.n, e.i>>>>
      BY <1>3, <2>1 DEF Queued
    <3>2. IsFront(g.data) /\ g.data[1][1] = e.n /\ Len(g.data) = 1
      BY <2>1, <3>1 DEF IsFront
    <3>3. Ordered(g.held, twice, e.n - 1)
      <4>1. CASE src.i = 0
        <5>1. a.held = <<>>
          BY <1>3, <4>1 DEF Line
        <5> QED BY <1>4, <5>1 DEF Ordered
      <4>2. CASE src.i # 0
        <5>1. e.n = src.n + 1
          BY <1>1, <2>1, <4>2 DEF Follows
        <5>2. e.n - 1 = src.n
          BY <1>1, <5>1
        <5> QED BY <1>3, <1>4, <5>2 DEF Line
      <4> QED BY <4>1, <4>2
    <3>4. Ordered(g.held, twice, e.n) /\ Ordered(g.held, twice, Before(e.n, twice))
      <4>1. Before(e.n, twice) \in Int /\ e.n - 1 <= Before(e.n, twice) /\ e.n - 1 \in Int
        BY <1>2, BeforeIs
      <4>2. e.n - 1 <= e.n /\ e.n \in Int /\ g.held \in Seq(Data)
        BY <1>2, <1>3, <1>4
      <4> QED BY <3>3, <4>1, <4>2, OrderedUp
    <3>5. Behind(g.cc, e.cc) = 0 /\ e.cc # Follow(g.cc)
      BY <1>2, <3>1, Distance, Following1
    <3>6. Gathers(g, e, twice, n)
      BY <1>2, <2>1, <3>1, <3>2, <3>4, <3>5 DEF Gathers
    <3> QED BY <1>3, <1>4, <2>1, <3>1, <3>4, <3>6 DEF Line
  <2>2. CASE e.i = 1 /\ Parse(plan[s][e.n].header, plan[s][e.n].first) # "OK"
    <3>1. g.state = "discont" /\ g.data = <<>>
      BY <1>3, <2>2 DEF Queued
    <3> HIDE DEF g
    <3>2. /\ src.n \in Nat /\ e.n \in Nat /\ src.n <= e.n /\ e.i # 0 /\ Line(a, src, twice, n) /\ a \in Shapes
          /\ g \in Shapes /\ a.pad /\ g.pad = a.pad /\ g.state = "discont" /\ g.data = <<>> /\ g.held = a.held
      BY <1>1, <1>2, <1>3, <1>4, <1>5, <3>1
    <3> QED BY <3>2, DiscontLine
  <2>3. CASE e.i # 1 /\ a.state = "buffer" /\ Continues(a.cc, e)
    <3>1. g.state = "buffer" /\ g.cc = e.cc /\ g.data = Append(a.data, <<e.n, e.i>>)
      BY <2>3 DEF Queued
    <3>2. Gathers(a, src, twice, n)
      BY <1>3, <2>3 DEF Line
    <3>3. src.cc = a.cc
      <4>1. a.cc \in 0 .. MaxCC /\ a.cc # None
        BY <3>2, Numbers DEF Gathers, None
      <4>2. e.cc = Follow(a.cc)
        BY <2>3, <4>1, Following1 DEF Continues
      <4>3. e.cc = Follow(src.cc)
        BY DEF Follows
      <4> QED BY <1>2, <4>1, <4>2, <4>3, Distance
    <3>4. src.n = a.data[1][1] /\ src.i = Len(a.data)
      BY <3>2, <3>3 DEF Gathers
    <3>5. e.n = src.n /\ e.i = src.i + 1
      BY <2>3 DEF Follows
    <3> QED BY <1>2, <1>3, <1>4, <3>1, <3>2, <3>4, <3>5, GrownLine
  <2>4. CASE e.i # 1 /\ ~ (a.state = "buffer" /\ Continues(a.cc, e))
    <3>1. g.state = "discont" /\ g.data = <<>>
      BY <2>4 DEF Queued
    <3> HIDE DEF g
    <3>2. /\ src.n \in Nat /\ e.n \in Nat /\ src.n <= e.n /\ e.i # 0 /\ Line(a, src, twice, n) /\ a \in Shapes
          /\ g \in Shapes /\ a.pad /\ g.pad = a.pad /\ g.state = "discont" /\ g.data = <<>> /\ g.held = a.held
      BY <1>1, <1>2, <1>3, <1>4, <1>5, <3>1
    <3> QED BY <3>2, DiscontLine
  <2> QED BY <2>1, <2>2, <2>3, <2>4
<1>7. Line(Handled(h, s, e), e, twice, n)
  <2>1. Handled(h, s, e) = Ejected(g) \/ Handled(h, s, e) = g
    BY DEF Handled, a
  <2>2. Line(Ejected(g), e, twice, n)
    BY <1>2, <1>4, <1>6, EjectedLine
  <2> QED BY <1>6, <2>1, <2>2
<1> QED BY <1>2, <1>3, <1>4, <1>6, <1>7 DEF a

\* The first packet that comes twice begins the PES packet anew, behind what there was of it.
LEMMA AnewLine ==
  ASSUME NEW h \in Shapes, h.pad, NEW s \in Streams, NEW src, plan[s] \in Plans[s], Sent(src, plan[s]),
         NEW e, e.n = src.n, e.i = 1, src.i = 1, e.cc = src.cc,
         NEW twice, NEW n \in Nat, Line(h, src, twice, n)
  PROVE  LET g == Queued(Ejected(h), s, e) IN
         IsPacket(s, e) /\ g \in Shapes /\ Line(g, e, twice \cup {e.n}, n + 1)
<1> DEFINE a == Ejected(h)
           g == Queued(a, s, e)
           more == twice \cup {e.n}
<1>1. /\ IsPacket(s, e) /\ e.n \in Nat /\ e.cc \in 0 .. MaxCC /\ src.n \in Nat /\ src.cc \in 0 .. MaxCC
  BY PlansAre DEF Sent, IsPacket, PesOK
<1>2. /\ a \in Shapes /\ a.pad /\ a.held \in Seq(Data) /\ a.state = "empty" /\ a.data = <<>>
      /\ Line(a, src, twice, n)
  BY <1>1, EjectedType, EjectedLine DEF Shapes
<1> HIDE DEF a
<1>3. g \in Shapes /\ g.pad = a.pad /\ g.held = a.held
  BY <1>1, <1>2, QueuedType
<1>4. Ordered(a.held, more, e.n)
  <2>1. Ordered(a.held, twice, e.n)
    BY <1>2 DEF Line
  <2> QED BY <1>1, <1>2, <2>1, OrderedUp
<1> HIDE DEF more
<1>5. e.n \in more
  BY DEF more
<1>6. CASE Parse(plan[s][e.n].header, plan[s][e.n].first) = "OK"
  <2>1. g.state = "buffer" /\ g.cc = e.cc /\ g.data = <<<<e.n, e.i>>>>
    BY <1>2, <1>6 DEF Queued
  <2> HIDE DEF g
  <2>2. IsFront(g.data) /\ g.data[1][1] = e.n /\ Len(g.data) = 1
    BY <2>1 DEF IsFront
  <2>3. Behind(g.cc, e.cc) = 0 /\ e.cc # Follow(g.cc)
    BY <1>1, <2>1, Distance, Following1
  <2>4. Before(e.n, more) = e.n
    BY <1>5 DEF Before
  <2>5. Gathers(g, e, more, n + 1)
    BY <1>1, <1>3, <1>4, <2>1, <2>2, <2>3, <2>4 DEF Gathers
  <2>6. Line(g, e, more, n + 1)
    BY <1>2, <1>3, <1>4, <2>1, <2>5 DEF Line
  <2> QED BY <1>1, <1>3, <2>6 DEF g, a, more
<1>7. CASE Parse(plan[s][e.n].header, plan[s][e.n].first) # "OK"
  <2>1. g.state = "discont" /\ g.data = <<>>
    BY <1>2, <1>7 DEF Queued
  <2> HIDE DEF g
  <2>2. Line(g, e, more, n + 1)
    BY <1>2, <1>3, <1>4, <2>1 DEF Line
  <2> QED BY <1>1, <1>3, <2>2 DEF g, a, more
<1> QED BY <1>6, <1>7

\* Another packet that comes twice.
LEMMA AgainLine ==
  ASSUME NEW h \in Shapes, h.pad, NEW s \in Streams, NEW src, plan[s] \in Plans[s], Sent(src, plan[s]),
         NEW e, e.n = src.n, e.i = src.i, e.cc = src.cc, src.i > 1,
         NEW twice, NEW n \in Nat, n < MaxFaults, Line(h, src, twice, n)
  PROVE  LET g == Queued(h, s, e) IN
         IsPacket(s, e) /\ g \in Shapes /\ Line(g, e, twice, n + 1)
<1> DEFINE g == Queued(h, s, e)
<1>1. /\ IsPacket(s, e) /\ e.n \in Nat /\ e.i \in Nat /\ e.i > 1 /\ e.cc \in 0 .. MaxCC
      /\ src.n = e.n /\ src.i = e.i /\ src.cc = e.cc
  BY PlansAre DEF Sent, IsPacket, PesOK
<1>2. g \in Shapes /\ g.pad = h.pad /\ g.held = h.held
  BY <1>1, QueuedType
<1>3. CASE h.state = "buffer" /\ Continues(h.cc, e)
  <2>1. g.state = "buffer" /\ g.cc = e.cc /\ g.data = Append(h.data, <<e.n, e.i>>)
    BY <1>3 DEF Queued
  <2>2. Gathers(h, src, twice, n)
    BY <1>3 DEF Line
  <2>3. h.cc \in 0 .. MaxCC /\ h.cc # None
    BY <2>2, Numbers DEF Gathers, None
  <2>4. src.cc = Follow(h.cc)
    BY <1>1, <1>3, <2>3, Following1 DEF Continues
  <2>5. e.n = h.data[1][1] /\ e.i = Len(h.data) + 1
    BY <1>1, <2>2, <2>4 DEF Gathers
  <2> HIDE DEF g
  <2>6. /\ h \in Shapes /\ h.pad /\ n + 1 \in Nat /\ g \in Shapes /\ e.cc \in 0 .. MaxCC
        /\ g.pad = h.pad /\ g.state = "buffer" /\ g.cc = e.cc
        /\ g.data = Append(h.data, <<e.n, e.i>>) /\ g.held = h.held
    BY <1>1, <1>2, <2>1
  <2>7. Line(g, e, twice, n + 1)
    BY <2>2, <2>5, <2>6, GrownLine
  <2> QED BY <1>1, <1>2, <2>7 DEF g
<1>4. CASE ~ (h.state = "buffer" /\ Continues(h.cc, e))
  <2>1. g.state = "discont" /\ g.data = <<>>
    BY <1>1, <1>4 DEF Queued
  <2> HIDE DEF g
  <2>2. /\ src.n \in Nat /\ e.n \in Nat /\ src.n <= e.n /\ e.i # 0 /\ Line(h, src, twice, n)
        /\ h \in Shapes /\ g \in Shapes /\ h.pad /\ g.pad = h.pad /\ g.state = "discont"
        /\ g.data = <<>> /\ g.held = h.held
    BY <1>1, <1>2, <2>1
  <2>3. Line(g, e, twice, n + 1)
    BY <2>2, DiscontLine
  <2> QED BY <1>1, <1>2, <2>3 DEF g
<1> QED BY <1>3, <1>4

\* A packet that comes twice.
LEMMA RepeatLine ==
  ASSUME NEW h \in Shapes, h.pad, NEW s \in Streams, NEW src, plan[s] \in Plans[s], Sent(src, plan[s]),
         NEW e, e.n = src.n, e.i = src.i, e.cc = src.cc, src.i > 0,
         NEW twice, NEW n \in Nat, n < MaxFaults, Line(h, src, twice, n)
  PROVE  Line(Handled(h, s, e), src, IF e.i = 1 THEN twice \cup {e.n} ELSE twice, n + 1)
<1> DEFINE g == Queued(IF e.i = 1 THEN Ejected(h) ELSE h, s, e)
           more == IF e.i = 1 THEN twice \cup {e.n} ELSE twice
<1>1. g \in Shapes /\ Line(g, e, more, n + 1)
  <2>1. CASE e.i = 1
    <3> DEFINE q == Queued(Ejected(h), s, e)
    <3>1. q \in Shapes /\ Line(q, e, twice \cup {e.n}, n + 1)
      BY <2>1, AnewLine
    <3>2. g = q /\ more = twice \cup {e.n}
      BY <2>1
    <3> HIDE DEF g, more, q
    <3> QED BY <3>1, <3>2
  <2>2. CASE e.i # 1
    <3> DEFINE q == Queued(h, s, e)
    <3>1. src.i > 1
      BY <2>2, PlansAre DEF Sent, PesOK
    <3>2. q \in Shapes /\ Line(q, e, twice, n + 1)
      BY <3>1, AgainLine
    <3>3. g = q /\ more = twice
      BY <2>2
    <3> HIDE DEF g, more, q
    <3> QED BY <3>2, <3>3
  <2> QED BY <2>1, <2>2
<1>2. Handled(h, s, e) = Ejected(g) \/ Handled(h, s, e) = g
  BY DEF Handled
<1> HIDE DEF g, more
<1>3. e.n \in Nat
  BY DEF Sent
<1>4. Line(Ejected(g), e, more, n + 1)
  BY <1>1, <1>3, EjectedLine
<1>5. Line(Handled(h, s, e), e, more, n + 1)
  BY <1>1, <1>2, <1>4
<1>6. Line(Handled(h, s, e), src, more, n + 1)
  BY <1>5 DEF Line, Gathers
<1> QED BY <1>6 DEF more

\* A packet that is lost, or one of another stream.
LEMMA LostLine ==
  ASSUME NEW h \in Shapes, NEW s \in Streams, NEW src, plan[s] \in Plans[s], Sent(src, plan[s]),
         NEW e, Follows(src, e, plan[s]), NEW twice, NEW n \in Nat, n < MaxFaults,
         Line(h, src, twice, n)
  PROVE  Line(h, e, twice, n + 1) /\ Line(h, src, twice, n + 1)
<1>1. Sent(e, plan[s]) /\ e.i >= 1 /\ src.n \in Nat /\ src.i \in Nat
  BY FollowsSent
<1>2. e.n \in Nat /\ e.i \in Nat /\ e.cc \in 0 .. MaxCC /\ src.cc \in 0 .. MaxCC /\ src.n <= e.n
  BY <1>1, PlansAre DEF Sent, Follows, PesOK
<1>3. Ordered(h.held, twice, e.n)
  BY <1>1, <1>2, OrderedUp DEF Line, Shapes
<1>4. ASSUME h.state = "buffer" PROVE Gathers(h, e, twice, n + 1) /\ Gathers(h, src, twice, n + 1)
  <2>1. Gathers(h, src, twice, n)
    BY <1>4 DEF Line
  <2>2. /\ h.cc \in 0 .. MaxCC /\ Behind(h.cc, src.cc) <= n /\ Behind(h.cc, src.cc) < MaxCC
        /\ Behind(h.cc, src.cc) \in Nat
    <3>1. h.cc \in 0 .. MaxCC /\ Behind(h.cc, src.cc) <= n
      BY <2>1 DEF Gathers
    <3>2. Behind(h.cc, src.cc) \in 0 .. MaxCC
      BY <1>2, <3>1, Distance
    <3> QED BY <3>1, <3>2, Numbers
  <2>3. e.cc = Follow(src.cc)
    BY DEF Follows
  <2>4. Behind(h.cc, e.cc) = Behind(h.cc, src.cc) + 1
    <3>1. Behind(h.cc, src.cc) < MaxCC => Behind(h.cc, Follow(src.cc)) = Behind(h.cc, src.cc) + 1
      BY <1>2, <2>2, Distance
    <3> QED BY <2>2, <2>3, <3>1
  <2>5. e.cc # h.cc
    BY <1>2, <2>2, <2>4, Distance
  <2>6. e.cc = Follow(h.cc) => src.cc = h.cc
    BY <1>2, <2>2, <2>3, Distance
  <2>7. src.cc = h.cc => src.n = h.data[1][1] /\ src.i = Len(h.data)
    BY <2>1 DEF Gathers
  <2>8. e.i = 1 \/ (e.n = src.n /\ e.i = src.i + 1)
    BY DEF Follows
  <2>9. e.cc = Follow(h.cc) => e.i = 1 \/ (e.n = h.data[1][1] /\ e.i = Len(h.data) + 1)
    BY <2>6, <2>7, <2>8
  <2>10. h.data[1][1] \in Nat
    BY <2>1, NumberType DEF Gathers, Shapes
  <2> QED BY <1>1, <1>2, <2>1, <2>2, <2>4, <2>5, <2>9, <2>10 DEF Gathers
<1> QED BY <1>1, <1>3, <1>4 DEF Line
-----------------------------------------------------------------------------
(* What comes whole is there *)

Has(h, n, p) == \E k \in 1 .. Len(h.held) : h.held[k][1][1] = n /\ Len(h.held[k]) = p[n].length

Expected(e) == IF Bounded(e.header) THEN e.length ELSE 0

\* All that has been sent of the current PES packet is gathered.
Underway(h, src, p) ==
  /\ h.state = "buffer" /\ h.data[1][1] = src.n /\ Len(h.data) = src.i /\ h.cc = src.cc
  /\ h.expected = Expected(p[src.n])
  /\ Bounded(p[src.n].header) => src.i # p[src.n].length

Complete(h, src, p) ==
  /\ Bounded(p[src.n].header) /\ src.i = p[src.n].length
  /\ h.state = "empty" /\ Has(h, src.n, p)

More(src, p) == src.i < p[src.n].length \/ src.n < Len(p)

Track(h, src, p, owed) ==
  /\ \A n \in owed : Has(h, n, p)
  /\ ~ h.pad => owed = {}
  /\ src.whole => src.intact /\ src.i = p[src.n].length
  /\ src.intact /\ h.pad /\ More(src, p) => Underway(h, src, p) \/ Complete(h, src, p)

LEMMA EjectedHas ==
  ASSUME NEW h \in Shapes, NEW p, NEW n
  PROVE  /\ Has(h, n, p) => Has(Ejected(h), n, p)
         /\ h.state = "buffer" /\ IsFront(h.data) /\ h.data[1][1] = n /\ Len(h.data) = p[n].length =>
              Has(Ejected(h), n, p)
<1> DEFINE g == Ejected(h)
           m == Len(h.held)
<1>1. /\ g.held = IF h.data # <<>> /\ h.state = "buffer" THEN Append(h.held, h.data) ELSE h.held
      /\ h.held \in Seq(Data) /\ h.data \in Data /\ m \in Nat
  BY EjectedType, LenProperties DEF Shapes
<1> HIDE DEF g
<1>2. CASE h.data # <<>> /\ h.state = "buffer"
  <2>1. Len(g.held) = m + 1 /\ g.held[m + 1] = h.data /\ \A k \in 1 .. m : g.held[k] = h.held[k]
    BY <1>1, <1>2, AppendProperties
  <2>2. Has(h, n, p) => Has(g, n, p)
    <3>1. SUFFICES ASSUME NEW k \in 1 .. m, h.held[k][1][1] = n, Len(h.held[k]) = p[n].length
          PROVE  Has(g, n, p)
      BY DEF Has
    <3>2. k \in 1 .. Len(g.held) /\ g.held[k] = h.held[k]
      BY <1>1, <2>1
    <3> QED BY <3>1, <3>2 DEF Has
  <2>3. m + 1 \in 1 .. Len(g.held)
    BY <1>1, <2>1
  <2> QED BY <2>1, <2>2, <2>3 DEF Has, g
<1>3. CASE ~ (h.data # <<>> /\ h.state = "buffer")
  <2>1. IsFront(h.data) => h.data # <<>>
    BY DEF IsFront
  <2> QED BY <1>1, <1>3, <2>1 DEF Has, g
<1> QED BY <1>2, <1>3

\* g holds the packets of a PES packet up to e.
Holds(g, e, p) ==
  /\ g.state = "buffer" /\ g.data[1][1] = e.n /\ Len(g.data) = e.i /\ g.cc = e.cc
  /\ g.expected = Expected(p[e.n])

\* A packet of a PES packet that has come without a fault joins the packets before it.
LEMMA QueuedWhole ==
  ASSUME NEW h \in Shapes, h.pad, NEW s \in Streams, NEW src,
         plan[s] \in Plans[s], Sent(src, plan[s]),
         NEW e, Follows(src, e, plan[s]), NEW twice, NEW n \in Nat, n <= MaxFaults,
         Line(h, src, twice, n),
         NEW owed, Track(h, src, plan[s], owed),
         Good(plan[s][e.n]), e.i = 1 \/ src.intact
  PROVE  Holds(Queued(IF e.i = 1 THEN Ejected(h) ELSE h, s, e), e, plan[s])
<1> DEFINE a == IF e.i = 1 THEN Ejected(h) ELSE h
           g == Queued(a, s, e)
<1>1. Sent(e, plan[s]) /\ e.i >= 1 /\ src.n \in Nat /\ src.i \in Nat
  BY FollowsSent
<1>2. CASE e.i = 1
  <2>1. Ejected(h).state = "empty"
    BY EjectedType
  <2>2. Parse(plan[s][e.n].header, plan[s][e.n].first) = "OK"
    <3>1. e.n \in 1 .. Len(plan[s])
      BY <1>1 DEF Sent
    <3> QED BY <3>1, HeadersAreRead
  <2>3. g = [pad |-> a.pad, state |-> "buffer", cc |-> e.cc, data |-> <<<<e.n, e.i>>>>,
             expected |-> Expected(plan[s][e.n]), held |-> a.held]
    BY <1>2, <2>1, <2>2 DEF Queued, Expected
  <2> HIDE DEF g
  <2>4. g.state = "buffer" /\ g.data[1][1] = e.n /\ Len(g.data) = 1 /\ g.cc = e.cc
        /\ g.expected = Expected(plan[s][e.n])
    BY <2>3
  <2> QED BY <1>2, <2>4 DEF g, Holds
<1>3. CASE e.i # 1
  <2>1. src.i < plan[s][src.n].length /\ e.n = src.n /\ e.i = src.i + 1
    BY <1>3 DEF Follows
  <2>2. plan[s][src.n].length \in Nat
    BY PlansAre DEF Sent, PesOK
  <2>3. Underway(h, src, plan[s])
    <3>1. ~ Complete(h, src, plan[s])
      BY <1>1, <2>1, <2>2 DEF Complete
    <3>2. More(src, plan[s]) /\ src.intact
      BY <1>3, <2>1 DEF More
    <3> QED BY <3>1, <3>2 DEF Track
  <2>4. h.data \in Data /\ IsFront(h.data)
    BY <2>3 DEF Underway, Line, Gathers, Shapes
  <2>5. Continues(h.cc, e)
    BY <2>3, Following1 DEF Continues, Underway, Follows, Sent
  <2>6. g = [pad |-> h.pad, state |-> "buffer", cc |-> e.cc, data |-> Append(h.data, <<e.n, e.i>>),
             expected |-> h.expected, held |-> h.held]
    BY <1>3, <2>3, <2>5 DEF Queued, Underway
  <2>7. e.n \in Nat /\ e.i \in Nat
    BY <1>1, <2>1
  <2> DEFINE x == <<e.n, e.i>>
             k == Len(h.data)
  <2>8. x \in Nat \X Nat /\ k \in Nat /\ k >= 1
    BY <2>4, <2>7 DEF IsFront, Data
  <2> HIDE DEF x, g
  <2>9. Len(Append(h.data, x)) = k + 1 /\ Append(h.data, x)[1] = h.data[1]
    BY <2>4, <2>8, AppendProperties DEF Data
  <2>10. /\ g.state = "buffer" /\ g.data[1][1] = h.data[1][1] /\ Len(g.data) = k + 1 /\ g.cc = e.cc
         /\ g.expected = h.expected
    BY <2>6, <2>9 DEF x
  <2> QED BY <2>1, <2>3, <2>10 DEF Underway, g, Holds
<1> QED BY <1>2, <1>3

\* What is due when e comes after src.
Owes(src, e, p) ==
  (IF e.i = 1 /\ src.whole THEN {src.n} ELSE {})
    \cup (IF (e.i = 1 \/ src.intact) /\ e.i = p[e.n].length /\ Good(p[e.n]) /\ Bounded(p[e.n].header)
          THEN {e.n} ELSE {})

\* src once e has been sent.
Came(src, e, p, new) ==
  /\ new.n = e.n /\ new.i = e.i /\ new.cc = e.cc
  /\ new.intact = (Good(p[e.n]) /\ (e.i = 1 \/ src.intact))
  /\ new.whole = (Good(p[e.n]) /\ (e.i = 1 \/ src.intact) /\ e.i = p[e.n].length)

LEMMA PacketTrack ==
  ASSUME NEW h \in Shapes, h.pad, NEW s \in Streams, NEW src,
         plan[s] \in Plans[s], Sent(src, plan[s]),
         NEW e, Follows(src, e, plan[s]), NEW twice, NEW n \in Nat, n <= MaxFaults,
         Line(h, src, twice, n),
         NEW owed, Track(h, src, plan[s], owed), NEW new, Came(src, e, plan[s], new)
  PROVE  Track(Handled(h, s, e), new, plan[s], owed \cup Owes(src, e, plan[s]))
<1> DEFINE p == plan[s]
           a == IF e.i = 1 THEN Ejected(h) ELSE h
           g == Queued(a, s, e)
           f == Handled(h, s, e)
           joins == Good(p[e.n]) /\ (e.i = 1 \/ src.intact)
           full == g.expected # 0 /\ Len(g.data) = g.expected
<1>1. Sent(e, p) /\ e.i >= 1 /\ src.n \in Nat /\ src.i \in Nat
  BY FollowsSent
<1>2. IsPacket(s, e) /\ a \in Shapes /\ g \in Shapes /\ g.held = a.held /\ g.pad = a.pad /\ Line(g, e, twice, n)
  BY PacketLine, QueuedType
<1>3. f = IF full THEN Ejected(g) ELSE g
  BY DEF Handled
<1>4. a.pad
  BY EjectedType
<1>5. joins => /\ g.state = "buffer" /\ g.data[1][1] = e.n /\ Len(g.data) = e.i /\ g.cc = e.cc
               /\ g.expected = Expected(p[e.n])
  <2>1. ASSUME Good(plan[s][e.n]), e.i = 1 \/ src.intact
        PROVE  Holds(Queued(IF e.i = 1 THEN Ejected(h) ELSE h, s, e), e, plan[s])
    <3> HIDE DEF g, p, joins, a, f, full
    <3> QED BY <2>1, QueuedWhole
  <2>2. joins => Holds(g, e, p)
    BY <2>1
  <2> HIDE DEF g, p, joins
  <2> QED BY <2>2 DEF Holds
<1>6. \A m : Has(h, m, p) => Has(a, m, p)
  BY EjectedHas
<1>7. e.i = 1 /\ src.whole => Has(a, src.n, p)
  <2>1. SUFFICES ASSUME e.i = 1, src.whole PROVE Has(Ejected(h), src.n, p)
    BY <2>1
  <2>2. src.intact /\ src.i = p[src.n].length /\ More(src, p)
    <3>1. src.intact /\ src.i = p[src.n].length
      BY <2>1 DEF Track
    <3>2. p[src.n].length \in Nat
      BY PlansAre DEF Sent, PesOK
    <3> QED BY <1>1, <3>1, <3>2 DEF Follows, More
  <2>3. CASE Underway(h, src, p)
    <3>1. h.state = "buffer" /\ IsFront(h.data) /\ h.data[1][1] = src.n /\ Len(h.data) = p[src.n].length
      BY <2>2, <2>3 DEF Underway, Line, Gathers
    <3> QED BY <3>1, EjectedHas
  <2>4. CASE Complete(h, src, p)
    BY <2>4, EjectedHas DEF Complete
  <2> QED BY <2>2, <2>3, <2>4 DEF Track
<1> HIDE DEF a, g, f
<1>8. \A m : Has(a, m, p) => Has(f, m, p)
  <2>1. \A m : Has(a, m, p) => Has(g, m, p)
    BY <1>2 DEF Has
  <2>2. \A m : Has(g, m, p) => Has(Ejected(g), m, p)
    BY <1>2, EjectedHas
  <2> QED BY <1>3, <2>1, <2>2
<1>9. f.pad
  BY <1>2, <1>3, <1>4, EjectedType
<1>10. ASSUME joins, Bounded(p[e.n].header), e.i = p[e.n].length
       PROVE  Has(f, e.n, p) /\ f.state = "empty"
  <2>1. p[e.n].length \in Nat \ {0}
    BY <1>1, PlansAre DEF Sent, PesOK
  <2>2. full /\ f = Ejected(g)
    BY <1>3, <1>5, <1>10, <2>1 DEF Expected
  <2>3. IsFront(g.data)
    BY <1>2, <1>5, <1>10 DEF Line, Gathers
  <2> QED BY <1>2, <1>5, <1>10, <2>2, <2>3, EjectedHas, EjectedType
<1>11. ASSUME joins PROVE Underway(f, new, p) \/ Complete(f, new, p)
  <2>1. CASE Bounded(p[e.n].header) /\ e.i = p[e.n].length
    BY <1>10, <1>11, <2>1 DEF Complete, Came
  <2>2. CASE ~ (Bounded(p[e.n].header) /\ e.i = p[e.n].length)
    <3>1. f = g
      BY <1>3, <1>5, <1>11, <2>2 DEF Expected
    <3> QED BY <1>5, <1>11, <2>2, <3>1 DEF Underway, Came
  <2> QED BY <2>1, <2>2
<1>12. \A m \in owed \cup Owes(src, e, p) : Has(f, m, p)
  <2>1. \A m \in owed : Has(h, m, p)
    BY DEF Track
  <2>2. \A m \in Owes(src, e, p) :
          (e.i = 1 /\ src.whole /\ m = src.n) \/ (joins /\ Bounded(p[e.n].header) /\ e.i = p[e.n].length /\ m = e.n)
    BY DEF Owes
  <2> QED BY <1>6, <1>7, <1>8, <1>10, <2>1, <2>2
<1>13. /\ new.whole => new.intact /\ new.i = p[new.n].length
       /\ new.intact => joins
  BY DEF Came
<1> QED BY <1>9, <1>11, <1>12, <1>13 DEF Track, f

\* A fault, or a flush that leaves the buffers.
LEMMA FaultTrack ==
  ASSUME NEW h, NEW g, NEW p, NEW src, NEW new, NEW owed, Track(h, src, p, owed),
         g.pad = h.pad, \A m : Has(h, m, p) => Has(g, m, p), ~ new.intact, ~ new.whole
  PROVE  Track(g, new, p, owed)
BY DEF Track

LEMMA HandledHas ==
  ASSUME NEW h \in Shapes, NEW s \in Streams, NEW p, IsPacket(s, p), NEW m, NEW q, Has(h, m, q)
  PROVE  Has(Handled(h, s, p), m, q) /\ Handled(h, s, p).pad = h.pad
<1> DEFINE a == IF p.i = 1 THEN Ejected(h) ELSE h
           g == Queued(a, s, p)
<1>1. a \in Shapes /\ a.pad = h.pad /\ Has(a, m, q)
  BY EjectedType, EjectedHas
<1> HIDE DEF a
<1>2. g \in Shapes /\ g.pad = a.pad /\ g.held = a.held
  BY <1>1, QueuedType
<1>3. Has(g, m, q)
  BY <1>1, <1>2 DEF Has
<1> HIDE DEF g
<1>4. Has(Ejected(g), m, q) /\ Ejected(g).pad = g.pad
  BY <1>2, <1>3, EjectedHas, EjectedType
<1> QED BY <1>1, <1>2, <1>3, <1>4 DEF Handled, a, g

LEMMA HandledPad ==
  ASSUME NEW h \in Shapes, NEW s \in Streams, NEW p, IsPacket(s, p)
  PROVE  Handled(h, s, p).pad = h.pad
<1> DEFINE a == IF p.i = 1 THEN Ejected(h) ELSE h
           g == Queued(a, s, p)
<1>1. a \in Shapes /\ a.pad = h.pad
  BY EjectedType
<1> HIDE DEF a
<1>2. g \in Shapes /\ g.pad = a.pad
  BY <1>1, QueuedType
<1> HIDE DEF g
<1>3. Ejected(g).pad = g.pad
  BY <1>2, EjectedType
<1> QED BY <1>1, <1>2, <1>3 DEF Handled, a, g

\* src once its last packet has come again.
CameAgain(src, p, new) ==
  /\ new.n = src.n /\ new.i = src.i /\ new.cc = src.cc
  /\ new.intact => src.i = 1 /\ Good(p[src.n])
  /\ new.whole => new.intact /\ src.i = p[src.n].length

LEMMA AgainTrack ==
  ASSUME NEW h \in Shapes, h.pad, NEW s \in Streams, NEW src,
         plan[s] \in Plans[s], Sent(src, plan[s]), NEW e, IsPacket(s, e),
         e.n = src.n, e.i = src.i, e.cc = src.cc,
         NEW owed, Track(h, src, plan[s], owed), NEW new, CameAgain(src, plan[s], new)
  PROVE  Track(Handled(h, s, e), new, plan[s], owed)
<1> DEFINE p == plan[s]
           a == Ejected(h)
           g == Queued(a, s, e)
           f == Handled(h, s, e)
<1>1. f.pad = h.pad /\ \A m : Has(h, m, p) => Has(f, m, p)
  BY HandledHas, HandledPad
<1>2. CASE ~ new.intact
  <2>1. ~ new.whole
    BY <1>2 DEF CameAgain
  <2> HIDE DEF f
  <2>2. Track(f, new, p, owed)
    BY <1>1, <1>2, <2>1, FaultTrack
  <2> QED BY <2>2 DEF f
<1>3. CASE new.intact
  <2>1. e.i = 1 /\ Good(p[e.n]) /\ e.n \in 1 .. Len(p) /\ p[e.n].length \in Nat \ {0}
    BY <1>3, PlansAre DEF CameAgain, Sent, PesOK
  <2>2. Parse(p[e.n].header, p[e.n].first) = "OK"
    BY <2>1, HeadersAreRead
  <2>3. a \in Shapes /\ a.state = "empty"
    BY EjectedType
  <2>4. g \in Shapes
    BY <2>3, QueuedType
  <2>5. g = [pad |-> a.pad, state |-> "buffer", cc |-> e.cc, data |-> <<<<e.n, e.i>>>>,
             expected |-> Expected(p[e.n]), held |-> a.held]
    BY <2>1, <2>2, <2>3 DEF Queued, Expected
  <2>6. f = IF g.expected # 0 /\ Len(g.data) = g.expected THEN Ejected(g) ELSE g
    BY <2>1 DEF Handled
  <2> HIDE DEF g, f, a
  <2>7. /\ g.state = "buffer" /\ g.data[1][1] = e.n /\ Len(g.data) = 1 /\ g.cc = e.cc
        /\ g.expected = Expected(p[e.n]) /\ IsFront(g.data)
    BY <2>1, <2>5 DEF IsFront
  <2>8. Underway(f, new, p) \/ Complete(f, new, p)
    <3>1. new.n = e.n /\ new.i = 1 /\ new.cc = e.cc
      BY <2>1 DEF CameAgain
    <3>2. CASE Bounded(p[e.n].header) /\ p[e.n].length = 1
      <4>1. f = Ejected(g)
        BY <2>6, <2>7, <3>2 DEF Expected
      <4>2. Has(f, e.n, p) /\ f.state = "empty"
        BY <2>4, <2>7, <3>2, <4>1, EjectedHas, EjectedType
      <4> QED BY <3>1, <3>2, <4>2 DEF Complete
    <3>3. CASE ~ (Bounded(p[e.n].header) /\ p[e.n].length = 1)
      <4>1. f = g
        BY <2>6, <2>7, <3>3 DEF Expected
      <4> QED BY <2>7, <3>1, <3>3, <4>1 DEF Underway
    <3> QED BY <3>2, <3>3
  <2>9. \A m \in owed : Has(f, m, p)
    BY <1>1 DEF Track, f
  <2>10. new.whole => new.intact /\ new.i = p[new.n].length
    BY DEF CameAgain
  <2>11. Track(f, new, p, owed)
    BY <1>1, <2>8, <2>9, <2>10 DEF Track, f
  <2> QED BY <2>11 DEF f
<1> QED BY <1>2, <1>3
-----------------------------------------------------------------------------
(* One segment *)

\* The pad has got a buffer, or gets the next one without a segment before it.
Served(d, s) == d.stream[s].pad /\ (d.out[s] # <<>> \/ ~ d.stream[s].need_newsegment)

SegmentsOK(d) ==
  /\ \A s \in Streams : Served(d, s) => d.segment[s] # None
  /\ \A s, x \in Streams : Served(d, s) /\ Served(d, x) => d.segment[s] = d.segment[x]

LEMMA StampsSegments ==
  ASSUME NEW d, NEW e, Stamps(d, e), SegmentsOK(d)
  PROVE  SegmentsOK(e)
<1>1. /\ e.segment = d.segment /\ e.out = d.out
      /\ \A x \in Streams : /\ e.stream[x].pad = d.stream[x].pad
                            /\ e.stream[x].need_newsegment = d.stream[x].need_newsegment
  <2>1. e.segment = d.segment /\ e.out = d.out
    BY DEF Stamps
  <2>2. ASSUME NEW x \in Streams
        PROVE  /\ e.stream[x].pad = d.stream[x].pad
               /\ e.stream[x].need_newsegment = d.stream[x].need_newsegment
    BY DEF Stamps, Stamping
  <2> QED BY <2>1, <2>2
<1> QED BY <1>1 DEF SegmentsOK, Served

LEMMA SetsSegments ==
  ASSUME NEW d, NEW e, NEW s \in Streams, NEW r, Sets(d, e, s, r), SegmentsOK(d),
         r.pad = d.stream[s].pad, r.need_newsegment = d.stream[s].need_newsegment
  PROVE  SegmentsOK(e)
<1>1. /\ e.segment = d.segment /\ e.out = d.out
      /\ \A x \in Streams : /\ e.stream[x].pad = d.stream[x].pad
                            /\ e.stream[x].need_newsegment = d.stream[x].need_newsegment
  BY DEF Sets
<1> QED BY <1>1 DEF SegmentsOK, Served

LEMMA StartsSegments ==
  ASSUME NEW d \in Demuxes, NEW e, Starts(d, e), SegmentsOK(d)
  PROVE  SegmentsOK(e) /\ \A x \in Streams : d.stream[x].pad => ~ e.stream[x].need_newsegment
<1>1. e.out = d.out /\ e.segment_event \in Nat /\ e.segment_event # None
  BY DEF Starts, None
<1>2. ASSUME NEW x \in Streams
      PROVE  /\ e.stream[x].pad = d.stream[x].pad
             /\ d.stream[x].pad => e.segment[x] = e.segment_event /\ e.stream[x].need_newsegment = FALSE
  <2>1. d.stream[x] \in StreamRecs
    BY DEF Demuxes
  <2> QED BY <2>1 DEF Starts, StreamRecs
<1> QED BY <1>1, <1>2 DEF SegmentsOK, Served

LEMMA SendsSegments ==
  ASSUME NEW d \in Demuxes, NEW f, NEW s \in Streams, Sends(d, f, s), SegmentsOK(d),
         d.stream[s].pad, ~ d.stream[s].need_newsegment
  PROVE  SegmentsOK(f)
<1>1. f.stream[s].pad = d.stream[s].pad /\ f.stream[s].need_newsegment = d.stream[s].need_newsegment
  <2>1. d.stream[s] \in StreamRecs
    BY DEF Demuxes
  <2>2. Reset(d.stream[s]) \in StreamRecs
    BY <2>1, ResetIs
  <2>3. f.stream[s] = [Reset(d.stream[s]) EXCEPT !.pending = <<>>]
    BY DEF Sends
  <2>4. /\ f.stream[s].pad = Reset(d.stream[s]).pad
        /\ f.stream[s].need_newsegment = Reset(d.stream[s]).need_newsegment
    BY <2>2, <2>3 DEF StreamRecs
  <2> QED BY <2>1, <2>4, ResetIs
<1>2. /\ \A x \in Streams : /\ f.stream[x].pad = d.stream[x].pad
                            /\ f.stream[x].need_newsegment = d.stream[x].need_newsegment
      /\ \A x \in Streams \ {s} : f.out[x] = d.out[x]
      /\ f.segment = d.segment
  BY <1>1 DEF Sends
<1> QED BY <1>2 DEF SegmentsOK, Served

LEMMA PushSegments ==
  ASSUME NEW d \in Demuxes, NEW s \in Streams, d.stream[s].pad, SegmentsOK(d)
  PROVE  SegmentsOK(PushPendingData(d, s))
<1> DEFINE f == PushPendingData(d, s)
           t == d.stream[s]
<1>0. t \in StreamRecs
  BY DEF Demuxes
<1>1. CASE Drops(d, f, s)
  <2> DEFINE r == Reset(t)
  <2>1. Sets(d, f, s, r)
    BY <1>1 DEF Drops
  <2>2. r.pad = t.pad /\ r.need_newsegment = t.need_newsegment
    BY <1>0, ResetIs
  <2> HIDE DEF f, r
  <2>3. SegmentsOK(f)
    BY <2>1, <2>2, SetsSegments
  <2> QED BY <2>3 DEF f
<1>2. CASE Waits(d, f, s)
  <2> DEFINE r == [Reset(t) EXCEPT !.pending = Append(t.pending, [Current(t) EXCEPT !.pts = None])]
  <2>1. Sets(d, f, s, r)
    BY <1>2 DEF Waits
  <2>2. r.pad = t.pad /\ r.need_newsegment = t.need_newsegment
    <3>1. Reset(t) \in StreamRecs /\ Reset(t).pad = t.pad /\ Reset(t).need_newsegment = t.need_newsegment
      BY <1>0, ResetIs
    <3> QED BY <3>1 DEF StreamRecs
  <2> HIDE DEF f, r
  <2>3. SegmentsOK(f)
    BY <2>1, <2>2, SetsSegments
  <2> QED BY <2>3 DEF f
<1>3. CASE \E e1, e2 \in Demuxes :
             /\ t.data # <<>> /\ t.state = "buffer"
             /\ IF t.pending_ts THEN Observed(d) /\ Stamps(d, e1) ELSE e1 = d
             /\ IF t.need_newsegment THEN Starts(e1, e2) ELSE e2 = e1
             /\ Sends(e2, f, s)
  <2> HIDE DEF f
  <2>1. PICK e1, e2 \in Demuxes :
             /\ IF t.pending_ts THEN Observed(d) /\ Stamps(d, e1) ELSE e1 = d
             /\ IF t.need_newsegment THEN Starts(e1, e2) ELSE e2 = e1
             /\ Sends(e2, f, s)
    BY <1>3
  <2>2. SegmentsOK(e1) /\ e1.stream[s].pad /\ e1.stream[s].need_newsegment = t.need_newsegment
    <3>1. CASE t.pending_ts
      <4>1. Stamps(d, e1)
        BY <2>1, <3>1
      <4>2. SegmentsOK(e1)
        BY <4>1, StampsSegments
      <4> QED BY <4>1, <4>2 DEF Stamps, Stamping
    <3>2. CASE ~ t.pending_ts
      BY <2>1, <3>2
    <3> QED BY <3>1, <3>2
  <2>3. SegmentsOK(e2) /\ e2.stream[s].pad /\ ~ e2.stream[s].need_newsegment
    <3>1. CASE t.need_newsegment
      <4>1. Starts(e1, e2)
        BY <2>1, <3>1
      <4>2. e2.stream[s].pad = e1.stream[s].pad
        <5>1. e1.stream[s] \in StreamRecs
          BY DEF Demuxes
        <5> QED BY <4>1, <5>1 DEF Starts, StreamRecs
      <4> QED BY <2>2, <4>1, <4>2, StartsSegments
    <3>2. CASE ~ t.need_newsegment
      BY <2>1, <2>2, <3>2
    <3> QED BY <3>1, <3>2
  <2>4. SegmentsOK(f)
    BY <2>1, <2>3, SendsSegments
  <2> QED BY <2>4 DEF f
<1> QED BY <1>1, <1>2, <1>3, PushPendingDataIs

LEMMA QueueSegments ==
  ASSUME NEW d \in Demuxes, NEW s \in Streams, NEW p, IsPacket(s, p), d.stream[s].pad,
         d.stream[s].state # "header", SegmentsOK(d)
  PROVE  SegmentsOK(QueueData(d, s, p))
<1> DEFINE f == QueueData(d, s, p)
           t == d.stream[s]
<1>1. t \in StreamRecs
  BY DEF Demuxes
<1>2. CASE t.state = "empty" /\ p.i = 1
  <2> HIDE DEF f
  <2>1. PICK e \in Demuxes : Opens(d, e, s, p) /\ f = ParsePesHeader(e, s, p)
    BY <1>2, QueueIs DEF f
  <2> DEFINE u == e.stream[s]
             pes == plan[s][p.n]
             raw == PtsOf(pes.header)
  <2>2. Sets(d, e, s, u) /\ u.pad = t.pad /\ u.need_newsegment = t.need_newsegment /\ u \in StreamRecs
    BY <1>1, <2>1 DEF Opens, Sets, StreamRecs, Demuxes
  <2>3. SegmentsOK(e)
    <3> HIDE DEF u
    <3> QED BY <2>2, SetsSegments
  <2>4. CASE Parse(pes.header, pes.first) # "OK"
    <3> DEFINE r == [u EXCEPT !.state = "discont"]
    <3>1. Sets(e, f, s, r)
      BY <2>1, <2>2, <2>4, ParseIs DEF IsPacket
    <3>2. r.pad = u.pad /\ r.need_newsegment = u.need_newsegment
      BY <2>2 DEF StreamRecs
    <3> HIDE DEF r
    <3>3. SegmentsOK(f)
      BY <2>3, <3>1, <3>2, SetsSegments
    <3> QED BY <3>3 DEF f
  <2>5. CASE Parse(pes.header, pes.first) = "OK"
    <3>1. PICK e1, e2 \in Demuxes :
            /\ raw \in Time /\ Reads(e, e1, s, raw)
            /\ IF u.pending_ts /\ PtsToTs(e, raw) # None THEN Observed(e1) /\ Stamps(e1, e2)
               ELSE \E first \in Time : Sets(e1, e2, s, [e1.stream[s] EXCEPT !.first = first])
            /\ Begins(e2, f, s, p)
      BY <2>1, <2>2, <2>5, ParseIs DEF IsPacket
    <3>2. SegmentsOK(e1)
      <4> DEFINE r == [u EXCEPT !.raw = raw, !.pts = PtsToTs(e, raw)]
      <4>1. Sets(e, e1, s, r)
        BY <3>1 DEF Reads
      <4>2. r.pad = u.pad /\ r.need_newsegment = u.need_newsegment
        BY <2>2 DEF StreamRecs
      <4> HIDE DEF r
      <4> QED BY <2>3, <4>1, <4>2, SetsSegments
    <3>3. SegmentsOK(e2)
      <4>1. CASE Stamps(e1, e2)
        BY <3>2, <4>1, StampsSegments
      <4>2. CASE \E first \in Time : Sets(e1, e2, s, [e1.stream[s] EXCEPT !.first = first])
        <5>1. PICK first \in Time : Sets(e1, e2, s, [e1.stream[s] EXCEPT !.first = first])
          BY <4>2
        <5> DEFINE r == [e1.stream[s] EXCEPT !.first = first]
        <5>2. r.pad = e1.stream[s].pad /\ r.need_newsegment = e1.stream[s].need_newsegment
          BY DEF Demuxes, StreamRecs
        <5>3. Sets(e1, e2, s, r)
          BY <5>1
        <5> HIDE DEF r
        <5> QED BY <3>2, <5>2, <5>3, SetsSegments
      <4> QED BY <3>1, <4>1, <4>2
    <3>4. SegmentsOK(f)
      <4> DEFINE data == <<<<p.n, p.i>>>>
                 expected == IF Bounded(pes.header) THEN pes.length ELSE 0
                 r == [e2.stream[s] EXCEPT !.expected = expected, !.data = data, !.state = "buffer"]
      <4>1. Sets(e2, f, s, r)
        BY <3>1 DEF Begins
      <4> HIDE DEF data, expected
      <4>2. r.pad = e2.stream[s].pad /\ r.need_newsegment = e2.stream[s].need_newsegment
        BY DEF Demuxes, StreamRecs
      <4> HIDE DEF r
      <4> QED BY <3>3, <4>1, <4>2, SetsSegments
    <3> QED BY <3>4 DEF f
  <2> QED BY <2>4, <2>5
<1>3. CASE ~ (t.state = "empty" /\ p.i = 1)
  <2>1. Joins(d, f, s, p)
    BY <1>3, QueueIs
  <2>2. PICK r : Sets(d, f, s, r) /\ r.pad = t.pad /\ r.need_newsegment = t.need_newsegment
    <3> DEFINE data == Append(t.data, <<p.n, p.i>>)
               r1 == [t EXCEPT !.cc = p.cc, !.data = data]
               r2 == [t EXCEPT !.state = "discont", !.cc = None, !.data = <<>>]
    <3>1. Sets(d, f, s, r1) \/ Sets(d, f, s, r2)
      BY <2>1 DEF Joins
    <3> HIDE DEF data
    <3>2. /\ r1.pad = t.pad /\ r1.need_newsegment = t.need_newsegment
          /\ r2.pad = t.pad /\ r2.need_newsegment = t.need_newsegment
      BY <1>1 DEF StreamRecs
    <3> HIDE DEF r1, r2, f
    <3> QED BY <3>1, <3>2
  <2> HIDE DEF f
  <2>3. SegmentsOK(f)
    BY <2>2, SetsSegments
  <2> QED BY <2>3 DEF f
<1> QED BY <1>2, <1>3

LEMMA HandleSegments ==
  ASSUME NEW d \in Demuxes, NEW s \in Streams, NEW p, IsPacket(s, p), d.stream[s].pad,
         d.stream[s].state # "header", SegmentsOK(d)
  PROVE  SegmentsOK(HandlePacket(d, s, p))
<1> DEFINE a == IF p.i = 1 THEN PushPendingData(d, s) ELSE d
           e == QueueData(a, s, p)
           f == HandlePacket(d, s, p)
<1>1. a \in Demuxes /\ a.stream[s].pad /\ a.stream[s].state # "header" /\ SegmentsOK(a)
  <2>1. CASE p.i = 1
    <3>1. PushPendingData(d, s) \in Demuxes /\ Shape(PushPendingData(d, s), s) = Ejected(Shape(d, s))
      BY PushShape
    <3>2. a.stream[s].pad = d.stream[s].pad /\ a.stream[s].state = "empty"
      BY <2>1, <3>1 DEF Shape, Ejected
    <3> QED BY <2>1, <3>1, <3>2, PushSegments
  <2>2. CASE p.i # 1
    BY <2>2
  <2> QED BY <2>1, <2>2
<1> HIDE DEF a
<1>2. e \in Demuxes /\ SegmentsOK(e) /\ e.stream[s].pad
  <2>1. e \in Demuxes /\ Shape(e, s) = Queued(Shape(a, s), s, p)
    BY <1>1, QueueShape
  <2>2. Shape(e, s).pad = Shape(a, s).pad
    BY <1>1, <2>1, ShapeType, QueuedType
  <2>3. e.stream[s].pad = a.stream[s].pad
    BY <2>2 DEF Shape
  <2> QED BY <1>1, <2>1, <2>3, QueueSegments
<1>3. f = PushPendingData(e, s) \/ f = e
  BY DEF HandlePacket, a
<1> HIDE DEF e, f
<1>4. SegmentsOK(f)
  BY <1>2, <1>3, PushSegments
<1> QED BY <1>4 DEF f
-----------------------------------------------------------------------------
(* One time line *)

Clocked(d) == d.group.first # None /\ d.group.at # "before"

\* A stream of the program: its time and that of what waits is that of the clock once it has
\* been stamped.
Timed(d, t) ==
  /\ t.raw = None => t.pts = None
  /\ t.pts # None => Clocked(d)
  /\ ~ t.pending_ts =>
       /\ Clocked(d)
       /\ t.state = "buffer" => t.pts = PtsToTs(d, t.raw)
       /\ \A i \in 1 .. Len(t.pending) : t.pending[i].pts = PtsToTs(d, t.pending[i].raw)

\* All streams of the program begin at the same moment to push what they have.
TimesOK(d) ==
  /\ \A s \in Streams : d.stream[s].pad => Timed(d, d.stream[s])
  /\ \A s \in Streams : ~ d.stream[s].pad \/ d.stream[s].pending_ts => d.out[s] = <<>>
  /\ \A s, x \in Streams :
       d.stream[s].pad /\ d.stream[x].pad => d.stream[s].pending_ts = d.stream[x].pending_ts
  /\ \A s \in Streams : \A k \in 1 .. Len(d.out[s]) : d.out[s][k].pts = PtsToTs(d, d.out[s][k].raw)

LEMMA SameTimed ==
  ASSUME NEW d, NEW e, d.group = e.group, NEW t, Timed(d, t)
  PROVE  Timed(e, t)
BY SameClock DEF Timed, Clocked

LEMMA StampsTimes ==
  ASSUME NEW d \in Demuxes, NEW e, Stamps(d, e), TimesOK(d), Clocked(d),
         NEW s \in Streams, d.stream[s].pad, d.stream[s].pending_ts
  PROVE  TimesOK(e) /\ \A x \in Streams : e.stream[x].pad => ~ e.stream[x].pending_ts
<1>1. e \in Demuxes /\ e.out = d.out /\ Clocked(e)
  BY DEF Stamps, Clocked
<1>2. \A x \in Streams : d.out[x] = <<>>
  BY DEF TimesOK
<1>3. ASSUME NEW x \in Streams
      PROVE  /\ e.stream[x].pad = d.stream[x].pad
             /\ e.stream[x].pad => Timed(e, e.stream[x]) /\ e.stream[x].pending_ts = FALSE
  <2>1. CASE ~ d.stream[x].pad
    BY <2>1 DEF Stamps
  <2>2. CASE d.stream[x].pad
    <3> DEFINE t == d.stream[x]
               r == e.stream[x]
    <3>1. Stamping(e, t, r) /\ Timed(d, t) /\ t \in StreamRecs
      BY <2>2 DEF Stamps, TimesOK, Demuxes
    <3> HIDE DEF t, r
    <3>2. t.raw \in Time /\ Len(r.pending) = Len(t.pending) /\ r.raw = t.raw /\ r.state = t.state
      BY <3>1 DEF StreamRecs, Stamping
    <3>3. r.raw = None => r.pts = None
      BY <3>1, <3>2 DEF Stamping, Timed
    <3>4. r.state = "buffer" => r.pts = PtsToTs(e, r.raw)
      <4>1. CASE t.raw = None
        <5>1. PtsToTs(e, t.raw) = None
          BY <1>1, <3>2, <4>1, PtsToTsType
        <5> QED BY <3>2, <3>3, <4>1, <5>1
      <4>2. CASE t.raw # None
        BY <3>1, <3>2, <4>2 DEF Stamping
      <4> QED BY <4>1, <4>2
    <3>5. \A i \in 1 .. Len(r.pending) : r.pending[i].pts = PtsToTs(e, r.pending[i].raw)
      BY <3>1, <3>2 DEF Stamping
    <3>6. Timed(e, r)
      BY <1>1, <3>3, <3>4, <3>5 DEF Timed
    <3>7. r.pad = t.pad /\ r.pending_ts = FALSE
      BY <3>1 DEF Stamping
    <3> QED BY <3>6, <3>7 DEF r, t
  <2> QED BY <2>1, <2>2
<1>4. \A x \in Streams : Len(e.out[x]) = 0
  BY <1>1, <1>2
<1>5. \A x \in Streams : ~ e.stream[x].pad \/ e.stream[x].pending_ts => e.out[x] = <<>>
  BY <1>1, <1>2
<1>6. \A x, y \in Streams :
        e.stream[x].pad /\ e.stream[y].pad => e.stream[x].pending_ts = e.stream[y].pending_ts
  BY <1>3
<1>7. \A x \in Streams : \A k \in 1 .. Len(e.out[x]) : e.out[x][k].pts = PtsToTs(e, e.out[x][k].raw)
  BY <1>4
<1>8. \A x \in Streams : e.stream[x].pad => Timed(e, e.stream[x]) /\ ~ e.stream[x].pending_ts
  BY <1>3
<1> QED BY <1>5, <1>6, <1>7, <1>8 DEF TimesOK

LEMMA SetsTimes ==
  ASSUME NEW d, NEW e, NEW s \in Streams, NEW r, Sets(d, e, s, r), TimesOK(d),
         r.pad = d.stream[s].pad, r.pending_ts = d.stream[s].pending_ts, Timed(d, r)
  PROVE  TimesOK(e)
<1>1. /\ e.group = d.group /\ e.out = d.out /\ e.stream[s] = r
      /\ \A x \in Streams \ {s} : e.stream[x] = d.stream[x]
  BY DEF Sets
<1>2. \A x \in Streams : /\ e.stream[x].pad = d.stream[x].pad
                         /\ e.stream[x].pending_ts = d.stream[x].pending_ts
  BY <1>1
<1>3. \A x \in Streams : e.stream[x].pad => Timed(e, e.stream[x])
  <2> TAKE x \in Streams
  <2>1. CASE x = s
    BY <1>1, <2>1, SameTimed
  <2>2. CASE x # s
    <3>1. e.stream[x] = d.stream[x]
      BY <1>1, <2>2
    <3>2. d.stream[x].pad => Timed(d, d.stream[x])
      BY DEF TimesOK
    <3> QED BY <1>1, <3>1, <3>2, SameTimed
  <2> QED BY <2>1, <2>2
<1>4. \A raw : PtsToTs(d, raw) = PtsToTs(e, raw)
  BY <1>1, SameClock
<1> QED BY <1>1, <1>2, <1>3, <1>4 DEF TimesOK

LEMMA StartsTimes ==
  ASSUME NEW d \in Demuxes, NEW e, Starts(d, e), TimesOK(d)
  PROVE  TimesOK(e) /\ \A x \in Streams : e.stream[x].pad = d.stream[x].pad
                                          /\ e.stream[x].pending_ts = d.stream[x].pending_ts
<1>1. e.group = d.group /\ e.out = d.out
  BY DEF Starts
<1>2. \A raw : PtsToTs(d, raw) = PtsToTs(e, raw)
  BY <1>1, SameClock
<1>3. ASSUME NEW x \in Streams
      PROVE  /\ e.stream[x].pad = d.stream[x].pad /\ e.stream[x].pending_ts = d.stream[x].pending_ts
             /\ e.stream[x].pad => Timed(e, e.stream[x])
  <2> DEFINE t == d.stream[x]
             r == e.stream[x]
  <2>1. t \in StreamRecs /\ (r = t \/ r = [t EXCEPT !.need_newsegment = FALSE]) /\ (t.pad => Timed(d, t))
    BY DEF Demuxes, Starts, TimesOK
  <2> HIDE DEF t, r
  <2>2. /\ r.pad = t.pad /\ r.pending_ts = t.pending_ts /\ r.raw = t.raw /\ r.pts = t.pts
        /\ r.state = t.state /\ r.pending = t.pending
    BY <2>1 DEF StreamRecs
  <2>3. t.pad => Timed(d, r)
    BY <2>1, <2>2 DEF Timed
  <2>4. t.pad => Timed(e, r)
    BY <1>1, <2>3, SameTimed
  <2> QED BY <2>2, <2>4 DEF t, r
<1> QED BY <1>1, <1>2, <1>3 DEF TimesOK

LEMMA SendsTimes ==
  ASSUME NEW d \in Demuxes, NEW f, NEW s \in Streams, Sends(d, f, s), TimesOK(d),
         d.stream[s].pad, ~ d.stream[s].pending_ts
  PROVE  TimesOK(f)
<1> DEFINE t == d.stream[s]
           r == f.stream[s]
           now == Current(t)
<1>1. t \in StreamRecs /\ Timed(d, t) /\ t.state = "buffer"
  BY DEF Demuxes, TimesOK, Sends
<1>2. /\ r.pad = t.pad /\ r.pending_ts = t.pending_ts /\ r.raw = t.raw /\ r.pts = t.pts
      /\ r.state = "empty" /\ r.pending = <<>>
  <2>1. Reset(t) \in StreamRecs
    BY <1>1, ResetIs
  <2>2. r = [Reset(t) EXCEPT !.pending = <<>>]
    BY DEF Sends
  <2> HIDE DEF t, r
  <2> QED BY <1>1, <2>1, <2>2, ResetIs DEF StreamRecs
<1>3. /\ f.group = d.group /\ f.out[s] = d.out[s] \o t.pending \o <<now>>
      /\ \A x \in Streams \ {s} : f.stream[x] = d.stream[x] /\ f.out[x] = d.out[x]
  BY DEF Sends
<1>4. \A raw : PtsToTs(d, raw) = PtsToTs(f, raw)
  BY <1>3, SameClock
<1>5. Timed(f, r)
  BY <1>1, <1>2, <1>3, <1>4 DEF Timed, Clocked
<1>6. now.pts = PtsToTs(d, now.raw) /\ now \in Buffers
  BY <1>1, CurrentIs DEF Timed
<1>7. \A k \in 1 .. Len(f.out[s]) : f.out[s][k].pts = PtsToTs(f, f.out[s][k].raw)
  <2> DEFINE out == d.out[s]
             pending == t.pending
             w == out \o pending
  <2>1. out \in Seq(Buffers) /\ pending \in Seq(Buffers)
    BY <1>1 DEF Demuxes, StreamRecs
  <2>2. \A k \in 1 .. Len(out) : out[k].pts = PtsToTs(d, out[k].raw)
    BY DEF TimesOK
  <2>3. \A k \in 1 .. Len(pending) : pending[k].pts = PtsToTs(d, pending[k].raw)
    BY <1>1 DEF Timed
  <2> HIDE DEF out, pending, now
  <2>4. /\ w \in Seq(Buffers) /\ Len(w) = Len(out) + Len(pending)
        /\ \A k \in 1 .. Len(w) : w[k] = IF k <= Len(out) THEN out[k] ELSE pending[k - Len(out)]
    BY <2>1, ConcatProperties
  <2>5. ASSUME NEW k \in 1 .. Len(w) PROVE w[k].pts = PtsToTs(d, w[k].raw)
    <3>1. Len(out) \in Nat /\ Len(pending) \in Nat
      BY <2>1, LenProperties
    <3>2. CASE k <= Len(out)
      BY <2>2, <2>4, <3>1, <3>2
    <3>3. CASE ~ (k <= Len(out))
      <4>1. k - Len(out) \in 1 .. Len(pending)
        BY <2>4, <3>1, <3>3
      <4> QED BY <2>3, <2>4, <3>3, <4>1
    <3> QED BY <3>2, <3>3
  <2> HIDE DEF w
  <2>6. f.out[s] = w \o <<now>>
    BY <1>3 DEF w, out, pending
  <2>7. /\ Len(f.out[s]) = Len(w) + 1 /\ Len(w) \in Nat
        /\ \A k \in 1 .. Len(w) + 1 : f.out[s][k] = IF k <= Len(w) THEN w[k] ELSE now
    <3>1. w \o <<now>> = Append(w, now)
      BY <1>6, <2>4
    <3> QED BY <1>6, <2>4, <2>6, <3>1, AppendProperties, LenProperties
  <2>8. \A k \in 1 .. Len(w) + 1 : f.out[s][k].pts = PtsToTs(d, f.out[s][k].raw)
    BY <1>6, <2>5, <2>7
  <2> QED BY <1>4, <2>7, <2>8
<1>8. \A x \in Streams : /\ f.stream[x].pad = d.stream[x].pad
                         /\ f.stream[x].pending_ts = d.stream[x].pending_ts
                         /\ x # s => f.out[x] = d.out[x]
  BY <1>2, <1>3
<1>9. \A x \in Streams : f.stream[x].pad => Timed(f, f.stream[x])
  <2> TAKE x \in Streams
  <2>1. CASE x = s
    BY <1>5, <2>1
  <2>2. CASE x # s
    <3>1. f.stream[x] = d.stream[x]
      BY <1>3, <2>2
    <3>2. d.stream[x].pad => Timed(d, d.stream[x])
      BY DEF TimesOK
    <3> QED BY <1>3, <3>1, <3>2, SameTimed
  <2> QED BY <2>1, <2>2
<1>10. \A x \in Streams : ~ f.stream[x].pad \/ f.stream[x].pending_ts => f.out[x] = <<>>
  BY <1>8 DEF TimesOK
<1>11. \A x, y \in Streams :
         f.stream[x].pad /\ f.stream[y].pad => f.stream[x].pending_ts = f.stream[y].pending_ts
  BY <1>8 DEF TimesOK
<1>12. \A x \in Streams : \A k \in 1 .. Len(f.out[x]) : f.out[x][k].pts = PtsToTs(f, f.out[x][k].raw)
  BY <1>4, <1>7, <1>8 DEF TimesOK
<1> QED BY <1>9, <1>10, <1>11, <1>12 DEF TimesOK

LEMMA ObservedClock ==
  ASSUME NEW d \in Demuxes, Observed(d), TimesOK(d)
  PROVE  Clocked(d)
BY DEF Observed, Present, TimesOK, Timed

\* What of a stream no new buffer and no timestamp changes.
LEMMA TimedAgain ==
  ASSUME NEW d, NEW t, NEW r, Timed(d, t), r.raw = t.raw, r.pts = t.pts, r.pending_ts = t.pending_ts,
         r.pending_ts \/ r.pending = t.pending, r.state = "buffer" => t.state = "buffer"
  PROVE  Timed(d, r)
BY DEF Timed

LEMMA PushTimes ==
  ASSUME NEW d \in Demuxes, NEW s \in Streams, d.stream[s].pad, TimesOK(d)
  PROVE  TimesOK(PushPendingData(d, s))
<1> DEFINE f == PushPendingData(d, s)
           t == d.stream[s]
<1>0. t \in StreamRecs /\ Timed(d, t) /\ t.pad
  BY DEF Demuxes, TimesOK
<1>1. CASE Drops(d, f, s)
  <2> DEFINE r == Reset(t)
  <2>1. Sets(d, f, s, r)
    BY <1>1 DEF Drops
  <2>2. /\ r.pad = t.pad /\ r.pending_ts = t.pending_ts /\ r.raw = t.raw /\ r.pts = t.pts
        /\ r.pending = t.pending /\ r.state = "empty"
    BY <1>0, ResetIs
  <2> HIDE DEF f, r
  <2>3. Timed(d, r)
    BY <1>0, <2>2, TimedAgain
  <2>4. TimesOK(f)
    BY <2>1, <2>2, <2>3, SetsTimes
  <2> QED BY <2>4 DEF f
<1>2. CASE Waits(d, f, s)
  <2> DEFINE r == [Reset(t) EXCEPT !.pending = Append(t.pending, [Current(t) EXCEPT !.pts = None])]
  <2>1. Sets(d, f, s, r) /\ t.pending_ts
    BY <1>2 DEF Waits
  <2>2. /\ r.pad = t.pad /\ r.pending_ts = t.pending_ts /\ r.raw = t.raw /\ r.pts = t.pts
        /\ r.state = "empty"
    <3>1. /\ Reset(t) \in StreamRecs /\ Reset(t).pad = t.pad /\ Reset(t).pending_ts = t.pending_ts
          /\ Reset(t).raw = t.raw /\ Reset(t).pts = t.pts /\ Reset(t).state = "empty"
      BY <1>0, ResetIs
    <3> QED BY <3>1 DEF StreamRecs
  <2> HIDE DEF f, r
  <2>3. Timed(d, r)
    BY <1>0, <2>1, <2>2, TimedAgain
  <2>4. TimesOK(f)
    BY <2>1, <2>2, <2>3, SetsTimes
  <2> QED BY <2>4 DEF f
<1>3. CASE \E e1, e2 \in Demuxes :
             /\ t.data # <<>> /\ t.state = "buffer"
             /\ IF t.pending_ts THEN Observed(d) /\ Stamps(d, e1) ELSE e1 = d
             /\ IF t.need_newsegment THEN Starts(e1, e2) ELSE e2 = e1
             /\ Sends(e2, f, s)
  <2> HIDE DEF f
  <2>1. PICK e1, e2 \in Demuxes :
             /\ IF t.pending_ts THEN Observed(d) /\ Stamps(d, e1) ELSE e1 = d
             /\ IF t.need_newsegment THEN Starts(e1, e2) ELSE e2 = e1
             /\ Sends(e2, f, s)
    BY <1>3
  <2>2. TimesOK(e1) /\ e1.stream[s].pad /\ ~ e1.stream[s].pending_ts
    <3>1. CASE t.pending_ts
      <4>1. Stamps(d, e1) /\ Clocked(d)
        BY <2>1, <3>1, ObservedClock
      <4>2. TimesOK(e1) /\ \A x \in Streams : e1.stream[x].pad => ~ e1.stream[x].pending_ts
        BY <1>0, <3>1, <4>1, StampsTimes
      <4>3. e1.stream[s].pad
        BY <1>0, <4>1 DEF Stamps, Stamping
      <4> QED BY <4>2, <4>3
    <3>2. CASE ~ t.pending_ts
      BY <2>1, <3>2
    <3> QED BY <3>1, <3>2
  <2>3. TimesOK(e2) /\ e2.stream[s].pad /\ ~ e2.stream[s].pending_ts
    <3>1. CASE t.need_newsegment
      <4>1. Starts(e1, e2)
        BY <2>1, <3>1
      <4> QED BY <2>2, <4>1, StartsTimes
    <3>2. CASE ~ t.need_newsegment
      BY <2>1, <2>2, <3>2
    <3> QED BY <3>1, <3>2
  <2>4. TimesOK(f)
    BY <2>1, <2>3, SendsTimes
  <2> QED BY <2>4 DEF f
<1> QED BY <1>1, <1>2, <1>3, PushPendingDataIs

LEMMA QueueTimes ==
  ASSUME NEW d \in Demuxes, NEW s \in Streams, NEW p, IsPacket(s, p), d.stream[s].pad,
         d.stream[s].state # "header", TimesOK(d)
  PROVE  TimesOK(QueueData(d, s, p))
<1> DEFINE f == QueueData(d, s, p)
           t == d.stream[s]
<1>1. t \in StreamRecs /\ Timed(d, t) /\ t.pad
  BY DEF Demuxes, TimesOK
<1>2. CASE t.state = "empty" /\ p.i = 1
  <2> HIDE DEF f
  <2>1. PICK e \in Demuxes : Opens(d, e, s, p) /\ f = ParsePesHeader(e, s, p)
    BY <1>2, QueueIs DEF f
  <2> DEFINE u == e.stream[s]
             pes == plan[s][p.n]
             raw == PtsOf(pes.header)
  <2>2. /\ Sets(d, e, s, u) /\ u \in StreamRecs /\ u.pad = t.pad /\ u.pending_ts = t.pending_ts
        /\ u.raw = t.raw /\ u.pts = t.pts /\ u.pending = t.pending /\ u.state = "header"
    BY <1>1, <2>1 DEF Opens, Sets, StreamRecs, Demuxes
  <2>3. TimesOK(e) /\ Timed(e, u)
    <3> HIDE DEF u
    <3>1. Timed(d, u)
      BY <1>1, <2>2, TimedAgain
    <3>2. TimesOK(e)
      BY <2>2, <3>1, SetsTimes
    <3>3. d.group = e.group
      BY <2>2 DEF Sets
    <3> QED BY <3>1, <3>2, <3>3, SameTimed
  <2>4. CASE Parse(pes.header, pes.first) # "OK"
    <3> DEFINE r == [u EXCEPT !.state = "discont"]
    <3>1. Sets(e, f, s, r)
      BY <1>1, <2>1, <2>2, <2>4, ParseIs DEF IsPacket
    <3>2. /\ r.pad = u.pad /\ r.pending_ts = u.pending_ts /\ r.raw = u.raw /\ r.pts = u.pts
          /\ r.pending = u.pending /\ r.state = "discont"
      BY <2>2 DEF StreamRecs
    <3> HIDE DEF r
    <3>3. Timed(e, r)
      BY <2>3, <3>2, TimedAgain
    <3>4. TimesOK(f)
      BY <2>3, <3>1, <3>2, <3>3, SetsTimes
    <3> QED BY <3>4 DEF f
  <2>5. CASE Parse(pes.header, pes.first) = "OK"
    <3>1. PICK e1, e2 \in Demuxes :
            /\ raw \in Time /\ Reads(e, e1, s, raw)
            /\ IF u.pending_ts /\ PtsToTs(e, raw) # None THEN Observed(e1) /\ Stamps(e1, e2)
               ELSE \E first \in Time : Sets(e1, e2, s, [e1.stream[s] EXCEPT !.first = first])
            /\ Begins(e2, f, s, p)
      BY <1>1, <2>1, <2>2, <2>5, ParseIs DEF IsPacket
    <3> DEFINE pts == PtsToTs(e, raw)
               v == e1.stream[s]
    <3>2. /\ Sets(e, e1, s, v) /\ v \in StreamRecs /\ v.pad = u.pad /\ v.pending_ts = u.pending_ts
          /\ v.raw = raw /\ v.pts = pts /\ v.pending = u.pending /\ v.state = "header"
      <4>1. pts \in Time
        BY <3>1, PtsToTsType
      <4> HIDE DEF pts
      <4>2. v = [u EXCEPT !.raw = raw, !.pts = pts]
        BY <3>1 DEF Reads, Sets, pts
      <4> HIDE DEF raw
      <4> QED BY <2>2, <3>1, <4>1, <4>2 DEF Reads, Sets, StreamRecs, pts, raw
    <3>3. e1.group = e.group
      BY <3>2 DEF Sets
    <3>4. Timed(e, v)
      <4>1. v.raw = None => v.pts = None
        BY <3>1, <3>2, PtsToTsType
      <4>2. v.pts # None => Clocked(e)
        BY <3>2 DEF PtsToTs, Clocked
      <4> HIDE DEF v
      <4> QED BY <2>3, <3>2, <4>1, <4>2 DEF Timed
    <3>5. TimesOK(e1)
      <4> HIDE DEF v
      <4> QED BY <2>3, <3>2, <3>4, SetsTimes
    <3> DEFINE w == e2.stream[s]
    <3>6. TimesOK(e2) /\ w.pad /\ w.pts = PtsToTs(e2, w.raw)
      <4>1. CASE u.pending_ts /\ pts # None
        <5>1. Stamps(e1, e2)
          BY <3>1, <4>1
        <5>2. Clocked(e1)
          BY <3>2, <3>3, <3>4, <4>1 DEF Timed, Clocked
        <5>3. v.pad /\ v.pending_ts
          BY <1>1, <2>2, <3>2, <4>1
        <5>4. TimesOK(e2)
          BY <3>5, <5>1, <5>2, <5>3, StampsTimes
        <5>5. raw # None
          BY <3>1, <4>1, PtsToTsType
        <5>6. w.pad = v.pad /\ w.raw = v.raw /\ w.pts = PtsToTs(e2, v.raw)
          BY <3>2, <5>1, <5>3, <5>5 DEF Stamps, Stamping
        <5> QED BY <5>3, <5>4, <5>6
      <4>2. CASE ~ (u.pending_ts /\ pts # None)
        <5>1. PICK first \in Time : Sets(e1, e2, s, [v EXCEPT !.first = first])
          BY <3>1, <4>2
        <5>2. w = [v EXCEPT !.first = first] /\ Sets(e1, e2, s, w) /\ e2.group = e1.group
          BY <5>1 DEF Sets
        <5> HIDE DEF w, v, pts
        <5>3. /\ w.pad = v.pad /\ w.pending_ts = v.pending_ts /\ w.raw = v.raw /\ w.pts = v.pts
              /\ w.pending = v.pending /\ w.state = v.state
          BY <3>2, <5>1, <5>2 DEF StreamRecs
        <5>4. Timed(e, w)
          BY <3>4, <5>3, TimedAgain
        <5>5. Timed(e1, w)
          BY <3>3, <5>4, SameTimed
        <5>6. TimesOK(e2)
          BY <3>5, <5>2, <5>3, <5>5, SetsTimes DEF v
        <5>7. PtsToTs(e2, raw) = PtsToTs(e, raw)
          BY <3>3, <5>2, SameClock
        <5> QED BY <1>1, <2>2, <3>2, <5>3, <5>6, <5>7 DEF pts
      <4> QED BY <4>1, <4>2
    <3>7. TimesOK(f)
      <4> DEFINE data == <<<<p.n, p.i>>>>
                 expected == IF Bounded(pes.header) THEN pes.length ELSE 0
                 r == [w EXCEPT !.expected = expected, !.data = data, !.state = "buffer"]
      <4>1. Sets(e2, f, s, r)
        BY <3>1 DEF Begins
      <4> HIDE DEF data, expected
      <4>2. w \in StreamRecs /\ Timed(e2, w)
        BY <3>6 DEF Demuxes, TimesOK
      <4> HIDE DEF w
      <4>3. /\ r.pad = w.pad /\ r.pending_ts = w.pending_ts /\ r.raw = w.raw /\ r.pts = w.pts
            /\ r.pending = w.pending
        BY <4>2 DEF StreamRecs
      <4> HIDE DEF r
      <4>4. Timed(e2, r)
        BY <3>6, <4>2, <4>3 DEF Timed
      <4> QED BY <3>6, <4>1, <4>3, <4>4, SetsTimes DEF w
    <3> QED BY <3>7 DEF f
  <2> QED BY <2>4, <2>5
<1>3. CASE ~ (t.state = "empty" /\ p.i = 1)
  <2>1. Joins(d, f, s, p)
    BY <1>3, QueueIs
  <2>2. PICK r : /\ Sets(d, f, s, r) /\ r.pad = t.pad /\ r.pending_ts = t.pending_ts
                 /\ r.raw = t.raw /\ r.pts = t.pts /\ r.pending = t.pending
                 /\ r.state = "buffer" => t.state = "buffer"
    <3> DEFINE data == Append(t.data, <<p.n, p.i>>)
               r1 == [t EXCEPT !.cc = p.cc, !.data = data]
               r2 == [t EXCEPT !.state = "discont", !.cc = None, !.data = <<>>]
    <3>1. Sets(d, f, s, r1) \/ Sets(d, f, s, r2)
      BY <2>1 DEF Joins
    <3> HIDE DEF data
    <3>2. /\ r1.pad = t.pad /\ r1.pending_ts = t.pending_ts /\ r1.raw = t.raw /\ r1.pts = t.pts
          /\ r1.pending = t.pending /\ r1.state = t.state
      BY <1>1 DEF StreamRecs
    <3>3. /\ r2.pad = t.pad /\ r2.pending_ts = t.pending_ts /\ r2.raw = t.raw /\ r2.pts = t.pts
          /\ r2.pending = t.pending /\ r2.state = "discont"
      BY <1>1 DEF StreamRecs
    <3> HIDE DEF r1, r2, f
    <3> QED BY <3>1, <3>2, <3>3
  <2> HIDE DEF f
  <2>3. Timed(d, r)
    BY <1>1, <2>2, TimedAgain
  <2>4. TimesOK(f)
    BY <2>2, <2>3, SetsTimes
  <2> QED BY <2>4 DEF f
<1> QED BY <1>2, <1>3

LEMMA HandleTimes ==
  ASSUME NEW d \in Demuxes, NEW s \in Streams, NEW p, IsPacket(s, p), d.stream[s].pad,
         d.stream[s].state # "header", TimesOK(d)
  PROVE  TimesOK(HandlePacket(d, s, p))
<1> DEFINE a == IF p.i = 1 THEN PushPendingData(d, s) ELSE d
           e == QueueData(a, s, p)
           f == HandlePacket(d, s, p)
<1>1. a \in Demuxes /\ a.stream[s].pad /\ a.stream[s].state # "header" /\ TimesOK(a)
  <2>1. CASE p.i = 1
    <3>1. PushPendingData(d, s) \in Demuxes /\ Shape(PushPendingData(d, s), s) = Ejected(Shape(d, s))
      BY PushShape
    <3>2. a.stream[s].pad = d.stream[s].pad /\ a.stream[s].state = "empty"
      BY <2>1, <3>1 DEF Shape, Ejected
    <3> QED BY <2>1, <3>1, <3>2, PushTimes
  <2>2. CASE p.i # 1
    BY <2>2
  <2> QED BY <2>1, <2>2
<1> HIDE DEF a
<1>2. e \in Demuxes /\ TimesOK(e) /\ e.stream[s].pad
  <2>1. e \in Demuxes /\ Shape(e, s) = Queued(Shape(a, s), s, p)
    BY <1>1, QueueShape
  <2>2. Shape(e, s).pad = Shape(a, s).pad
    BY <1>1, <2>1, ShapeType, QueuedType
  <2>3. e.stream[s].pad = a.stream[s].pad
    BY <2>2 DEF Shape
  <2> QED BY <1>1, <2>1, <2>3, QueueTimes
<1>3. f = PushPendingData(e, s) \/ f = e
  BY DEF HandlePacket, a
<1> HIDE DEF e, f
<1>4. TimesOK(f)
  BY <1>2, <1>3, PushTimes
<1> QED BY <1>4 DEF f
-----------------------------------------------------------------------------
(* What draining and flushing leave *)

\* f is d with some streams of the program drained.
DrainedTo(d, f) ==
  /\ f \in Demuxes
  /\ \A x \in Streams : \/ Shape(f, x) = Shape(d, x)
                        \/ d.stream[x].pad /\ Shape(f, x) = Ejected(Shape(d, x))
  /\ SegmentsOK(d) => SegmentsOK(f)
  /\ TimesOK(d) => TimesOK(f)

LEMMA DrainStep ==
  ASSUME NEW d \in Demuxes, NEW e, DrainedTo(d, e), NEW s \in Streams, d.stream[s].pad
  PROVE  DrainedTo(d, PushPendingData(e, s))
<1> DEFINE f == PushPendingData(e, s)
<1>1. e \in Demuxes
  BY DEF DrainedTo
<1>2. e.stream[s].pad
  <2>1. Shape(d, s).pad = d.stream[s].pad /\ Shape(e, s).pad = e.stream[s].pad
    BY DEF Shape
  <2>2. Shape(e, s) = Shape(d, s) \/ Shape(e, s) = Ejected(Shape(d, s))
    BY DEF DrainedTo
  <2>3. Ejected(Shape(d, s)).pad = Shape(d, s).pad
    BY DEF Ejected
  <2> QED BY <2>1, <2>2, <2>3
<1>3. /\ f \in Demuxes /\ Shape(f, s) = Ejected(Shape(e, s))
      /\ \A x \in Streams \ {s} : Shape(f, x) = Shape(e, x)
  BY <1>1, PushShape
<1>4. SegmentsOK(e) => SegmentsOK(f)
  BY <1>1, <1>2, PushSegments
<1>5. TimesOK(e) => TimesOK(f)
  BY <1>1, <1>2, PushTimes
<1>6. \A h : Ejected(Ejected(h)) = Ejected(h)
  BY DEF Ejected
<1> HIDE DEF f
<1>7. Shape(f, s) = Ejected(Shape(d, s))
  <2>1. Shape(e, s) = Shape(d, s) \/ Shape(e, s) = Ejected(Shape(d, s))
    BY DEF DrainedTo
  <2> QED BY <1>3, <1>6, <2>1
<1>8. DrainedTo(d, f)
  BY <1>3, <1>4, <1>5, <1>7 DEF DrainedTo
<1> QED BY <1>8 DEF f

LEMMA DrainedKeeps ==
  ASSUME NEW d \in Demuxes
  PROVE  DrainedTo(d, Drained(d))
<1>1. PICK u : Drains(d, u) /\ Drained(d) = u[Len(StreamList)]
  BY DrainedIs
<1> DEFINE n == Len(StreamList)
           Bad == {k \in 0 .. n : ~ DrainedTo(d, u[k])}
<1>2. /\ n \in Nat
      /\ u[0] = d
      /\ \A i \in 1 .. n :
           u[i] = IF StreamList[i] \in Present(d) THEN PushPendingData(u[i - 1], StreamList[i]) ELSE u[i - 1]
  <2>1. n \in Nat
    BY ListIs
  <2> HIDE DEF n
  <2>2. u = [i \in 0 .. n |->
               IF i = 0 THEN d
               ELSE IF StreamList[i] \in Present(d) THEN PushPendingData(u[i - 1], StreamList[i]) ELSE u[i - 1]]
    BY <1>1 DEF Drains, n
  <2>3. 0 \in 0 .. n /\ \A i \in 1 .. n : i \in 0 .. n /\ i # 0
    BY <2>1
  <2>4. u[0] = d
    BY <2>2, <2>3
  <2>5. \A i \in 1 .. n :
          u[i] = IF StreamList[i] \in Present(d) THEN PushPendingData(u[i - 1], StreamList[i]) ELSE u[i - 1]
    BY <2>2, <2>3
  <2> QED BY <2>1, <2>4, <2>5
<1> HIDE DEF n
<1>3. SUFFICES ASSUME Bad # {} PROVE FALSE
  <2>1. n \in 0 .. n
    BY <1>2
  <2>2. DrainedTo(d, u[n])
    BY <1>3, <2>1
  <2> QED BY <1>1, <2>2 DEF n
<1> DEFINE k == Min(Bad)
<1>4. k \in Bad /\ \A j \in Bad : k <= j
  <2>1. Bad \in SUBSET Nat
    BY <1>2
  <2> HIDE DEF Bad
  <2> QED BY <1>3, <2>1, LeastExists
<1> HIDE DEF k
<1>5. k \in 0 .. n /\ ~ DrainedTo(d, u[k])
  BY <1>4
<1>6. k # 0
  <2>1. DrainedTo(d, d)
    BY DEF DrainedTo
  <2> QED BY <1>2, <1>5, <2>1
<1>7. DrainedTo(d, u[k - 1]) /\ k \in 1 .. n
  <2>1. k - 1 \in 0 .. n /\ ~ (k <= k - 1) /\ k \in 1 .. n
    BY <1>2, <1>5, <1>6
  <2>2. k - 1 \notin Bad
    BY <1>4, <2>1
  <2> QED BY <2>1, <2>2
<1>8. StreamList[k] \in Present(d) => StreamList[k] \in Streams /\ d.stream[StreamList[k]].pad
  BY DEF Present
<1>9. DrainedTo(d, u[k])
  BY <1>2, <1>7, <1>8, DrainStep
<1> QED BY <1>5, <1>9

\* f is d with nothing gathered, waiting or pushed.
Fresh(d, f) ==
  /\ f \in Demuxes
  /\ \A s \in Streams :
       /\ f.out[s] = <<>> /\ f.stream[s].pad = d.stream[s].pad
       /\ ~ d.stream[s].pad => f.stream[s] = d.stream[s]
       /\ d.stream[s].pad =>
            LET t == f.stream[s] IN
            /\ t.state = "empty" /\ t.data = <<>> /\ t.pending = <<>>
            /\ t.raw = None /\ t.pts = None /\ t.pending_ts

LEMMA FlushedIs ==
  ASSUME NEW t \in StreamRecs, NEW hard \in BOOLEAN
  PROVE  LET r == StreamFlushed(t, hard) IN
         /\ r \in StreamRecs /\ r.pad = t.pad /\ r.state = "empty" /\ r.data = <<>>
         /\ r.pending = <<>> /\ r.raw = None /\ r.pts = None /\ r.pending_ts
         /\ r.need_newsegment = (hard \/ t.need_newsegment)
<1> DEFINE first == IF hard THEN None ELSE t.first
           need == hard \/ t.need_newsegment
           r == StreamFlushed(t, hard)
<1>1. first \in Time /\ need \in BOOLEAN /\ None \in Time /\ <<>> \in Data /\ <<>> \in Seq(Buffers)
  BY DEF StreamRecs, Time, Data
<1>2. r = [t EXCEPT !.state = "empty", !.cc = None, !.data = <<>>, !.expected = 0,
                    !.raw = None, !.pts = None, !.pending_ts = TRUE, !.pending = <<>>,
                    !.first = first, !.need_newsegment = need]
  BY DEF StreamFlushed
<1> HIDE DEF first, need, r
<1>3. /\ r \in StreamRecs /\ r.pad = t.pad /\ r.state = "empty" /\ r.data = <<>>
      /\ r.pending = <<>> /\ r.raw = None /\ r.pts = None /\ r.pending_ts
      /\ r.need_newsegment = need
  BY <1>1, <1>2 DEF StreamRecs
<1> QED BY <1>3 DEF r, need

LEMMA StreamsFlushedIs ==
  ASSUME NEW d \in Demuxes, NEW hard \in BOOLEAN
  PROVE  LET f == StreamsFlushed(d, hard) IN
         /\ Fresh(d, f) /\ f.group = d.group /\ f.segment = d.segment
         /\ \A s \in Streams : d.stream[s].pad =>
              f.stream[s].need_newsegment = (hard \/ d.stream[s].need_newsegment)
<1> DEFINE streams == [s \in Streams |-> IF s \in Present(d) THEN StreamFlushed(d.stream[s], hard)
                                         ELSE d.stream[s]]
           out == [s \in Streams |-> <<>>]
           f == StreamsFlushed(d, hard)
<1>1. f = [d EXCEPT !.stream = streams, !.segment_event = None, !.out = out]
  BY DEF StreamsFlushed
<1>2. ASSUME NEW s \in Streams
      PROVE  /\ streams[s] \in StreamRecs /\ streams[s].pad = d.stream[s].pad
             /\ ~ d.stream[s].pad => streams[s] = d.stream[s]
             /\ d.stream[s].pad =>
                  LET t == streams[s] IN
                  /\ t.state = "empty" /\ t.data = <<>> /\ t.pending = <<>>
                  /\ t.raw = None /\ t.pts = None /\ t.pending_ts
                  /\ t.need_newsegment = (hard \/ d.stream[s].need_newsegment)
  <2>1. d.stream[s] \in StreamRecs
    BY DEF Demuxes
  <2>2. CASE d.stream[s].pad
    <3>1. streams[s] = StreamFlushed(d.stream[s], hard)
      BY <2>2 DEF Present
    <3> DEFINE r == StreamFlushed(d.stream[s], hard)
    <3>2. /\ r \in StreamRecs /\ r.pad = d.stream[s].pad /\ r.state = "empty" /\ r.data = <<>>
          /\ r.pending = <<>> /\ r.raw = None /\ r.pts = None /\ r.pending_ts
          /\ r.need_newsegment = (hard \/ d.stream[s].need_newsegment)
      BY <2>1, FlushedIs
    <3> HIDE DEF streams, r
    <3>3. streams[s] = r
      BY <3>1 DEF r
    <3> QED BY <2>2, <3>2, <3>3
  <2>3. CASE ~ d.stream[s].pad
    <3>1. streams[s] = d.stream[s]
      BY <2>3 DEF Present
    <3> HIDE DEF streams
    <3> QED BY <2>1, <2>3, <3>1
  <2> QED BY <2>2, <2>3
<1>3. streams \in [Streams -> StreamRecs] /\ out \in [Streams -> Seq(Buffers)] /\ None \in Time
  <2>1. \A s \in Streams : streams[s] \in StreamRecs
    BY <1>2
  <2> QED BY <2>1 DEF Time
<1>4. \A s \in Streams : out[s] = <<>>
  OBVIOUS
<1> HIDE DEF streams, out, f
<1>5. /\ f \in Demuxes /\ f.stream = streams /\ f.out = out /\ f.group = d.group /\ f.segment = d.segment
  BY <1>1, <1>3 DEF Demuxes
<1>6. Fresh(d, f)
  BY <1>2, <1>4, <1>5 DEF Fresh
<1> QED BY <1>2, <1>5, <1>6 DEF f

LEMMA FreshTimes ==
  ASSUME NEW d, NEW f, Fresh(d, f)
  PROVE  TimesOK(f)
<1>1. \A s \in Streams : f.stream[s].pad => Timed(f, f.stream[s])
  BY DEF Fresh, Timed
<1>2. \A s \in Streams : f.out[s] = <<>> /\ Len(f.out[s]) = 0
  BY DEF Fresh
<1>3. \A s \in Streams : f.stream[s].pad => f.stream[s].pending_ts = TRUE
  <2>1. \A s \in Streams : f.stream[s].pad => f.stream[s].pending_ts /\ f.stream[s] \in StreamRecs
    BY DEF Fresh, Demuxes
  <2> QED BY <2>1 DEF StreamRecs
<1>4. \A s, x \in Streams :
        f.stream[s].pad /\ f.stream[x].pad => f.stream[s].pending_ts = f.stream[x].pending_ts
  BY <1>3
<1> QED BY <1>1, <1>2, <1>4 DEF TimesOK

\* A stream that is not there has nothing.
LEMMA AbsentEmpty ==
  ASSUME NEW d \in Demuxes, NEW s \in Streams, ~ d.stream[s].pad, NEW src, NEW twice, NEW n,
         Line(Shape(d, s), src, twice, n)
  PROVE  d.out[s] = <<>>
<1> DEFINE w == d.out[s]
           q == d.stream[s].pending
<1>1. w \in Seq(Buffers) /\ q \in Seq(Buffers)
  BY DEF Demuxes, StreamRecs
<1>2. Datas(w \o q) = <<>>
  BY DEF Line, Shape
<1> HIDE DEF w, q
<1>3. w \o q \in Seq(Buffers) /\ Len(w \o q) = Len(w) + Len(q) /\ Len(w) \in Nat /\ Len(q) \in Nat
  BY <1>1
<1>4. Len(w \o q) = 0
  <2>1. Len(Datas(w \o q)) = Len(w \o q)
    BY <1>3, DatasOf
  <2>2. Len(<<>>) = 0
    OBVIOUS
  <2> QED BY <1>2, <2>1, <2>2
<1>5. w = <<>>
  BY <1>1, <1>3, <1>4, EmptySeq
<1> QED BY <1>5 DEF w

LEMMA FreshLine ==
  ASSUME NEW d \in Demuxes, NEW f, Fresh(d, f), NEW s \in Streams, NEW src, NEW twice, NEW n,
         Line(Shape(d, s), src, twice, n)
  PROVE  Line(Shape(f, s), src, twice, n) /\ Shape(f, s).pad = Shape(d, s).pad
<1>1. CASE ~ d.stream[s].pad
  <2>1. f.stream[s] = d.stream[s] /\ f.out[s] = d.out[s]
    BY <1>1, AbsentEmpty DEF Fresh
  <2>2. Shape(f, s) = Shape(d, s)
    BY <2>1 DEF Shape
  <2> QED BY <2>2
<1>2. CASE d.stream[s].pad
  <2>1. f.out[s] = <<>> /\ f.stream[s].pending = <<>> /\ f.stream[s].state = "empty"
        /\ f.stream[s].data = <<>> /\ f.stream[s].pad
    BY <1>2 DEF Fresh
  <2>2. f.out[s] \o f.stream[s].pending = <<>>
    BY <2>1
  <2>3. Datas(<<>>) = <<>>
    BY DEF Datas
  <2>4. /\ Shape(f, s).held = <<>> /\ Shape(f, s).state = "empty" /\ Shape(f, s).data = <<>>
        /\ Shape(f, s).pad /\ Shape(d, s).pad
    BY <1>2, <2>1, <2>2, <2>3 DEF Shape
  <2>5. Ordered(<<>>, twice, src.n)
    BY DEF Ordered
  <2>6. Shape(f, s).pad = Shape(d, s).pad
    <3>1. f.stream[s].pad = d.stream[s].pad
      BY DEF Fresh
    <3> QED BY <3>1 DEF Shape
  <2> QED BY <2>4, <2>5, <2>6 DEF Line
<1> QED BY <1>1, <1>2
-----------------------------------------------------------------------------
(* The invariant *)

Sources == [n : Nat, i : Nat, cc : 0 .. MaxCC, intact : BOOLEAN, whole : BOOLEAN,
            again : SUBSET Nat]

Types ==
  /\ \A s \in Streams : plan[s] \in Plans[s]
  /\ source \in [Streams -> Sources] /\ \A s \in Streams : Sent(source[s], plan[s])
  /\ demux \in Demuxes
  /\ faults \in 0 .. MaxFaults /\ due \in [Streams -> SUBSET Nat]
  /\ rejoined \in BOOLEAN /\ overtaken \in BOOLEAN

DemuxInv ==
  /\ Types
  /\ \A s \in Streams : Line(Shape(demux, s), source[s], source[s].again, faults)
  /\ ~ overtaken => SegmentsOK(demux)
  /\ ~ rejoined => TimesOK(demux)

Tracks == \A s \in Streams : Track(Shape(demux, s), source[s], plan[s], due[s])

LEMMA NewStreamIs ==
  /\ NewStream \in StreamRecs /\ NoGroup \in Groups
  /\ \A a \in BOOLEAN : [NewStream EXCEPT !.active = a] \in StreamRecs
<1>1. /\ None \in Time /\ None \in 0 .. MaxCC \cup {None} /\ <<>> \in Data /\ <<>> \in Seq(Buffers)
      /\ 0 \in Nat
  BY DEF Time, Data
<1>2. NewStream \in StreamRecs
  BY <1>1 DEF NewStream, StreamRecs
<1>3. NoGroup \in Groups
  BY <1>1 DEF NoGroup, Groups
<1>4. \A a \in BOOLEAN : [NewStream EXCEPT !.active = a] \in StreamRecs
  BY <1>2 DEF StreamRecs
<1> QED BY <1>2, <1>3, <1>4

\* A stream that holds nothing.
LEMMA EmptyLine ==
  ASSUME NEW h, NEW src, NEW twice, NEW n, h.held = <<>>, h.state = "empty", h.data = <<>>
  PROVE  Line(h, src, twice, n)
BY DEF Line, Ordered

LEMMA InitInv ==
  ASSUME Init
  PROVE  DemuxInv /\ Tracks
<1>1. \A s \in Streams : plan[s] \in Plans[s]
  BY DEF Init
<1>2. MaxCC \in Nat /\ MaxFaults \in Nat
  BY Numbers
<1>3. source \in [Streams -> Sources] /\ \A s \in Streams :
        /\ source[s] = [n |-> 1, i |-> 0, cc |-> MaxCC, intact |-> FALSE, whole |-> FALSE,
                         again |-> {}]
        /\ Sent(source[s], plan[s])
  <2>1. ASSUME NEW s \in Streams PROVE 1 \in 1 .. Len(plan[s]) /\ 0 \in 0 .. plan[s][1].length
    BY <1>1, PlansAre DEF PesOK
  <2>2. [n |-> 1, i |-> 0, cc |-> MaxCC, intact |-> FALSE, whole |-> FALSE, again |-> {}] \in Sources
    BY <1>2 DEF Sources
  <2> QED BY <1>2, <2>1, <2>2 DEF Init, Sent
<1>4. demux \in Demuxes
  <2>1. None \in Time /\ <<>> \in Seq(Buffers)
    BY DEF Time
  <2>2. NoGroup \in Groups /\ [NewStream EXCEPT !.active = TRUE] \in StreamRecs
    BY NewStreamIs
  <2> QED BY <2>1, <2>2 DEF Init, Demuxes
<1>5. ASSUME NEW s \in Streams
      PROVE  /\ demux.out[s] = <<>> /\ demux.stream[s].pad /\ demux.stream[s].state = "empty"
             /\ demux.stream[s].data = <<>> /\ demux.stream[s].pending = <<>>
             /\ demux.stream[s].raw = None /\ demux.stream[s].pts = None
             /\ demux.stream[s].pending_ts = TRUE /\ demux.stream[s].need_newsegment
  <2>1. demux.out[s] = <<>> /\ demux.stream[s] = [NewStream EXCEPT !.active = TRUE]
    BY DEF Init
  <2> QED BY <2>1 DEF NewStream
<1>6. Types
  <2>1. faults = 0 /\ rejoined = FALSE /\ overtaken = FALSE /\ due = [s \in Streams |-> {}]
    BY DEF Init
  <2>2. 0 \in 0 .. MaxFaults /\ {} \in SUBSET Nat /\ FALSE \in BOOLEAN
    BY <1>2
  <2>3. due \in [Streams -> SUBSET Nat]
    BY <2>1, <2>2
  <2> QED BY <1>1, <1>3, <1>4, <2>1, <2>2, <2>3 DEF Types
<1>7. ASSUME NEW s \in Streams
      PROVE  /\ Shape(demux, s).held = <<>> /\ Shape(demux, s).state = "empty"
             /\ Shape(demux, s).data = <<>> /\ Shape(demux, s).pad
  <2>1. <<>> \o <<>> = <<>>
    OBVIOUS
  <2>2. demux.out[s] \o demux.stream[s].pending = <<>>
    BY <1>5, <2>1
  <2>3. Datas(<<>>) = <<>>
    BY DEF Datas
  <2> QED BY <1>5, <2>2, <2>3 DEF Shape
<1>8. \A s \in Streams : Line(Shape(demux, s), source[s], source[s].again, faults)
  BY <1>7, EmptyLine
<1>9. SegmentsOK(demux)
  BY <1>5 DEF SegmentsOK, Served
<1>10. TimesOK(demux)
  <2>1. \A s \in Streams : Timed(demux, demux.stream[s])
    BY <1>5 DEF Timed
  <2>2. Len(<<>>) = 0
    OBVIOUS
  <2>3. \A s \in Streams : demux.out[s] = <<>>
    BY <1>5
  <2>4. \A s \in Streams : \A k \in 1 .. Len(demux.out[s]) :
          demux.out[s][k].pts = PtsToTs(demux, demux.out[s][k].raw)
    BY <2>2, <2>3
  <2>5. \A s, x \in Streams : demux.stream[s].pad /\ demux.stream[x].pad =>
          demux.stream[s].pending_ts = demux.stream[x].pending_ts
    BY <1>5
  <2> QED BY <2>1, <2>3, <2>4, <2>5 DEF TimesOK
<1>11. Tracks
  <2>1. \A s \in Streams : due[s] = {}
    BY DEF Init
  <2> QED BY <1>3, <2>1 DEF Tracks, Track
<1> QED BY <1>6, <1>8, <1>9, <1>10, <1>11 DEF DemuxInv
-----------------------------------------------------------------------------
(* Packets *)

LEMMA FollowingIs ==
  ASSUME Types, NEW s \in Streams, HasNext(s)
  PROVE  LET e == Following(s) IN
         /\ Follows(source[s], e, plan[s]) /\ Sent(e, plan[s])
         /\ e.n \in Nat /\ e.i \in Nat /\ e.cc \in 0 .. MaxCC
<1> DEFINE src == source[s]
           e == Following(s)
<1>1. Sent(src, plan[s]) /\ plan[s] \in Plans[s]
  BY DEF Types
<1>2. src.cc \in 0 .. MaxCC
  BY <1>1 DEF Sent
<1>3. e.cc = Follow(src.cc)
  BY <1>2, Following1 DEF Following
<1>4. /\ src.i = plan[s][src.n].length => e.n = src.n + 1 /\ e.i = 1
      /\ src.i # plan[s][src.n].length => e.n = src.n /\ e.i = src.i + 1
  BY DEF Following
<1>5. /\ src.i \in Nat /\ plan[s][src.n].length \in Nat /\ src.i <= plan[s][src.n].length
      /\ src.i < plan[s][src.n].length \/ src.n < Len(plan[s])
  BY <1>1, PlansAre DEF Sent, PesOK, HasNext
<1> HIDE DEF e, src
<1>6. Follows(src, e, plan[s])
  BY <1>3, <1>4, <1>5 DEF Follows
<1>7. Sent(e, plan[s])
  BY <1>1, <1>6, FollowsSent
<1>8. e.n \in Nat /\ e.i \in Nat /\ e.cc \in 0 .. MaxCC
  BY <1>1, <1>7, PlansAre DEF Sent, PesOK
<1> QED BY <1>6, <1>7, <1>8 DEF e, src

LEMMA PushIs ==
  ASSUME NEW d \in Demuxes, NEW s \in Streams, NEW p, IsPacket(s, p), Shape(d, s).state # "header"
  PROVE  LET f == Push(d, s, p) IN
         /\ f \in Demuxes
         /\ Shape(f, s) = IF Shape(d, s).pad THEN Handled(Shape(d, s), s, p) ELSE Shape(d, s)
         /\ \A x \in Streams \ {s} : Shape(f, x) = Shape(d, x)
         /\ SegmentsOK(d) => SegmentsOK(f)
         /\ TimesOK(d) => TimesOK(f)
<1>1. Shape(d, s).pad = d.stream[s].pad /\ Shape(d, s).state = d.stream[s].state
  BY DEF Shape
<1>2. CASE d.stream[s].pad
  <2>1. Push(d, s, p) = HandlePacket(d, s, p)
    BY <1>2 DEF Push, Present
  <2> QED BY <1>1, <1>2, <2>1, HandleShape, HandleSegments, HandleTimes
<1>3. CASE ~ d.stream[s].pad
  <2>1. Push(d, s, p) = d
    BY <1>3 DEF Push, Present
  <2> QED BY <1>1, <1>3, <2>1
<1> QED BY <1>2, <1>3

LEMMA AbsentLine ==
  ASSUME NEW h, ~ h.pad, NEW src, NEW new, NEW some, NEW twice, NEW m, NEW n, Line(h, src, some, m)
  PROVE  Line(h, new, twice, n)
BY DEF Line, Ordered

LEMMA StreamIs ==
  ASSUME DemuxInv, NEW s \in Streams
  PROVE  /\ Shape(demux, s) \in Shapes /\ plan[s] \in Plans[s] /\ Sent(source[s], plan[s])
         /\ Line(Shape(demux, s), source[s], source[s].again, faults) /\ Shape(demux, s).state # "header"
         /\ faults \in Nat /\ faults <= MaxFaults /\ source[s] \in Sources
<1>1. demux \in Demuxes /\ faults \in 0 .. MaxFaults /\ Line(Shape(demux, s), source[s], source[s].again, faults)
  BY DEF DemuxInv, Types
<1>2. Shape(demux, s) \in Shapes
  BY <1>1, ShapeType
<1> QED BY <1>1, <1>2, Numbers DEF DemuxInv, Types, Line

LEMMA PacketStep ==
  ASSUME DemuxInv, NEW s \in Streams, Packet(s)
  PROVE  DemuxInv' /\ (Tracks => Tracks')
<1> DEFINE e == Following(s)
           h == Shape(demux, s)
           src == source[s]
           intact == Good(plan[s][e.n]) /\ (e.i = 1 \/ src.intact)
           new == [n |-> e.n, i |-> e.i, cc |-> e.cc, intact |-> intact,
                   whole |-> intact /\ e.i = plan[s][e.n].length, again |-> src.again]
           owed == due[s] \cup Owes(src, e, plan[s])
<1>1. Types /\ HasNext(s) /\ demux \in Demuxes
  BY DEF DemuxInv, Types, Packet
<1>2. /\ Follows(src, e, plan[s]) /\ Sent(e, plan[s])
      /\ e.n \in Nat /\ e.i \in Nat /\ e.cc \in 0 .. MaxCC
  BY <1>1, FollowingIs
<1>3. /\ h \in Shapes /\ plan[s] \in Plans[s] /\ Sent(src, plan[s]) /\ Line(h, src, src.again, faults)
      /\ h.state # "header" /\ faults \in Nat /\ faults <= MaxFaults /\ src \in Sources
  BY StreamIs
<1>4. new \in Sources /\ Sent(new, plan[s]) /\ Came(src, e, plan[s], new)
  BY <1>2, <1>3 DEF Sources, Sent, Came
<1>5. owed \in SUBSET Nat
  <2>1. due[s] \in SUBSET Nat
    BY DEF DemuxInv, Types
  <2>2. src.n \in Nat
    BY <1>3 DEF Sources
  <2> QED BY <1>2, <2>1, <2>2 DEF Owes
<1>6. /\ demux' = Push(demux, s, e) /\ source' = [source EXCEPT ![s] = new]
      /\ due' = [due EXCEPT ![s] = IF h.pad THEN owed ELSE due[s]]
      /\ plan' = plan /\ faults' = faults /\ rejoined' = rejoined /\ overtaken' = overtaken
  <2>1. Whole(s, e) = Owes(src, e, plan[s])
    BY DEF Whole, Owes
  <2>2. s \in Present(demux) <=> h.pad
    BY DEF Present, Shape
  <2> HIDE DEF owed
  <2>3. owed = due[s] \cup Whole(s, e)
    BY <2>1 DEF owed
  <2> QED BY <2>2, <2>3 DEF Packet
<1> HIDE DEF e, h, src, new, owed
<1>7. e.i >= 1 /\ IsPacket(s, e)
  <2>1. e.i >= 1
    BY <1>2, <1>3, FollowsSent
  <2> QED BY <1>2, <1>3, <2>1 DEF IsPacket, Sent
<1>8. /\ demux' \in Demuxes
      /\ Shape(demux', s) = IF h.pad THEN Handled(h, s, e) ELSE h
      /\ \A x \in Streams \ {s} : Shape(demux', x) = Shape(demux, x)
      /\ SegmentsOK(demux) => SegmentsOK(demux')
      /\ TimesOK(demux) => TimesOK(demux')
  BY <1>1, <1>3, <1>6, <1>7, PushIs DEF h
<1>9. /\ source' \in [Streams -> Sources] /\ source'[s] = new
      /\ \A x \in Streams \ {s} : source'[x] = source[x]
  BY <1>4, <1>6 DEF DemuxInv, Types
<1>10. /\ due' \in [Streams -> SUBSET Nat] /\ due'[s] = IF h.pad THEN owed ELSE due[s]
       /\ \A x \in Streams \ {s} : due'[x] = due[x]
  <2>1. due \in [Streams -> SUBSET Nat]
    BY DEF DemuxInv, Types
  <2> QED BY <1>5, <1>6, <2>1
<1>11. Types'
  BY <1>4, <1>6, <1>8, <1>9, <1>10 DEF DemuxInv, Types
<1>12. Line(Shape(demux', s), new, new.again, faults)
  <2>1. CASE h.pad
    <3>1. Line(Handled(h, s, e), e, src.again, faults)
      BY <1>2, <1>3, <2>1, PacketLine
    <3>2. new.n = e.n /\ new.i = e.i /\ new.cc = e.cc /\ new.again = src.again
      BY DEF new
    <3> QED BY <1>8, <2>1, <3>1, <3>2 DEF Line, Gathers
  <2>2. CASE ~ h.pad
    BY <1>3, <1>8, <2>2, AbsentLine
  <2> QED BY <2>1, <2>2
<1>13. DemuxInv'
  <2>1. \A x \in Streams : Line(Shape(demux', x), source'[x], source'[x].again, faults')
    BY <1>6, <1>8, <1>9, <1>12 DEF DemuxInv
  <2> QED BY <1>6, <1>8, <1>11, <2>1 DEF DemuxInv
<1>14. ASSUME Tracks PROVE Tracks'
  <2>1. Track(h, src, plan[s], due[s])
    BY <1>14 DEF Tracks, h, src
  <2>2. Track(Shape(demux', s), new, plan[s], due'[s])
    <3>1. CASE h.pad
      <4>1. Track(Handled(h, s, e), new, plan[s], due[s] \cup Owes(src, e, plan[s]))
        BY <1>2, <1>3, <1>4, <1>14, <2>1, <3>1, PacketTrack
      <4> QED BY <1>8, <1>10, <3>1, <4>1 DEF owed
    <3>2. CASE ~ h.pad
      <4>1. new.whole => new.intact /\ new.i = plan[s][new.n].length
        BY DEF new
      <4> QED BY <1>8, <1>10, <2>1, <3>2, <4>1 DEF Track
    <3> QED BY <3>1, <3>2
  <2>3. \A x \in Streams : Track(Shape(demux', x), source'[x], plan'[x], due'[x])
    BY <1>6, <1>8, <1>9, <1>10, <1>14, <2>2 DEF Tracks
  <2> QED BY <2>3 DEF Tracks
<1> QED BY <1>13, <1>14

LEMMA LineUp ==
  ASSUME NEW h, NEW src, src.cc \in 0 .. MaxCC, NEW twice, NEW n \in Nat, Line(h, src, twice, n)
  PROVE  Line(h, src, twice, n + 1)
<1>1. ASSUME h.cc \in 0 .. MaxCC PROVE Behind(h.cc, src.cc) \in 0 .. MaxCC
  BY <1>1, Distance
<1> QED BY <1>1, Numbers DEF Line, Gathers

\* What a fault does to the streams, if it changes the shape of one at most.
LEMMA FaultStep ==
  ASSUME DemuxInv, NEW s \in Streams, faults' = faults + 1, faults < MaxFaults, plan' = plan,
         demux' \in Demuxes, \A x \in Streams \ {s} : Shape(demux', x) = Shape(demux, x),
         SegmentsOK(demux) => SegmentsOK(demux'), TimesOK(demux) => TimesOK(demux'),
         NEW new \in Sources, Sent(new, plan[s]), source' = [source EXCEPT ![s] = new],
         due' = due, rejoined' = rejoined, overtaken' = overtaken,
         Line(Shape(demux', s), new, new.again, faults + 1),
         Track(Shape(demux, s), source[s], plan[s], due[s]) =>
           Track(Shape(demux', s), new, plan[s], due[s])
  PROVE  DemuxInv' /\ (Tracks => Tracks')
<1>1. /\ source' \in [Streams -> Sources] /\ source'[s] = new
      /\ \A x \in Streams \ {s} : source'[x] = source[x]
  BY DEF DemuxInv, Types
<1>2. faults \in Nat /\ faults' \in 0 .. MaxFaults
  BY Numbers DEF DemuxInv, Types
<1>3. Types'
  BY <1>1, <1>2 DEF DemuxInv, Types
<1>4. \A x \in Streams : Line(Shape(demux', x), source'[x], source'[x].again, faults')
  <2>1. ASSUME NEW x \in Streams \ {s} PROVE Line(Shape(demux, x), source[x], source[x].again, faults + 1)
    <3>1. Line(Shape(demux, x), source[x], source[x].again, faults) /\ source[x].cc \in 0 .. MaxCC
      BY DEF DemuxInv, Types, Sources
    <3> QED BY <1>2, <3>1, LineUp
  <2> QED BY <1>1, <2>1
<1>5. DemuxInv'
  BY <1>3, <1>4 DEF DemuxInv
<1>6. ASSUME Tracks PROVE Tracks'
  <2>1. Track(Shape(demux, s), source[s], plan[s], due[s])
    BY <1>6 DEF Tracks
  <2>2. Track(Shape(demux', s), new, plan[s], due[s])
    BY <2>1
  <2>3. \A x \in Streams : Track(Shape(demux', x), source'[x], plan'[x], due'[x])
    BY <1>1, <1>6, <2>2 DEF Tracks
  <2> QED BY <2>3 DEF Tracks
<1> QED BY <1>5, <1>6

LEMMA LoseStep ==
  ASSUME DemuxInv, NEW s \in Streams, Lose(s)
  PROVE  DemuxInv' /\ (Tracks => Tracks')
<1> DEFINE e == Following(s)
           h == Shape(demux, s)
           src == source[s]
           new == [n |-> e.n, i |-> e.i, cc |-> e.cc, intact |-> FALSE, whole |-> FALSE,
                   again |-> src.again]
<1>1. Types /\ HasNext(s) /\ demux \in Demuxes
  BY DEF DemuxInv, Types, Lose
<1>2. /\ Follows(src, e, plan[s]) /\ Sent(e, plan[s])
      /\ e.n \in Nat /\ e.i \in Nat /\ e.cc \in 0 .. MaxCC
  BY <1>1, FollowingIs
<1>3. /\ h \in Shapes /\ plan[s] \in Plans[s] /\ Sent(src, plan[s]) /\ Line(h, src, src.again, faults)
      /\ faults \in Nat /\ src \in Sources
  BY StreamIs
<1>4. /\ new \in Sources /\ Sent(new, plan[s]) /\ ~ new.intact /\ ~ new.whole
      /\ new.n = e.n /\ new.i = e.i /\ new.cc = e.cc /\ new.again = src.again
  BY <1>2, <1>3 DEF Sources, Sent
<1>5. /\ demux' = demux /\ source' = [source EXCEPT ![s] = new] /\ plan' = plan /\ due' = due
      /\ faults < MaxFaults /\ faults' = faults + 1 /\ rejoined' = rejoined
      /\ overtaken' = overtaken
  BY DEF Lose
<1> HIDE DEF e, h, src, new
<1>6. Line(h, e, src.again, faults + 1)
  BY <1>2, <1>3, <1>5, LostLine
<1>7. Line(h, new, new.again, faults + 1)
  BY <1>4, <1>6 DEF Line, Gathers
<1>8. Shape(demux', s) = h /\ \A x \in Streams : Shape(demux', x) = Shape(demux, x)
  BY <1>5 DEF h
<1>9. Track(h, src, plan[s], due[s]) => Track(h, new, plan[s], due[s])
  BY <1>4, FaultTrack
<1> QED BY <1>1, <1>4, <1>5, <1>7, <1>8, <1>9, FaultStep DEF h, src

LEMMA SourceChanged ==
  ASSUME NEW src \in Sources, NEW intact, NEW whole, NEW again
  PROVE  [src EXCEPT !.intact = intact, !.whole = whole, !.again = again] =
         [n |-> src.n, i |-> src.i, cc |-> src.cc, intact |-> intact, whole |-> whole,
          again |-> again]
<1> DEFINE a == [src EXCEPT !.intact = intact]
           b == [a EXCEPT !.whole = whole]
           c == [b EXCEPT !.again = again]
<1>1. src = [n |-> src.n, i |-> src.i, cc |-> src.cc, intact |-> src.intact,
             whole |-> src.whole, again |-> src.again]
  BY DEF Sources
<1>2. a = [n |-> src.n, i |-> src.i, cc |-> src.cc, intact |-> intact,
           whole |-> src.whole, again |-> src.again]
  BY <1>1
<1> HIDE DEF a
<1>3. b = [n |-> src.n, i |-> src.i, cc |-> src.cc, intact |-> intact,
           whole |-> whole, again |-> src.again]
  BY <1>2
<1> HIDE DEF b
<1>4. c = [n |-> src.n, i |-> src.i, cc |-> src.cc, intact |-> intact,
           whole |-> whole, again |-> again]
  BY <1>3
<1>5. c = [src EXCEPT !.intact = intact, !.whole = whole, !.again = again]
  BY DEF a, b
<1> HIDE DEF c
<1> QED BY <1>4, <1>5

LEMMA RepeatStep ==
  ASSUME DemuxInv, NEW s \in Streams, Repeat(s)
  PROVE  DemuxInv' /\ (Tracks => Tracks')
<1> DEFINE src == source[s]
           e == [n |-> src.n, i |-> src.i, cc |-> src.cc]
           h == Shape(demux, s)
           intact == e.i = 1 /\ Good(plan[s][e.n])
           again == IF e.i = 1 THEN src.again \cup {e.n} ELSE src.again
           new == [n |-> e.n, i |-> e.i, cc |-> e.cc, intact |-> intact,
                   whole |-> intact /\ e.i = plan[s][e.n].length, again |-> again]
<1>1. demux \in Demuxes
  BY DEF DemuxInv, Types
<1>2. /\ h \in Shapes /\ plan[s] \in Plans[s] /\ Sent(src, plan[s])
      /\ Line(h, src, src.again, faults)
      /\ faults \in Nat /\ h.state # "header" /\ src \in Sources
  BY StreamIs
<1>3. /\ demux' = Push(demux, s, e) /\ source' = [source EXCEPT ![s] = new] /\ plan' = plan
      /\ due' = due /\ faults < MaxFaults /\ faults' = faults + 1 /\ rejoined' = rejoined
      /\ overtaken' = overtaken /\ src.i > 0
  <2>1. source' = [source EXCEPT ![s].intact = intact,
                                 ![s].whole = intact /\ e.i = plan[s][e.n].length,
                                 ![s].again = IF e.i = 1 THEN @ \cup {e.n} ELSE @]
    BY DEF Repeat
  <2>2. source \in [Streams -> Sources]
    BY DEF DemuxInv, Types
  <2> DEFINE whole == intact /\ e.i = plan[s][e.n].length
             changed == [src EXCEPT !.intact = intact, !.whole = whole, !.again = again]
  <2>3. source' = [source EXCEPT ![s] = changed]
    BY <2>1, <2>2
  <2> HIDE DEF intact, whole, again
  <2>4. changed = [n |-> e.n, i |-> e.i, cc |-> e.cc, intact |-> intact, whole |-> whole,
                   again |-> again]
    <3>1. e.n = src.n /\ e.i = src.i /\ e.cc = src.cc
      OBVIOUS
    <3>2. changed = [n |-> src.n, i |-> src.i, cc |-> src.cc, intact |-> intact, whole |-> whole,
                     again |-> again]
      <4>1. src \in Sources
        BY <1>2
      <4> HIDE DEF src
      <4> QED BY <4>1, SourceChanged
    <3> QED BY <3>1, <3>2
  <2>5. changed = new
    BY <2>4 DEF whole
  <2> HIDE DEF changed, new
  <2>6. source' = [source EXCEPT ![s] = new]
    BY <2>3, <2>5
  <2> QED BY <2>6 DEF Repeat
<1>4. /\ new \in Sources /\ new.n = src.n /\ new.i = src.i /\ new.cc = src.cc /\ new.again = again
  <2>1. /\ e.n \in Nat /\ e.i \in Nat /\ e.cc \in 0 .. MaxCC /\ again \in SUBSET Nat
        /\ intact \in BOOLEAN
    BY <1>2 DEF Sources
  <2> HIDE DEF intact, again
  <2> QED BY <2>1 DEF Sources
<1>5. Sent(new, plan[s]) /\ CameAgain(src, plan[s], new)
  BY <1>2, <1>4 DEF Sent, CameAgain
<1>6. e.n = src.n /\ e.i = src.i /\ e.cc = src.cc
  OBVIOUS
<1> HIDE DEF e, h, src, new
<1>7. IsPacket(s, e)
  <2>1. src.i \in Nat
    BY <1>2 DEF Sources
  <2> QED BY <1>2, <1>3, <1>6, <2>1 DEF IsPacket, Sent
<1>8. /\ demux' \in Demuxes
      /\ Shape(demux', s) = IF h.pad THEN Handled(h, s, e) ELSE h
      /\ \A x \in Streams \ {s} : Shape(demux', x) = Shape(demux, x)
      /\ SegmentsOK(demux) => SegmentsOK(demux')
      /\ TimesOK(demux) => TimesOK(demux')
  BY <1>1, <1>2, <1>3, <1>7, PushIs DEF h
<1>9. Line(Shape(demux', s), new, new.again, faults + 1)
  <2>1. CASE h.pad
    <3>1. Line(Handled(h, s, e), src, again, faults + 1)
      BY <1>2, <1>3, <1>6, <2>1, RepeatLine
    <3> HIDE DEF again
    <3> QED BY <1>4, <1>8, <2>1, <3>1 DEF Line, Gathers
  <2>2. CASE ~ h.pad
    BY <1>2, <1>8, <2>2, AbsentLine
  <2> QED BY <2>1, <2>2
<1>10. ASSUME Track(h, src, plan[s], due[s])
       PROVE  Track(Shape(demux', s), new, plan[s], due[s])
  <2>1. CASE h.pad
    <3>1. Track(Handled(h, s, e), new, plan[s], due[s])
      BY <1>2, <1>5, <1>6, <1>7, <1>10, <2>1, AgainTrack
    <3> QED BY <1>8, <2>1, <3>1
  <2>2. CASE ~ h.pad
    <3>1. new.whole => new.intact /\ new.i = plan[s][new.n].length
      BY <1>4, <1>5 DEF CameAgain
    <3> QED BY <1>8, <1>10, <2>2, <3>1 DEF Track
  <2> QED BY <2>1, <2>2
<1> QED BY <1>3, <1>4, <1>5, <1>8, <1>9, <1>10, FaultStep DEF h, src
-----------------------------------------------------------------------------
(* The clock *)

\* Only the group of the clock is another.
Regroups(d, f) ==
  /\ f \in Demuxes /\ f.stream = d.stream /\ f.segment = d.segment /\ f.out = d.out
  /\ f.segment_event = d.segment_event

LEMMA RegroupsKeeps ==
  ASSUME NEW d, NEW f, Regroups(d, f)
  PROVE  (\A s \in Streams : Shape(f, s) = Shape(d, s)) /\ (SegmentsOK(d) => SegmentsOK(f))
<1>1. \A s \in Streams : f.stream[s] = d.stream[s] /\ f.out[s] = d.out[s] /\ f.segment[s] = d.segment[s]
  BY DEF Regroups
<1>2. \A s \in Streams : Shape(f, s) = Shape(d, s)
  BY <1>1 DEF Shape
<1>3. SegmentsOK(d) => SegmentsOK(f)
  BY <1>1 DEF SegmentsOK, Served
<1> QED BY <1>2, <1>3

\* What had a time keeps it.
LEMMA RegroupsTimes ==
  ASSUME NEW d, NEW f, Regroups(d, f), TimesOK(d),
         Clocked(d) => Clocked(f) /\ f.group.first = d.group.first
                       /\ f.group.pcr_offset = d.group.pcr_offset
  PROVE  TimesOK(f)
<1>1. \A s \in Streams : f.stream[s] = d.stream[s] /\ f.out[s] = d.out[s]
  BY DEF Regroups
<1>2. ASSUME Clocked(d) PROVE \A raw : PtsToTs(f, raw) = PtsToTs(d, raw)
  <2>1. f.group.at # "before" /\ d.group.at # "before"
    BY <1>2 DEF Clocked
  <2> QED BY <1>2, <2>1 DEF PtsToTs
<1>3. ASSUME NEW s \in Streams, f.stream[s].pad PROVE Timed(f, f.stream[s])
  <2>1. Timed(d, d.stream[s]) /\ f.stream[s] = d.stream[s]
    BY <1>1, <1>3 DEF TimesOK
  <2> QED BY <1>2, <2>1 DEF Timed
<1>4. \A s \in Streams : ~ f.stream[s].pad \/ f.stream[s].pending_ts => f.out[s] = <<>>
  BY <1>1 DEF TimesOK
<1>5. \A s, x \in Streams :
        f.stream[s].pad /\ f.stream[x].pad => f.stream[s].pending_ts = f.stream[x].pending_ts
  BY <1>1 DEF TimesOK
<1>6. ASSUME NEW s \in Streams, NEW k \in 1 .. Len(f.out[s])
      PROVE  f.out[s][k].pts = PtsToTs(f, f.out[s][k].raw)
  <2>1. d.out[s][k].pts = PtsToTs(d, d.out[s][k].raw) /\ k \in 1 .. Len(d.out[s])
    BY <1>1, <1>6 DEF TimesOK
  <2>2. d.stream[s].pad /\ ~ d.stream[s].pending_ts
    <3>1. d.out[s] = <<>> => Len(d.out[s]) = 0
      OBVIOUS
    <3>2. d.out[s] # <<>>
      BY <2>1, <3>1
    <3> QED BY <3>2 DEF TimesOK
  <2>3. Clocked(d)
    BY <2>2 DEF TimesOK, Timed
  <2> QED BY <1>1, <1>2, <2>1, <2>3
<1> QED BY <1>3, <1>4, <1>5, <1>6 DEF TimesOK

\* A step that leaves what the streams have gathered and pushed.
LEMMA QuietStep ==
  ASSUME DemuxInv, demux' \in Demuxes, \A s \in Streams : Shape(demux', s) = Shape(demux, s),
         SegmentsOK(demux) => SegmentsOK(demux'), TimesOK(demux) => TimesOK(demux'),
         UNCHANGED <<plan, source, faults, due, rejoined, overtaken>>
  PROVE  DemuxInv' /\ (Tracks => Tracks')
<1>1. Types'
  BY DEF DemuxInv, Types
<1> QED BY <1>1 DEF DemuxInv, Tracks

\* A step that changes the clock or the mode only.
LEMMA RegroupsStep ==
  ASSUME DemuxInv, Regroups(demux, demux'), TimesOK(demux) => TimesOK(demux'),
         UNCHANGED <<plan, source, faults, due, rejoined, overtaken>>
  PROVE  DemuxInv' /\ (Tracks => Tracks')
<1>1. (\A s \in Streams : Shape(demux', s) = Shape(demux, s)) /\ (SegmentsOK(demux) => SegmentsOK(demux'))
  BY RegroupsKeeps
<1>2. demux' \in Demuxes
  BY DEF Regroups
<1> QED BY <1>1, <1>2, QuietStep

LEMMA PcrStep ==
  ASSUME DemuxInv, NEW pcr \in Pcrs, Pcr(pcr)
  PROVE  DemuxInv' /\ (Tracks => Tracks')
<1> DEFINE g == [NoGroup EXCEPT !.first = pcr]
<1>1. demux \in Demuxes /\ demux.group = NoGroup /\ demux' = [demux EXCEPT !.group = g]
  BY DEF DemuxInv, Types, Pcr
<1>2. g \in Groups
  BY Numbers DEF NoGroup, Groups, Time
<1> HIDE DEF g
<1>3. Regroups(demux, demux')
  BY <1>1, <1>2 DEF Regroups, Demuxes
<1>4. ~ Clocked(demux)
  BY <1>1 DEF Clocked, NoGroup
<1>5. TimesOK(demux) => TimesOK(demux')
  BY <1>3, <1>4, RegroupsTimes
<1> QED BY <1>3, <1>5, RegroupsStep DEF Pcr

LEMMA PcrAgainStep ==
  ASSUME DemuxInv, PcrAgain
  PROVE  DemuxInv' /\ (Tracks => Tracks')
<1> DEFINE at == IF demux.group.at = "before" THEN "within" ELSE "current"
           g == [demux.group EXCEPT !.at = at]
<1>1. demux \in Demuxes /\ demux' = [demux EXCEPT !.group = g]
  BY DEF DemuxInv, Types, PcrAgain
<1>2. demux.group \in Groups
  BY <1>1 DEF Demuxes
<1>3. /\ g \in Groups /\ g.first = demux.group.first /\ g.pcr_offset = demux.group.pcr_offset
      /\ g.at # "before"
  BY <1>2 DEF Groups
<1> HIDE DEF g
<1>4. Regroups(demux, demux') /\ demux'.group = g
  BY <1>1, <1>3 DEF Regroups, Demuxes
<1>5. Clocked(demux) => Clocked(demux')
  BY <1>3, <1>4 DEF Clocked
<1>6. TimesOK(demux) => TimesOK(demux')
  BY <1>3, <1>4, <1>5, RegroupsTimes
<1> QED BY <1>4, <1>6, RegroupsStep DEF PcrAgain
-----------------------------------------------------------------------------
(* Flushes and seeks *)

\* What is left of the streams at a flush: nothing but what a stream that is absent had.
LEMMA ForgetStep ==
  ASSUME DemuxInv, Forget, demux' \in Demuxes, TimesOK(demux'),
         overtaken' \in BOOLEAN, ~ overtaken' => SegmentsOK(demux'),
         \A s \in Streams : Line(Shape(demux', s), source[s], source[s].again, faults)
  PROVE  DemuxInv' /\ (Tracks => Tracks')
<1>1. /\ due' = [s \in Streams |-> {}] /\ rejoined' = FALSE /\ plan' = plan /\ faults' = faults
      /\ source' = [s \in Streams |-> [source[s] EXCEPT !.intact = FALSE, !.whole = FALSE]]
  BY DEF Forget
<1>2. ASSUME NEW s \in Streams
      PROVE  /\ source'[s] \in Sources /\ source'[s].n = source[s].n /\ source'[s].i = source[s].i
             /\ source'[s].cc = source[s].cc /\ source'[s].intact = FALSE /\ source'[s].whole = FALSE
             /\ source'[s].again = source[s].again
             /\ Sent(source'[s], plan'[s])
  <2>1. source[s] \in Sources /\ Sent(source[s], plan[s])
    BY DEF DemuxInv, Types
  <2> DEFINE r == [source[s] EXCEPT !.intact = FALSE, !.whole = FALSE]
  <2>2. source'[s] = r
    BY <1>1
  <2>3. /\ r \in Sources /\ r.n = source[s].n /\ r.i = source[s].i
        /\ r.cc = source[s].cc /\ r.intact = FALSE /\ r.whole = FALSE
        /\ r.again = source[s].again
    BY <2>1 DEF Sources
  <2> HIDE DEF r
  <2> QED BY <1>1, <2>1, <2>2, <2>3 DEF Sent
<1>3. source' \in [Streams -> Sources]
  <2>1. source' = [s \in Streams |-> source'[s]]
    BY <1>1
  <2> QED BY <1>2, <2>1
<1>4. due' \in [Streams -> SUBSET Nat] /\ \A s \in Streams : due'[s] = {}
  BY <1>1
<1>5. Types'
  BY <1>1, <1>2, <1>3, <1>4 DEF DemuxInv, Types
<1>6. \A s \in Streams : Line(Shape(demux', s), source'[s], source'[s].again, faults')
  <2>1. ASSUME NEW s \in Streams PROVE Line(Shape(demux', s), source'[s], source[s].again, faults)
    BY <1>2 DEF Line, Gathers
  <2> QED BY <1>1, <1>2, <2>1
<1>7. DemuxInv'
  BY <1>5, <1>6 DEF DemuxInv
<1>8. Tracks'
  BY <1>2, <1>4 DEF Tracks, Track
<1> QED BY <1>7, <1>8

LEMMA ClosedIs ==
  ASSUME NEW d \in Demuxes, NEW at \in {"before", "within"}
  PROVE  Regroups(d, Closed(d, at))
<1> DEFINE g == [d.group EXCEPT !.at = at]
<1>1. d.group \in Groups
  BY DEF Demuxes
<1>2. g \in Groups
  BY <1>1 DEF Groups
<1>3. CASE d.group = NoGroup
  BY <1>3 DEF Closed, Regroups
<1>4. CASE d.group # NoGroup
  <2>1. Closed(d, at) = [d EXCEPT !.group = g]
    BY <1>4 DEF Closed
  <2> HIDE DEF g
  <2> QED BY <1>2, <2>1 DEF Regroups, Demuxes
<1> QED BY <1>3, <1>4

LEMMA FreshAgain ==
  ASSUME NEW d, NEW f, NEW e, Fresh(d, f), Regroups(f, e)
  PROVE  Fresh(d, e)
BY DEF Fresh, Regroups

LEMMA DiscontStep ==
  ASSUME DemuxInv, NEW at \in {"before", "within"}, Discont(at)
  PROVE  DemuxInv' /\ (Tracks => Tracks')
<1> DEFINE d == Drained(demux)
           f == StreamsFlushed(d, FALSE)
           e == Closed(f, at)
<1>1. /\ demux \in Demuxes /\ Forget /\ demux' = e /\ overtaken' = overtaken
      /\ ~ overtaken => SegmentsOK(demux)
  BY DEF DemuxInv, Types, Discont
<1>2. DrainedTo(demux, d)
  BY <1>1, DrainedKeeps
<1> HIDE DEF d
<1>3. d \in Demuxes /\ (~ overtaken => SegmentsOK(d))
  BY <1>1, <1>2 DEF DrainedTo
<1>4. /\ Fresh(d, f) /\ f.group = d.group /\ f.segment = d.segment
      /\ \A s \in Streams : d.stream[s].pad =>
           f.stream[s].need_newsegment = (FALSE \/ d.stream[s].need_newsegment)
  BY <1>3, StreamsFlushedIs
<1> HIDE DEF f
<1>5. f \in Demuxes
  BY <1>4 DEF Fresh
<1>6. Regroups(f, e)
  BY <1>5, ClosedIs
<1> HIDE DEF e
<1>7. Fresh(d, e) /\ e \in Demuxes
  BY <1>4, <1>6, FreshAgain DEF Regroups
<1>8. \A s \in Streams : Line(Shape(d, s), source[s], source[s].again, faults)
  <2>1. ASSUME NEW s \in Streams PROVE Line(Shape(d, s), source[s], source[s].again, faults)
    <3>1. /\ Shape(demux, s) \in Shapes /\ Line(Shape(demux, s), source[s], source[s].again, faults)
          /\ faults \in Nat /\ source[s].n \in Nat
      BY StreamIs DEF Sources
    <3>2. Line(Ejected(Shape(demux, s)), source[s], source[s].again, faults)
      BY <3>1, EjectedLine
    <3> QED BY <1>2, <3>1, <3>2 DEF DrainedTo
  <2> QED BY <2>1
<1>9. \A s \in Streams : Line(Shape(e, s), source[s], source[s].again, faults)
  BY <1>3, <1>7, <1>8, FreshLine
<1>10. TimesOK(e)
  BY <1>3, <1>7, FreshTimes
<1>11. ASSUME ~ overtaken PROVE SegmentsOK(f)
  <2>1. \A s \in Streams : f.stream[s].pad = d.stream[s].pad /\ f.out[s] = <<>>
                           /\ f.segment[s] = d.segment[s]
    BY <1>4 DEF Fresh
  <2>2. \A s \in Streams : d.stream[s].pad =>
          f.stream[s].need_newsegment = d.stream[s].need_newsegment
    <3>1. \A s \in Streams : d.stream[s] \in StreamRecs
      BY <1>3 DEF Demuxes
    <3>2. \A s \in Streams : d.stream[s].need_newsegment \in BOOLEAN
      BY <3>1 DEF StreamRecs
    <3> QED BY <1>4, <3>2
  <2>3. SegmentsOK(d)
    BY <1>3, <1>11
  <2> QED BY <2>1, <2>2, <2>3 DEF SegmentsOK, Served
<1>12. ~ overtaken' => SegmentsOK(e)
  BY <1>1, <1>6, <1>11, RegroupsKeeps
<1>13. overtaken' \in BOOLEAN
  BY <1>1 DEF DemuxInv, Types
<1> QED BY <1>1, <1>7, <1>9, <1>10, <1>12, <1>13, ForgetStep

\* A demuxer whose streams all have a segment to send has no segment that could be wrong.
LEMMA NeedSegments ==
  ASSUME NEW f, \A s \in Streams : f.out[s] = <<>>,
         \A s \in Streams : f.stream[s].pad => f.stream[s].need_newsegment
  PROVE  SegmentsOK(f)
BY DEF SegmentsOK, Served

\* FLUSH_STOP clears the pads.  A hard flush asks for segments anew; one of a seek relies on the
\* seek, which has, unless one was pushed since.
LEMMA FlushStopStep ==
  ASSUME DemuxInv, NEW at \in {"before", "within"}, FlushStop(at)
  PROVE  DemuxInv' /\ (Tracks => Tracks')
<1> DEFINE hard == demux.mode # "seeking"
           f == StreamsFlushed(demux, hard)
           e == IF hard THEN [f EXCEPT !.group = NoGroup] ELSE Closed(f, at)
           segment == [s \in Streams |-> None]
           late == \E s \in Present(demux) : ~ demux.stream[s].need_newsegment
<1>1. /\ demux \in Demuxes /\ Forget /\ demux' = [e EXCEPT !.segment = segment]
      /\ overtaken' = (~ hard /\ late)
  BY DEF DemuxInv, Types, FlushStop
<1>2. hard \in BOOLEAN /\ late \in BOOLEAN
  OBVIOUS
<1>3. ~ overtaken' => hard \/ \A s \in Streams : demux.stream[s].pad => demux.stream[s].need_newsegment
  <2>1. ~ late => \A s \in Streams : demux.stream[s].pad => demux.stream[s].need_newsegment
    BY DEF Present
  <2> HIDE DEF hard, late
  <2> QED BY <1>1, <2>1
<1> HIDE DEF late
<1>4. overtaken' \in BOOLEAN
  <2> HIDE DEF hard
  <2> QED BY <1>1, <1>2
<1> HIDE DEF hard
<1>5. /\ Fresh(demux, f)
      /\ \A s \in Streams : demux.stream[s].pad =>
           f.stream[s].need_newsegment = (hard \/ demux.stream[s].need_newsegment)
  BY <1>1, <1>2, StreamsFlushedIs
<1> HIDE DEF f
<1>6. f \in Demuxes
  BY <1>5 DEF Fresh
<1>7. e \in Demuxes /\ e.stream = f.stream /\ e.out = f.out
  <2>1. CASE hard
    <3>1. e = [f EXCEPT !.group = NoGroup]
      BY <2>1
    <3> HIDE DEF e
    <3> QED BY <1>6, <3>1, NewStreamIs DEF Demuxes
  <2>2. CASE ~ hard
    <3>1. e = Closed(f, at)
      BY <2>2
    <3>2. Regroups(f, Closed(f, at))
      BY <1>6, ClosedIs
    <3> HIDE DEF e
    <3> QED BY <3>1, <3>2 DEF Regroups
  <2> QED BY <2>1, <2>2
<1>8. segment \in [Streams -> Time]
  BY DEF Time
<1> HIDE DEF e, segment
<1>9. demux' \in Demuxes /\ demux'.stream = f.stream /\ demux'.out = f.out
  BY <1>1, <1>7, <1>8 DEF Demuxes
<1>10. Fresh(demux, demux')
  BY <1>5, <1>9 DEF Fresh
<1>11. TimesOK(demux')
  BY <1>10, FreshTimes
<1>12. ASSUME ~ overtaken' PROVE SegmentsOK(demux')
  <2>1. \A s \in Streams : demux'.out[s] = <<>> /\ demux'.stream[s].pad = demux.stream[s].pad
    BY <1>10 DEF Fresh
  <2>2. \A s \in Streams : demux'.stream[s].pad => demux'.stream[s].need_newsegment
    BY <1>3, <1>5, <1>9, <1>12, <2>1
  <2> QED BY <2>1, <2>2, NeedSegments
<1>13. \A s \in Streams : Line(Shape(demux', s), source[s], source[s].again, faults)
  <2>1. \A s \in Streams : Line(Shape(demux, s), source[s], source[s].again, faults)
    BY DEF DemuxInv
  <2> QED BY <1>1, <1>10, <2>1, FreshLine
<1> QED BY <1>1, <1>4, <1>9, <1>11, <1>12, <1>13, ForgetStep

\* f is d whose streams need a segment.
Asks(d, f) ==
  /\ f \in Demuxes /\ f.group = d.group /\ f.segment = d.segment /\ f.out = d.out
  /\ \A s \in Streams :
       LET t == d.stream[s]
           u == f.stream[s]
       IN /\ u.pad = t.pad /\ (~ t.pad => u = t) /\ (t.pad => u.need_newsegment)
          /\ u.state = t.state /\ u.cc = t.cc /\ u.data = t.data /\ u.expected = t.expected
          /\ u.pending = t.pending /\ u.raw = t.raw /\ u.pts = t.pts /\ u.pending_ts = t.pending_ts

LEMMA SoughtIs ==
  ASSUME NEW d \in Demuxes
  PROVE  Asks(d, Sought(d)) /\ Sought(d).mode = d.mode
<1> DEFINE again == [s \in Streams |->
                       IF s \in Present(d) THEN [d.stream[s] EXCEPT !.need_newsegment = TRUE, !.first = None]
                       ELSE d.stream[s]]
           f == Sought(d)
<1>1. f = [d EXCEPT !.segment_event = None, !.stream = again]
  BY DEF Sought
<1>2. ASSUME NEW s \in Streams
      PROVE  LET t == d.stream[s] IN
             /\ again[s] \in StreamRecs /\ again[s].pad = t.pad
             /\ ~ t.pad => again[s] = t
             /\ t.pad => again[s].need_newsegment
             /\ again[s].state = t.state /\ again[s].cc = t.cc /\ again[s].data = t.data
             /\ again[s].expected = t.expected /\ again[s].pending = t.pending
             /\ again[s].raw = t.raw /\ again[s].pts = t.pts /\ again[s].pending_ts = t.pending_ts
  <2> DEFINE t == d.stream[s]
             r == [t EXCEPT !.need_newsegment = TRUE, !.first = None]
  <2>1. t \in StreamRecs
    BY DEF Demuxes
  <2>2. again[s] = IF t.pad THEN r ELSE t
    BY DEF Present
  <2> HIDE DEF t, again
  <2>3. /\ r \in StreamRecs /\ r.pad = t.pad /\ r.need_newsegment
        /\ r.state = t.state /\ r.cc = t.cc /\ r.data = t.data /\ r.expected = t.expected
        /\ r.pending = t.pending /\ r.raw = t.raw /\ r.pts = t.pts /\ r.pending_ts = t.pending_ts
    BY <2>1 DEF StreamRecs, Time
  <2> HIDE DEF r
  <2>4. CASE t.pad
    BY <2>2, <2>3, <2>4 DEF t
  <2>5. CASE ~ t.pad
    BY <2>1, <2>2, <2>5 DEF t
  <2> QED BY <2>4, <2>5
<1>3. again \in [Streams -> StreamRecs]
  <2>1. \A s \in Streams : again[s] \in StreamRecs
    BY <1>2
  <2> QED BY <2>1
<1>4. None \in Time
  BY DEF Time
<1> HIDE DEF again, f
<1>5. /\ f \in Demuxes /\ f.stream = again /\ f.group = d.group /\ f.segment = d.segment
      /\ f.out = d.out /\ f.mode = d.mode
  BY <1>1, <1>3, <1>4 DEF Demuxes
<1>6. Asks(d, f)
  BY <1>2, <1>5 DEF Asks
<1> QED BY <1>5, <1>6 DEF f

LEMMA SeekStep ==
  ASSUME DemuxInv, NEW at \in {"before", "within"}, Seek(at)
  PROVE  DemuxInv' /\ (Tracks => Tracks')
<1> DEFINE f == StreamsFlushed(demux, FALSE)
           e == Closed(f, at)
           d == Sought(e)
           segment == [s \in Streams |-> None]
<1>1. demux \in Demuxes /\ Forget /\ demux' = [d EXCEPT !.segment = segment] /\ overtaken' = FALSE
  BY DEF DemuxInv, Types, Seek
<1>2. Fresh(demux, f)
  BY <1>1, StreamsFlushedIs
<1> HIDE DEF f
<1>3. f \in Demuxes
  BY <1>2 DEF Fresh
<1>4. Regroups(f, e)
  BY <1>3, ClosedIs
<1> HIDE DEF e
<1>5. Fresh(demux, e) /\ e \in Demuxes
  BY <1>2, <1>4, FreshAgain DEF Regroups
<1>6. Asks(e, d)
  BY <1>5, SoughtIs
<1>7. segment \in [Streams -> Time]
  BY DEF Time
<1> HIDE DEF d, segment
<1>8. demux' \in Demuxes /\ demux'.stream = d.stream /\ demux'.out = e.out
  BY <1>1, <1>6, <1>7 DEF Asks, Demuxes
<1>9. Fresh(demux, demux')
  <2>1. ASSUME NEW s \in Streams
        PROVE  /\ demux'.out[s] = <<>> /\ demux'.stream[s].pad = demux.stream[s].pad
               /\ ~ demux.stream[s].pad => demux'.stream[s] = demux.stream[s]
               /\ demux.stream[s].pad =>
                    LET t == demux'.stream[s] IN
                    /\ t.state = "empty" /\ t.data = <<>> /\ t.pending = <<>>
                    /\ t.raw = None /\ t.pts = None /\ t.pending_ts
    <3>1. /\ e.out[s] = <<>> /\ e.stream[s].pad = demux.stream[s].pad
          /\ ~ demux.stream[s].pad => e.stream[s] = demux.stream[s]
          /\ demux.stream[s].pad =>
               LET t == e.stream[s] IN
               /\ t.state = "empty" /\ t.data = <<>> /\ t.pending = <<>>
               /\ t.raw = None /\ t.pts = None /\ t.pending_ts
      BY <1>5 DEF Fresh
    <3>2. demux'.out[s] = e.out[s] /\ demux'.stream[s] = d.stream[s]
      BY <1>8
    <3> QED BY <1>6, <3>1, <3>2 DEF Asks
  <2> QED BY <1>8, <2>1 DEF Fresh
<1>10. TimesOK(demux')
  BY <1>9, FreshTimes
<1>11. SegmentsOK(demux')
  <2>1. \A s \in Streams : demux'.out[s] = <<>>
    BY <1>9 DEF Fresh
  <2>2. \A s \in Streams : demux'.stream[s].pad => demux'.stream[s].need_newsegment
    BY <1>6, <1>8 DEF Asks
  <2> QED BY <2>1, <2>2, NeedSegments
<1>12. \A s \in Streams : Line(Shape(demux', s), source[s], source[s].again, faults)
  <2>1. \A s \in Streams : Line(Shape(demux, s), source[s], source[s].again, faults)
    BY DEF DemuxInv
  <2> QED BY <1>1, <1>9, <2>1, FreshLine
<1>13. overtaken' \in BOOLEAN
  BY <1>1
<1> QED BY <1>1, <1>8, <1>10, <1>11, <1>12, <1>13, ForgetStep

\* A seek beside the streaming thread: what there is stays, and the next buffer of each stream
\* comes behind a new segment.
LEMMA PushSeekStep ==
  ASSUME DemuxInv, PushSeek
  PROVE  DemuxInv' /\ (Tracks => Tracks')
<1> DEFINE d == Sought(demux)
<1>1. /\ demux \in Demuxes /\ demux' = [d EXCEPT !.mode = "seeking"]
      /\ UNCHANGED <<plan, source, faults, due, rejoined, overtaken>>
  BY DEF DemuxInv, Types, PushSeek
<1>2. Asks(demux, d)
  BY <1>1, SoughtIs
<1> HIDE DEF d
<1>3. /\ demux' \in Demuxes /\ demux'.stream = d.stream /\ demux'.out = demux.out
      /\ demux'.segment = demux.segment /\ demux'.group = demux.group
  BY <1>1, <1>2 DEF Asks, Demuxes
<1>4. ASSUME NEW s \in Streams
      PROVE  LET t == demux.stream[s]
                 u == demux'.stream[s]
             IN /\ u.pad = t.pad /\ u.state = t.state /\ u.cc = t.cc /\ u.data = t.data
                /\ u.expected = t.expected /\ u.pending = t.pending /\ u.raw = t.raw
                /\ u.pts = t.pts /\ u.pending_ts = t.pending_ts
                /\ t.pad => u.need_newsegment
  BY <1>2, <1>3 DEF Asks
<1>5. \A s \in Streams : Shape(demux', s) = Shape(demux, s)
  BY <1>3, <1>4 DEF Shape
<1>6. SegmentsOK(demux) => SegmentsOK(demux')
  <2>1. \A s \in Streams : Served(demux', s) => Served(demux, s)
    BY <1>3, <1>4 DEF Served
  <2> QED BY <1>3, <2>1 DEF SegmentsOK
<1>7. ASSUME TimesOK(demux) PROVE TimesOK(demux')
  <2>1. ASSUME NEW s \in Streams, demux'.stream[s].pad PROVE Timed(demux', demux'.stream[s])
    <3>1. Timed(demux', demux.stream[s])
      BY <1>3, <1>4, <1>7, <2>1, SameTimed DEF TimesOK
    <3> QED BY <1>4, <3>1 DEF Timed
  <2>2. \A raw : PtsToTs(demux', raw) = PtsToTs(demux, raw)
    BY <1>3, SameClock
  <2>3. \A s \in Streams : \A k \in 1 .. Len(demux'.out[s]) :
          demux'.out[s][k].pts = PtsToTs(demux', demux'.out[s][k].raw)
    BY <1>3, <1>7, <2>2 DEF TimesOK
  <2>4. \A s \in Streams : ~ demux'.stream[s].pad \/ demux'.stream[s].pending_ts => demux'.out[s] = <<>>
    BY <1>3, <1>4, <1>7 DEF TimesOK
  <2>5. \A s, x \in Streams : demux'.stream[s].pad /\ demux'.stream[x].pad =>
          demux'.stream[s].pending_ts = demux'.stream[x].pending_ts
    BY <1>4, <1>7 DEF TimesOK
  <2> QED BY <2>1, <2>3, <2>4, <2>5 DEF TimesOK
<1> QED BY <1>1, <1>3, <1>5, <1>6, <1>7, QuietStep

LEMMA SeekReturnsStep ==
  ASSUME DemuxInv, SeekReturns
  PROVE  DemuxInv' /\ (Tracks => Tracks')
<1>1. demux \in Demuxes /\ demux' = [demux EXCEPT !.mode = "pushing"]
  BY DEF DemuxInv, Types, SeekReturns
<1>2. Regroups(demux, demux') /\ demux'.group = demux.group
  BY <1>1 DEF Regroups, Demuxes
<1>3. Clocked(demux) => Clocked(demux')
  BY <1>2 DEF Clocked
<1>4. TimesOK(demux) => TimesOK(demux')
  BY <1>2, <1>3, RegroupsTimes
<1> QED BY <1>2, <1>4, RegroupsStep DEF SeekReturns
-----------------------------------------------------------------------------
(* The end of the stream, and updates of the program *)

LEMMA EosStep ==
  ASSUME DemuxInv, Eos
  PROVE  DemuxInv' /\ (Tracks => Tracks')
<1> DEFINE d == Drained(demux)
<1>1. /\ demux \in Demuxes /\ demux' = d
      /\ UNCHANGED <<plan, source, faults, due, rejoined, overtaken>>
      /\ \A s \in Streams : ~ HasNext(s)
  BY DEF DemuxInv, Types, Eos
<1>2. DrainedTo(demux, d)
  BY <1>1, DrainedKeeps
<1> HIDE DEF d
<1>3. ASSUME NEW s \in Streams
      PROVE  /\ Line(Shape(d, s), source[s], source[s].again, faults)
             /\ Track(Shape(demux, s), source[s], plan[s], due[s]) =>
                  Track(Shape(d, s), source[s], plan[s], due[s])
  <2> DEFINE h == Shape(demux, s)
  <2>1. /\ h \in Shapes /\ Line(h, source[s], source[s].again, faults) /\ faults \in Nat /\ source[s].n \in Nat
    BY StreamIs DEF Sources
  <2>2. Line(Ejected(h), source[s], source[s].again, faults)
    BY <2>1, EjectedLine
  <2>3. Ejected(h).pad = h.pad /\ \A m : Has(h, m, plan[s]) => Has(Ejected(h), m, plan[s])
    BY <2>1, EjectedType, EjectedHas
  <2>4. ~ More(source[s], plan[s])
    BY <1>1 DEF HasNext, More
  <2>5. Shape(d, s) = h \/ Shape(d, s) = Ejected(h)
    BY <1>2 DEF DrainedTo
  <2> HIDE DEF h
  <2>6. ASSUME Track(h, source[s], plan[s], due[s])
        PROVE  Track(Ejected(h), source[s], plan[s], due[s])
    BY <2>3, <2>4, <2>6 DEF Track
  <2>7. /\ Line(Shape(d, s), source[s], source[s].again, faults)
        /\ Track(h, source[s], plan[s], due[s]) => Track(Shape(d, s), source[s], plan[s], due[s])
    BY <2>1, <2>2, <2>5, <2>6
  <2> QED BY <2>7 DEF h
<1>4. Types'
  BY <1>1, <1>2 DEF DemuxInv, Types, DrainedTo
<1>5. DemuxInv'
  BY <1>1, <1>2, <1>3, <1>4 DEF DemuxInv, DrainedTo
<1>6. Tracks => Tracks'
  BY <1>1, <1>3 DEF Tracks
<1> QED BY <1>5, <1>6

\* What an update of the program does: one stream is set anew.
LEMMA UpdateStep ==
  ASSUME DemuxInv, NEW s \in Streams, plan' = plan, faults' = faults, rejoined' \in BOOLEAN,
         overtaken' = overtaken,
         source' = [source EXCEPT ![s].intact = FALSE, ![s].whole = FALSE],
         demux' \in Demuxes, \A x \in Streams \ {s} : Shape(demux', x) = Shape(demux, x),
         Shape(demux', s).held = <<>>, Shape(demux', s).state = "empty", Shape(demux', s).data = <<>>,
         SegmentsOK(demux) => SegmentsOK(demux'), ~ rejoined' => TimesOK(demux'),
         due' \in [Streams -> SUBSET Nat], \A x \in Streams \ {s} : due'[x] = due[x],
         Tracks => due'[s] = {}
  PROVE  DemuxInv' /\ (Tracks => Tracks')
<1> DEFINE new == [source[s] EXCEPT !.intact = FALSE, !.whole = FALSE]
<1>1. source \in [Streams -> Sources] /\ source[s] \in Sources /\ Sent(source[s], plan[s])
  BY DEF DemuxInv, Types
<1>2. /\ new \in Sources /\ ~ new.intact /\ ~ new.whole
      /\ new.n = source[s].n /\ new.i = source[s].i /\ new.cc = source[s].cc
  BY <1>1 DEF Sources
<1>3. source' = [source EXCEPT ![s] = new]
  BY <1>1
<1> HIDE DEF new
<1>4. /\ source' \in [Streams -> Sources] /\ source'[s] = new
      /\ \A x \in Streams \ {s} : source'[x] = source[x]
  BY <1>1, <1>2, <1>3
<1>5. Sent(new, plan[s])
  BY <1>1, <1>2 DEF Sent
<1>6. Types'
  BY <1>4, <1>5 DEF DemuxInv, Types
<1>7. Line(Shape(demux', s), new, new.again, faults)
  BY EmptyLine
<1>8. \A x \in Streams : Line(Shape(demux', x), source'[x], source'[x].again, faults')
  BY <1>4, <1>7 DEF DemuxInv
<1>9. DemuxInv'
  BY <1>6, <1>8 DEF DemuxInv
<1>10. ASSUME Tracks PROVE Tracks'
  <2>1. Track(Shape(demux', s), new, plan[s], due'[s])
    BY <1>2, <1>10 DEF Track
  <2>2. \A x \in Streams : Track(Shape(demux', x), source'[x], plan'[x], due'[x])
    BY <1>4, <1>10, <2>1 DEF Tracks
  <2> QED BY <2>2 DEF Tracks
<1> QED BY <1>9, <1>10

LEMMA StreamRemovedStep ==
  ASSUME DemuxInv, NEW s \in Streams, StreamRemoved(s)
  PROVE  DemuxInv' /\ (Tracks => Tracks')
<1> DEFINE d == IF demux.stream[s].active THEN PushPendingData(demux, s) ELSE demux
           t == [StreamFlushed(d.stream[s], TRUE) EXCEPT !.pad = FALSE, !.active = FALSE]
<1>1. /\ demux \in Demuxes /\ (~ rejoined => TimesOK(demux)) /\ overtaken' = overtaken
      /\ demux.stream[s].pad /\ rejoined \in BOOLEAN
  BY DEF DemuxInv, Types, StreamRemoved
<1>2. /\ demux' = [d EXCEPT !.stream[s] = t, !.segment[s] = None, !.out[s] = <<>>]
      /\ due' = [due EXCEPT ![s] = {}] /\ plan' = plan /\ faults' = faults /\ rejoined' = rejoined
      /\ source' = [source EXCEPT ![s].intact = FALSE, ![s].whole = FALSE]
  BY DEF StreamRemoved
<1>3. /\ d \in Demuxes /\ (SegmentsOK(demux) => SegmentsOK(d)) /\ (~ rejoined => TimesOK(d))
      /\ \A x \in Streams \ {s} : Shape(d, x) = Shape(demux, x)
  <2> DEFINE f == PushPendingData(demux, s)
  <2>1. f \in Demuxes /\ \A x \in Streams \ {s} : Shape(f, x) = Shape(demux, x)
    BY <1>1, PushShape
  <2>2. (SegmentsOK(demux) => SegmentsOK(f)) /\ (~ rejoined => TimesOK(f))
    BY <1>1, PushSegments, PushTimes
  <2> HIDE DEF f
  <2>3. d = IF demux.stream[s].active THEN f ELSE demux
    BY DEF f
  <2> HIDE DEF d
  <2> QED BY <1>1, <2>1, <2>2, <2>3
<1> HIDE DEF d
<1>4. /\ t \in StreamRecs /\ ~ t.pad /\ t.state = "empty" /\ t.data = <<>> /\ t.pending = <<>>
  <2> DEFINE r == StreamFlushed(d.stream[s], TRUE)
  <2>1. d.stream[s] \in StreamRecs
    BY <1>3 DEF Demuxes
  <2>2. r \in StreamRecs /\ r.state = "empty" /\ r.data = <<>> /\ r.pending = <<>>
    BY <2>1, FlushedIs
  <2> HIDE DEF r
  <2>3. t = [r EXCEPT !.pad = FALSE, !.active = FALSE]
    BY DEF r
  <2> HIDE DEF t
  <2> QED BY <2>2, <2>3 DEF StreamRecs
<1> HIDE DEF t
<1>5. /\ demux' \in Demuxes /\ demux'.group = d.group
      /\ demux'.stream[s] = t /\ demux'.out[s] = <<>>
      /\ \A x \in Streams \ {s} : /\ demux'.stream[x] = d.stream[x] /\ demux'.out[x] = d.out[x]
                                  /\ demux'.segment[x] = d.segment[x]
  <2> DEFINE stream == [d.stream EXCEPT ![s] = t]
             segment == [d.segment EXCEPT ![s] = None]
             out == [d.out EXCEPT ![s] = <<>>]
  <2>1. demux' = [d EXCEPT !.stream = stream, !.segment = segment, !.out = out]
    BY <1>2, <1>3 DEF Demuxes
  <2>2. /\ d.stream \in [Streams -> StreamRecs] /\ d.segment \in [Streams -> Time]
        /\ d.out \in [Streams -> Seq(Buffers)] /\ None \in Time /\ <<>> \in Seq(Buffers)
    BY <1>3 DEF Demuxes, Time
  <2>3. /\ stream \in [Streams -> StreamRecs] /\ stream[s] = t
        /\ \A x \in Streams \ {s} : stream[x] = d.stream[x]
    BY <1>4, <2>2
  <2>4. segment \in [Streams -> Time] /\ \A x \in Streams \ {s} : segment[x] = d.segment[x]
    BY <2>2
  <2>5. /\ out \in [Streams -> Seq(Buffers)] /\ out[s] = <<>>
        /\ \A x \in Streams \ {s} : out[x] = d.out[x]
    BY <2>2
  <2> HIDE DEF stream, segment, out
  <2>6. /\ demux' \in Demuxes /\ demux'.group = d.group /\ demux'.stream = stream
        /\ demux'.segment = segment /\ demux'.out = out
    BY <1>3, <2>1, <2>3, <2>4, <2>5 DEF Demuxes
  <2> QED BY <2>3, <2>4, <2>5, <2>6
<1>6. \A x \in Streams \ {s} : Shape(demux', x) = Shape(demux, x)
  <2>1. \A x \in Streams \ {s} : Shape(demux', x) = Shape(d, x)
    BY <1>5 DEF Shape
  <2> QED BY <1>3, <2>1
<1>7. /\ Shape(demux', s).held = <<>> /\ Shape(demux', s).state = "empty"
      /\ Shape(demux', s).data = <<>>
  <2>1. <<>> \o <<>> = <<>> /\ Datas(<<>>) = <<>>
    BY DEF Datas
  <2>2. demux'.out[s] \o demux'.stream[s].pending = <<>>
    BY <1>4, <1>5, <2>1
  <2> QED BY <1>4, <1>5, <2>1, <2>2 DEF Shape
<1>8. ASSUME SegmentsOK(demux) PROVE SegmentsOK(demux')
  <2>1. SegmentsOK(d)
    BY <1>3, <1>8
  <2>2. \A x \in Streams : demux'.stream[x].pad => x # s
    BY <1>4, <1>5
  <2>3. \A x \in Streams : demux'.stream[x].pad =>
          /\ demux'.stream[x] = d.stream[x] /\ demux'.out[x] = d.out[x]
          /\ demux'.segment[x] = d.segment[x]
    BY <1>5, <2>2
  <2> QED BY <2>1, <2>3 DEF SegmentsOK, Served
<1>9. ASSUME ~ rejoined PROVE TimesOK(demux')
  <2>1. TimesOK(d)
    BY <1>3, <1>9
  <2>2. \A x \in Streams : demux'.stream[x].pad => x # s /\ demux'.stream[x] = d.stream[x]
    BY <1>4, <1>5
  <2>3. \A x \in Streams : demux'.stream[x].pad => Timed(demux', demux'.stream[x])
    <3>1. \A x \in Streams : d.stream[x].pad => Timed(demux', d.stream[x])
      BY <1>5, <2>1, SameTimed DEF TimesOK
    <3> QED BY <2>2, <3>1
  <2>4. \A x \in Streams : ~ demux'.stream[x].pad \/ demux'.stream[x].pending_ts => demux'.out[x] = <<>>
    BY <1>5, <2>1 DEF TimesOK
  <2>5. \A x, y \in Streams : demux'.stream[x].pad /\ demux'.stream[y].pad =>
          demux'.stream[x].pending_ts = demux'.stream[y].pending_ts
    BY <2>1, <2>2 DEF TimesOK
  <2>6. ASSUME NEW x \in Streams, NEW k \in 1 .. Len(demux'.out[x])
        PROVE  demux'.out[x][k].pts = PtsToTs(demux', demux'.out[x][k].raw)
    <3>1. x # s
      <4>1. Len(<<>>) = 0
        OBVIOUS
      <4> QED BY <1>5, <2>6, <4>1
    <3>2. demux'.out[x] = d.out[x]
      BY <1>5, <3>1
    <3>3. d.out[x][k].pts = PtsToTs(d, d.out[x][k].raw)
      BY <2>1, <2>6, <3>2 DEF TimesOK
    <3>4. PtsToTs(d, d.out[x][k].raw) = PtsToTs(demux', d.out[x][k].raw)
      BY <1>5, SameClock
    <3> QED BY <3>2, <3>3, <3>4
  <2> QED BY <2>3, <2>4, <2>5, <2>6 DEF TimesOK
<1>10. /\ due' \in [Streams -> SUBSET Nat] /\ due'[s] = {}
       /\ \A x \in Streams \ {s} : due'[x] = due[x]
  BY <1>2 DEF DemuxInv, Types
<1> QED BY <1>1, <1>2, <1>5, <1>6, <1>7, <1>8, <1>9, <1>10, UpdateStep

LEMMA StreamAddedStep ==
  ASSUME DemuxInv, NEW s \in Streams, StreamAdded(s)
  PROVE  DemuxInv' /\ (Tracks => Tracks')
<1>1. /\ demux \in Demuxes /\ ~ demux.stream[s].pad /\ overtaken' = overtaken
      /\ demux' = [demux EXCEPT !.stream[s] = NewStream] /\ due' = due /\ plan' = plan
      /\ faults' = faults /\ rejoined' = TRUE
      /\ source' = [source EXCEPT ![s].intact = FALSE, ![s].whole = FALSE]
      /\ due \in [Streams -> SUBSET Nat]
  BY DEF DemuxInv, Types, StreamAdded
<1>2. Sets(demux, demux', s, NewStream)
  BY <1>1, SetIs, NewStreamIs
<1>3. \A x \in Streams \ {s} : Shape(demux', x) = Shape(demux, x)
  BY <1>2 DEF Sets, Shape
<1>4. demux'.out[s] = <<>>
  <2>1. Line(Shape(demux, s), source[s], source[s].again, faults)
    BY StreamIs
  <2>2. demux.out[s] = <<>>
    BY <1>1, <2>1, AbsentEmpty
  <2> QED BY <1>2, <2>2 DEF Sets
<1>5. /\ NewStream.pending = <<>> /\ NewStream.state = "empty" /\ NewStream.data = <<>>
      /\ NewStream.pad = TRUE /\ NewStream.need_newsegment = TRUE
  BY DEF NewStream
<1>6. /\ Shape(demux', s).held = <<>> /\ Shape(demux', s).state = "empty"
      /\ Shape(demux', s).data = <<>>
  <2>1. <<>> \o <<>> = <<>> /\ Datas(<<>>) = <<>>
    BY DEF Datas
  <2>2. demux'.stream[s] = NewStream
    BY <1>2 DEF Sets
  <2>3. demux'.out[s] \o demux'.stream[s].pending = <<>>
    BY <1>4, <1>5, <2>1, <2>2
  <2> QED BY <1>5, <2>1, <2>2, <2>3 DEF Shape
<1>7. ASSUME SegmentsOK(demux) PROVE SegmentsOK(demux')
  <2>1. ~ Served(demux', s)
    BY <1>2, <1>4, <1>5 DEF Sets, Served
  <2>2. demux'.out = demux.out /\ demux'.segment = demux.segment
    BY <1>2 DEF Sets
  <2>3. \A x \in Streams \ {s} : demux'.stream[x] = demux.stream[x]
    BY <1>2 DEF Sets
  <2>4. \A x \in Streams : Served(demux', x) => Served(demux, x)
    BY <2>1, <2>2, <2>3 DEF Served
  <2> QED BY <1>7, <2>2, <2>4 DEF SegmentsOK
<1>8. ASSUME Tracks PROVE due'[s] = {}
  <2>1. ~ Shape(demux, s).pad /\ Track(Shape(demux, s), source[s], plan[s], due[s])
    BY <1>1, <1>8 DEF Tracks, Shape
  <2> QED BY <1>1, <2>1 DEF Track
<1>9. demux' \in Demuxes
  BY <1>2 DEF Sets
<1> QED BY <1>1, <1>3, <1>6, <1>7, <1>8, <1>9, UpdateStep
-----------------------------------------------------------------------------
(* The theorems *)

LEMMA NextInv ==
  ASSUME DemuxInv, [Next]_vars
  PROVE  DemuxInv' /\ (Tracks => Tracks')
<1>1. CASE UNCHANGED vars
  BY <1>1 DEF vars, DemuxInv, Types, Tracks
<1>2. CASE Next
  <2>1. ASSUME NEW s \in Streams, Packet(s) PROVE DemuxInv' /\ (Tracks => Tracks')
    BY <2>1, PacketStep
  <2>2. ASSUME NEW s \in Streams, Lose(s) PROVE DemuxInv' /\ (Tracks => Tracks')
    BY <2>2, LoseStep
  <2>3. ASSUME NEW s \in Streams, Repeat(s) PROVE DemuxInv' /\ (Tracks => Tracks')
    BY <2>3, RepeatStep
  <2>4. ASSUME NEW s \in Streams, StreamRemoved(s) PROVE DemuxInv' /\ (Tracks => Tracks')
    BY <2>4, StreamRemovedStep
  <2>5. ASSUME NEW s \in Streams, StreamAdded(s) PROVE DemuxInv' /\ (Tracks => Tracks')
    BY <2>5, StreamAddedStep
  <2>6. ASSUME NEW pcr \in Pcrs, Pcr(pcr) PROVE DemuxInv' /\ (Tracks => Tracks')
    BY <2>6, PcrStep
  <2>7. ASSUME NEW at \in {"before", "within"}, Discont(at) PROVE DemuxInv' /\ (Tracks => Tracks')
    BY <2>7, DiscontStep
  <2>8. ASSUME NEW at \in {"before", "within"}, Seek(at) PROVE DemuxInv' /\ (Tracks => Tracks')
    BY <2>8, SeekStep
  <2>9. CASE PcrAgain
    BY <2>9, PcrAgainStep
  <2>10. ASSUME NEW at \in {"before", "within"}, FlushStop(at) PROVE DemuxInv' /\ (Tracks => Tracks')
    BY <2>10, FlushStopStep
  <2>11. CASE Eos
    BY <2>11, EosStep
  <2>12. CASE PushSeek
    BY <2>12, PushSeekStep
  <2>13. CASE SeekReturns
    BY <2>13, SeekReturnsStep
  <2> QED BY <1>2, <2>1, <2>2, <2>3, <2>4, <2>5, <2>6, <2>7, <2>8, <2>9, <2>10, <2>11, <2>12, <2>13
          DEF Next
<1> QED BY <1>1, <1>2

LEMMA AlwaysDemuxInv == Spec => []DemuxInv
<1>1. Init => DemuxInv
  BY InitInv
<1>2. DemuxInv /\ [Next]_vars => DemuxInv'
  BY NextInv
<1> QED BY <1>1, <1>2, PTL DEF Spec

LEMMA HeldIs ==
  ASSUME Types, NEW s \in Streams
  PROVE  /\ Held(s) \in Seq(Buffers) /\ Len(Held(s)) \in Nat /\ DOMAIN Held(s) = 1 .. Len(Held(s))
         /\ Len(Shape(demux, s).held) = Len(Held(s))
         /\ \A k \in 1 .. Len(Held(s)) :
              Shape(demux, s).held[k] = Held(s)[k].data /\ Held(s)[k].data \in Data
<1> DEFINE q == Held(s)
<1>1. q \in Seq(Buffers)
  BY ShapeType DEF Types, Held
<1>2. Shape(demux, s).held = Datas(q)
  BY DEF Shape, Held
<1> HIDE DEF q
<1>3. Len(q) \in Nat /\ DOMAIN q = 1 .. Len(q) /\ Len(Datas(q)) = Len(q)
  BY <1>1, DatasOf, LenProperties
<1>4. \A k \in 1 .. Len(q) : Datas(q)[k] = q[k].data /\ q[k].data \in Data
  <2>1. \A k \in 1 .. Len(q) : q[k] \in Buffers
    BY <1>1, ElementOfSeq
  <2>2. \A k \in 1 .. Len(q) : Datas(q)[k] = q[k].data
    BY DEF Datas
  <2> QED BY <2>1, <2>2 DEF Buffers
<1> QED BY <1>1, <1>2, <1>3, <1>4 DEF q

\* Whatever packets are lost or repeated, wherever a flush, a seek or an update of the program
\* comes in: a buffer is the front of one PES packet, never pieces of two, and no buffer comes
\* after that of a later PES packet.  A PES packet has more than one buffer only if its first packet
\* came again: that begins it anew and what there is of it is pushed (gst_ts_demux_handle_packet).
\* It takes fewer faults than the continuity counter has values (gst_ts_demux_queue_data knows a
\* gap by the counter alone).
THEOREM BuffersAreIntact == Spec => []Intact
<1>1. ASSUME DemuxInv PROVE Intact
  <2> SUFFICES ASSUME NEW s \in Streams
               PROVE  /\ \A k \in DOMAIN Held(s) : LET b == Held(s)[k] IN
                           b.data = [i \in DOMAIN b.data |-> <<Number(b), i>>]
                      /\ \A k \in 1 .. Len(Held(s)) - 1 :
                           \/ Number(Held(s)[k]) < Number(Held(s)[k + 1])
                           \/ /\ Number(Held(s)[k]) = Number(Held(s)[k + 1])
                              /\ Number(Held(s)[k]) \in source[s].again
    BY DEF Intact
  <2> DEFINE q == Held(s)
             h == Shape(demux, s)
  <2>1. /\ q \in Seq(Buffers) /\ Len(q) \in Nat /\ DOMAIN q = 1 .. Len(q) /\ Len(h.held) = Len(q)
        /\ \A k \in 1 .. Len(q) : h.held[k] = q[k].data /\ q[k].data \in Data
    BY <1>1, HeldIs DEF DemuxInv
  <2>2. Ordered(h.held, source[s].again, source[s].n)
    BY <1>1, StreamIs DEF Line
  <2> HIDE DEF q, h
  <2>3. ASSUME NEW k \in 1 .. Len(q)
        PROVE  q[k].data = [i \in DOMAIN q[k].data |-> <<Number(q[k]), i>>]
    <3> DEFINE x == q[k].data
    <3>1. x \in Data /\ IsFront(x)
      BY <2>1, <2>2 DEF Ordered
    <3>2. DOMAIN x = 1 .. Len(x) /\ x = [i \in DOMAIN x |-> x[i]]
      BY <3>1, LenProperties DEF Data
    <3>3. \A i \in DOMAIN x : x[i] = <<Number(q[k]), i>>
      BY <3>1, <3>2 DEF IsFront, Number
    <3> QED BY <3>2, <3>3
  <2>4. ASSUME NEW k \in 1 .. Len(q) - 1
        PROVE  \/ Number(q[k]) < Number(q[k + 1])
               \/ Number(q[k]) = Number(q[k + 1]) /\ Number(q[k]) \in source[s].again
    <3>1. k \in 1 .. Len(q) /\ k + 1 \in 1 .. Len(q) /\ k < k + 1
      BY <2>1
    <3>2. \/ h.held[k][1][1] < h.held[k + 1][1][1]
          \/ h.held[k][1][1] = h.held[k + 1][1][1] /\ h.held[k][1][1] \in source[s].again
      BY <2>1, <2>2, <3>1 DEF Ordered
    <3> QED BY <2>1, <3>1, <3>2 DEF Number
  <2> QED BY <2>1, <2>3, <2>4 DEF q
<1> QED BY <1>1, AlwaysDemuxInv, PTL

\* A PES packet that came whole, with a length (Bounded) and since the last flush, is pushed or
\* waits for its timestamp, with all its packets, whatever was lost or repeated before it and
\* whatever the clock and the other streams did (gst_ts_demux_queue_data).
THEOREM WholePacketsAreDelivered == Spec => []Delivered
<1>1. ASSUME DemuxInv, Tracks PROVE Delivered
  <2> SUFFICES ASSUME NEW s \in Streams, NEW n \in due[s]
               PROVE  \E k \in DOMAIN Held(s) :
                        Number(Held(s)[k]) = n /\ Len(Held(s)[k].data) = plan[s][n].length
    BY DEF Delivered
  <2> DEFINE q == Held(s)
             h == Shape(demux, s)
  <2>1. /\ DOMAIN q = 1 .. Len(q) /\ Len(h.held) = Len(q)
        /\ \A k \in 1 .. Len(q) : h.held[k] = q[k].data
    BY <1>1, HeldIs DEF DemuxInv
  <2>2. Has(h, n, plan[s])
    BY <1>1 DEF Tracks, Track
  <2> HIDE DEF q, h
  <2>3. PICK k \in 1 .. Len(q) : h.held[k][1][1] = n /\ Len(h.held[k]) = plan[s][n].length
    BY <2>1, <2>2 DEF Has
  <2>4. k \in DOMAIN q /\ Number(q[k]) = n /\ Len(q[k].data) = plan[s][n].length
    BY <2>1, <2>3 DEF Number
  <2> QED BY <2>4 DEF q
<1>2. Init => Tracks
  BY InitInv
<1>3. DemuxInv /\ Tracks /\ [Next]_vars => Tracks'
  BY NextInv
<1> QED BY <1>1, <1>2, <1>3, AlwaysDemuxInv, PTL DEF Spec

\* All that the pads got since the last flush has the time that the clock gives its PTS now: once
\* a stream has pushed, no other one shifts the stream time (check_pending_buffers).  A stream that
\* an update adds does (rejoined, in the property), as its pending_ts is TRUE when that of the
\* others is not.
THEOREM OneTimeLine == Spec => []Stamped
<1>1. ASSUME DemuxInv PROVE Stamped
  <2> SUFFICES ASSUME ~ rejoined, NEW s \in Streams, NEW k \in DOMAIN demux.out[s]
               PROVE  demux.out[s][k].pts = PtsToTs(demux, demux.out[s][k].raw)
    BY DEF Stamped
  <2>1. demux.out[s] \in Seq(Buffers)
    BY <1>1 DEF DemuxInv, Types, Demuxes
  <2>2. k \in 1 .. Len(demux.out[s])
    BY <2>1, LenProperties
  <2> QED BY <1>1, <2>2 DEF DemuxInv, TimesOK
<1> QED BY <1>1, AlwaysDemuxInv, PTL

\* No pad gets a buffer without a segment, and the pads that have got buffers have the same one,
\* through flushes that keep it, seeks that replace it and streams that come and go
\* (need_newsegment and segment_event).  So it is in push mode too, where a seek runs beside the
\* streaming thread, unless that thread pushed the segment of the seek before its FLUSH_STOP came
\* (overtaken, in the property): the soft flush of mpegts_base_sink_event leaves need_newsegment.
THEOREM SegmentsAgree == Spec => []OneSegment
<1>1. ASSUME DemuxInv PROVE OneSegment
  <2> SUFFICES ASSUME ~ overtaken, NEW s \in Present(demux), NEW x \in Present(demux), demux.out[s] # <<>>
               PROVE  /\ demux.segment[s] # None
                      /\ demux.out[x] # <<>> => demux.segment[x] = demux.segment[s]
    BY DEF OneSegment
  <2>1. s \in Streams /\ x \in Streams /\ demux.stream[s].pad /\ demux.stream[x].pad
    BY DEF Present
  <2> QED BY <1>1, <2>1 DEF DemuxInv, SegmentsOK, Served
<1> QED BY <1>1, AlwaysDemuxInv, PTL

\* mpegts_parse_pes_header is sound on any header, of the streams or not, and on any part of it:
\* a verdict stays when more bytes come, but for "need more", which is said only while bytes of
\* the header or of a field are missing; what it takes is there; and what is well formed it takes.
THEOREM VerdictsAreSound == Spec => []HeadersJudged
<1>1. ASSUME DemuxInv PROVE HeadersJudged
  <2>1. Lengths \in SUBSET Nat
    BY HeaderAssumption
  <2>2. ASSUME NEW h \in Headers PROVE Sound(h, Lengths)
    BY <2>1, HeaderAssumption, ParseIsSound
  <2>3. ASSUME NEW s \in Streams, NEW pes \in Range(plan[s]) PROVE Sound(pes.header, Lengths)
    <3>1. plan[s] \in Plans[s]
      BY <1>1 DEF DemuxInv, Types
    <3>2. PICK i \in DOMAIN plan[s] : pes = plan[s][i]
      BY DEF Range
    <3>3. DOMAIN plan[s] = 1 .. Len(plan[s])
      <4>1. plan[s] \in Seq(Range(plan[s]))
        BY <3>1, DemuxAssumption
      <4> QED BY <4>1, LenProperties
    <3>4. IsHeader(pes.header)
      BY <3>1, <3>2, <3>3, HeadersOfPlans
    <3> QED BY <2>1, <3>4, ParseIsSound
  <2> QED BY <2>2, <2>3 DEF HeadersJudged
<1> QED BY <1>1, AlwaysDemuxInv, PTL
=============================================================================
