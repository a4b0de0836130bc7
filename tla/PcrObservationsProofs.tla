------------------------ MODULE PcrObservationsProofs ------------------------
(***************************************************************************)
(* Why the groups of observations, whatever the order in which the file    *)
(* was read, give stream times, bytes and a duration that agree.  The      *)
(* invariant has three parts: the observations are PCRs of the file        *)
(* (Shaped, Windows, Placed), the groups do not overlap (Ordered,          *)
(* Fronted), and the time of a group is right with respect to the one      *)
(* before it (Timed).  The last one has to hold for estimates and for      *)
(* times that were found, and when the estimates are made again.           *)
(***************************************************************************)
EXTENDS PcrObservations, FiniteSetTheorems, SequenceTheorems, WellFoundedInduction, TLAPS

LEMMA Numbers ==
  /\ PcrMax \in Nat \ {0} /\ Second \in Nat \ {0} /\ Tenth \in Nat \ {0} /\ Half \in Nat \ {0}
  /\ Needed \in Nat /\ Needed > 1 /\ Enough \in Nat \ {0} /\ Trailer \in Nat \ {0}
  /\ Chunk \in Nat \ {0} /\ Chunks \in Nat \ {0} /\ Huge \in Nat \ {0}
  /\ Tenth < Half /\ Half <= Second
  /\ Times \subseteq Nat /\ Shifts \subseteq Nat
BY PcrAssumption

FileOK(f) ==
  /\ Len(f) \in Nat \ {0} /\ DOMAIN f = 1 .. Len(f)
  /\ \A i \in 1 .. Len(f) : f[i].pcr \in Nat /\ f[i].pcr < PcrMax /\ f[i].offset \in Nat
  /\ \A i, j \in 1 .. Len(f) : i < j => f[i].offset < f[j].offset

LEMMA FilesAre ==
  ASSUME NEW f \in Files
  PROVE  FileOK(f)
<1>1. f \in Seq([pcr : 0 .. PcrMax - 1, offset : 0 .. Huge - 1]) /\ Len(f) > 0
  BY PcrAssumption
<1>2. \A i, j \in 1 .. Len(f) : i < j => f[i].offset < f[j].offset
  BY PcrAssumption
<1>3. Len(f) \in Nat /\ DOMAIN f = 1 .. Len(f)
  BY <1>1, LenProperties
<1>4. ASSUME NEW i \in 1 .. Len(f)
      PROVE  f[i].pcr \in Nat /\ f[i].pcr < PcrMax /\ f[i].offset \in Nat
  <2>1. f[i] \in [pcr : 0 .. PcrMax - 1, offset : 0 .. Huge - 1]
    BY <1>1, ElementOfSeq
  <2> QED BY <2>1, Numbers
<1> QED BY <1>1, <1>2, <1>3, <1>4 DEF FileOK
-----------------------------------------------------------------------------
(* Least numbers, rising sequences *)

LEMMA LeastExists ==
  ASSUME NEW S \in SUBSET Nat, S # {}
  PROVE  LeastOf(S) \in S /\ \A n \in S : LeastOf(S) <= n
<1>1. PICK m \in S : \A n \in S : ~ (<<n, m>> \in OpToRel(<, Nat))
  BY NatLessThanWellFounded, WFMin
<1>2. ASSUME NEW n \in S PROVE m <= n
  <2>1. <<n, m>> \in Nat \X Nat /\ <<n, m>>[1] = n /\ <<n, m>>[2] = m
    OBVIOUS
  <2>2. n < m => <<n, m>> \in OpToRel(<, Nat)
    BY <2>1 DEF OpToRel
  <2>3. <<n, m>> \notin OpToRel(<, Nat)
    BY <1>1, Zenon
  <2>4. ~ (n < m)
    BY <2>2, <2>3, Zenon
  <2>5. n \in Nat /\ m \in Nat
    OBVIOUS
  <2> QED BY <2>4, <2>5
<1> QED BY <1>2 DEF LeastOf

\* What does not fall from one step to the next does not fall.
LEMMA Climbs ==
  ASSUME NEW a \in Nat, NEW b \in Nat, a <= b, NEW x, \A k \in a .. b : x[k] \in Int,
         \A k \in a .. b : k < b => x[k] <= x[k + 1]
  PROVE  x[a] <= x[b]
<1> DEFINE Bad == {k \in a .. b : ~ (x[a] <= x[k])}
<1>1. SUFFICES ASSUME Bad # {} PROVE FALSE
  <2>1. b \in a .. b
    OBVIOUS
  <2> QED BY <1>1, <2>1
<1> DEFINE k == LeastOf(Bad)
<1>2. k \in Bad /\ \A j \in Bad : k <= j
  <2>1. Bad \in SUBSET Nat
    OBVIOUS
  <2> HIDE DEF Bad
  <2> QED BY <1>1, <2>1, LeastExists
<1> HIDE DEF k
<1>3. k \in a .. b /\ ~ (x[a] <= x[k])
  BY <1>2
<1>4. k # a
  <2>1. a \in a .. b
    OBVIOUS
  <2> QED BY <1>3, <2>1
<1>5. k - 1 \in a .. b /\ k - 1 < b /\ ~ (k <= k - 1)
  BY <1>3, <1>4
<1>6. x[a] <= x[k - 1]
  BY <1>2, <1>5
<1>7. x[k - 1] <= x[(k - 1) + 1] /\ (k - 1) + 1 = k
  BY <1>3, <1>5
<1>8. a \in a .. b
  OBVIOUS
<1> QED BY <1>3, <1>5, <1>6, <1>7, <1>8
-----------------------------------------------------------------------------
(* gst_util_uint64_scale *)

LEMMA DivIs ==
  ASSUME NEW a \in Nat, NEW c \in Nat \ {0}
  PROVE  a \div c \in Nat /\ (a \div c) * c <= a /\ a < (a \div c) * c + c
OBVIOUS

LEMMA TimesUp ==
  ASSUME NEW a \in Nat, NEW b \in Nat, NEW c \in Nat, a <= b
  PROVE  a * c <= b * c /\ c * a <= c * b /\ a * c \in Nat /\ c * a \in Nat
OBVIOUS

\* What divides at least so often.
LEMMA DivAtLeast ==
  ASSUME NEW a \in Nat, NEW c \in Nat \ {0}, NEW x \in Nat, x * c <= a
  PROVE  x <= a \div c
<1> DEFINE d == a \div c
<1>1. d \in Nat /\ a < d * c + c
  BY DivIs
<1> HIDE DEF d
<1>2. SUFFICES ASSUME d + 1 <= x PROVE FALSE
  BY <1>1 DEF d
<1>3. (d + 1) * c <= x * c
  BY <1>1, <1>2
<1>4. (d + 1) * c = d * c + c
  BY <1>1
<1> QED BY <1>1, <1>3, <1>4

LEMMA DivAtMost ==
  ASSUME NEW a \in Nat, NEW c \in Nat \ {0}, NEW x \in Nat, a <= x * c
  PROVE  a \div c <= x
<1> DEFINE d == a \div c
<1>1. d \in Nat /\ d * c <= a
  BY DivIs
<1> HIDE DEF d
<1>2. SUFFICES ASSUME x + 1 <= d PROVE FALSE
  BY <1>1 DEF d
<1>3. (x + 1) * c <= d * c
  BY <1>1, <1>2
<1>4. (x + 1) * c = x * c + c
  OBVIOUS
<1> QED BY <1>1, <1>3, <1>4

LEMMA ScaleType ==
  ASSUME NEW a \in Int, NEW b \in Int, NEW c \in Int
  PROVE  Scale(a, b, c) \in Nat
<1>1. CASE a < 0 \/ b < 0 \/ c <= 0
  BY <1>1, Numbers DEF Scale
<1>2. CASE ~ (a < 0 \/ b < 0 \/ c <= 0)
  <2>1. a \in Nat /\ b \in Nat /\ c \in Nat \ {0} /\ a * b \in Nat
    BY <1>2
  <2> QED BY <1>2, <2>1, DivIs DEF Scale
<1> QED BY <1>1, <1>2

LEMMA ScaleIs ==
  ASSUME NEW a \in Nat, NEW b \in Nat, NEW c \in Nat \ {0}
  PROVE  Scale(a, b, c) = (a * b) \div c /\ a * b \in Nat
BY DEF Scale
-----------------------------------------------------------------------------
(* Observations and groups *)

Obs == [pcr : Nat, offset : Nat]

Flags == {"closed", "estimated", "reset", "wrapover"}

Groups ==
  {g \in [first_pcr : Nat, first_offset : Nat, values : Seq(Obs), pcr_offset : Int,
           flags : SUBSET Flags] : g.values # <<>>}

LEMMA LastIs ==
  ASSUME NEW S, NEW s \in Seq(S), s # <<>>
  PROVE  Last(s) \in S /\ Len(s) \in Nat \ {0} /\ Last(s) = s[Len(s)]
<1>1. Len(s) \in Nat \ {0}
  BY EmptySeq, LenProperties
<1>2. Len(s) \in 1 .. Len(s)
  BY <1>1
<1> QED BY <1>1, <1>2, ElementOfSeq DEF Last

LEMMA LastOfAppend ==
  ASSUME NEW S, NEW s \in Seq(S), NEW x \in S
  PROVE  /\ Append(s, x) \in Seq(S) /\ Append(s, x) # <<>> /\ Last(Append(s, x)) = x
         /\ Len(Append(s, x)) = Len(s) + 1
         /\ \A k \in 1 .. Len(s) : Append(s, x)[k] = s[k]
<1>1. /\ Append(s, x) \in Seq(S) /\ Len(Append(s, x)) = Len(s) + 1 /\ Len(s) \in Nat
      /\ \A k \in 1 .. Len(s) : Append(s, x)[k] = s[k]
      /\ Append(s, x)[Len(s) + 1] = x
  BY AppendProperties, LenProperties
<1>2. Append(s, x) # <<>>
  BY <1>1, EmptySeq
<1> QED BY <1>1, <1>2 DEF Last

LEMMA GroupFields ==
  ASSUME NEW g \in Groups
  PROVE  /\ g.first_pcr \in Nat /\ g.first_offset \in Nat /\ g.pcr_offset \in Int
         /\ g.values \in Seq(Obs) /\ g.values # <<>> /\ g.flags \subseteq Flags
         /\ Last(g.values) \in Obs /\ Last(g.values).pcr \in Nat /\ Last(g.values).offset \in Nat
<1>1. g.values \in Seq(Obs) /\ g.values # <<>>
  BY DEF Groups
<1>2. Last(g.values) \in Obs
  BY <1>1, LastIs
<1> QED BY <1>1, <1>2 DEF Groups, Obs

LEMMA InsertAfterIs ==
  ASSUME NEW gs \in Seq(Groups), NEW i \in 0 .. Len(gs), NEW g \in Groups
  PROVE  /\ InsertAfter(gs, i, g) \in Seq(Groups)
         /\ Len(InsertAfter(gs, i, g)) = Len(gs) + 1
         /\ \A k \in 1 .. i : InsertAfter(gs, i, g)[k] = gs[k]
         /\ InsertAfter(gs, i, g)[i + 1] = g
         /\ \A k \in i + 2 .. Len(gs) + 1 : InsertAfter(gs, i, g)[k] = gs[k - 1]
<1> DEFINE n == Len(gs)
           a == SubSeq(gs, 1, i)
           b == SubSeq(gs, i + 1, n)
           m == a \o <<g>>
           t == m \o b
<1>1. n \in Nat /\ i \in 0 .. n
  BY LenProperties
<1>2. a \in Seq(Groups) /\ Len(a) = i /\ \A k \in 1 .. i : a[k] = gs[k]
  BY <1>1
<1>3. b \in Seq(Groups) /\ Len(b) = n - i /\ \A k \in 1 .. n - i : b[k] = gs[i + k]
  BY <1>1
<1>4. <<g>> \in Seq(Groups) /\ Len(<<g>>) = 1 /\ <<g>>[1] = g
  OBVIOUS
<1> HIDE DEF a, b
<1>5. m \in Seq(Groups) /\ Len(m) = Len(a) + Len(<<g>>)
  BY <1>2, <1>4, ConcatProperties, Zenon
<1>6. \A k \in 1 .. Len(a) + Len(<<g>>) : m[k] = IF k <= Len(a) THEN a[k] ELSE <<g>>[k - Len(a)]
  BY <1>2, <1>4, ConcatProperties, Zenon
<1> HIDE DEF m
<1>7. Len(m) = i + 1 /\ m[i + 1] = g /\ \A k \in 1 .. i : m[k] = gs[k]
  <2>1. Len(m) = i + 1
    BY <1>1, <1>2, <1>4, <1>5
  <2>2. m[i + 1] = <<g>>[(i + 1) - i]
    BY <1>1, <1>2, <1>4, <1>6
  <2>3. (i + 1) - i = 1
    BY <1>1
  <2>4. \A k \in 1 .. i : m[k] = gs[k]
    BY <1>1, <1>2, <1>4, <1>6
  <2> QED BY <1>4, <2>1, <2>2, <2>3, <2>4
<1>8. t \in Seq(Groups) /\ Len(t) = Len(m) + Len(b)
  BY <1>3, <1>5, ConcatProperties, Zenon
<1>9. \A k \in 1 .. Len(m) + Len(b) : t[k] = IF k <= Len(m) THEN m[k] ELSE b[k - Len(m)]
  <2>1. m \in Seq(Groups) /\ b \in Seq(Groups)
    BY <1>3, <1>5
  <2> QED BY <2>1, ConcatProperties, ZenonT(30)
<1>10. InsertAfter(gs, i, g) = t
  BY DEF InsertAfter, t, m, a, b
<1> HIDE DEF t
<1>11. Len(t) = n + 1 /\ t[i + 1] = g /\ \A k \in 1 .. i : t[k] = gs[k]
  <2>1. Len(t) = n + 1
    BY <1>1, <1>3, <1>7, <1>8
  <2>2. i + 1 \in 1 .. Len(m) + Len(b) /\ i + 1 <= Len(m)
    BY <1>1, <1>3, <1>7
  <2>3. t[i + 1] = m[i + 1]
    BY <1>9, <2>2
  <2>4. ASSUME NEW k \in 1 .. i PROVE t[k] = m[k]
    <3>1. k \in 1 .. Len(m) + Len(b) /\ k <= Len(m)
      BY <1>1, <1>3, <1>7
    <3> QED BY <1>9, <3>1
  <2> QED BY <1>7, <2>1, <2>3, <2>4
<1>12. ASSUME NEW k \in i + 2 .. n + 1 PROVE t[k] = gs[k - 1]
  <2>1. k \in 1 .. Len(m) + Len(b) /\ ~ (k <= Len(m)) /\ k - (i + 1) \in 1 .. n - i
    BY <1>1, <1>3, <1>7
  <2>2. t[k] = b[k - (i + 1)]
    BY <1>7, <1>9, <2>1
  <2>3. b[k - (i + 1)] = gs[i + (k - (i + 1))] /\ i + (k - (i + 1)) = k - 1
    BY <1>1, <1>3, <2>1
  <2> QED BY <2>2, <2>3
<1> QED BY <1>8, <1>10, <1>11, <1>12
-----------------------------------------------------------------------------
(* Estimates *)

Typed(c) == c.group \in Nat /\ (c.group # 0 => Last(c.pending) \in Obs)

Est(g) == "estimated" \in g.flags

\* The observations of groups are not touched.
SameObs(r, gs) ==
  /\ Len(r) = Len(gs)
  /\ \A k \in 1 .. Len(gs) : /\ r[k].first_pcr = gs[k].first_pcr
                             /\ r[k].first_offset = gs[k].first_offset
                             /\ r[k].values = gs[k].values

LEMMA LatestIs ==
  ASSUME NEW gs \in Seq(Groups), NEW c, Typed(c), NEW i \in 1 .. Len(gs)
  PROVE  Latest(gs, c, i) \in Obs /\ Latest(gs, c, i).pcr \in Nat /\ Latest(gs, c, i).offset \in Nat
<1>1. gs[i] \in Groups
  BY ElementOfSeq
<1>2. Last(gs[i].values) \in Obs /\ i # 0
  BY <1>1, GroupFields, LenProperties
<1>3. Latest(gs, c, i) \in Obs
  BY <1>2 DEF Latest, Typed
<1> QED BY <1>3 DEF Obs

\* The pcr_offset of one group and the flags of it and of the one before are set.
Updated(gs, i, F, t, E) ==
  [k \in 1 .. Len(gs) |->
     IF k = i - 1 THEN [gs[k] EXCEPT !.flags = F]
     ELSE IF k = i THEN [gs[k] EXCEPT !.pcr_offset = t, !.flags = E] ELSE gs[k]]

Changes(v, gs, i, F, t, E) ==
  /\ v \in Seq(Groups) /\ SameObs(v, gs)
  /\ \A k \in 1 .. Len(gs) : k # i => v[k].pcr_offset = gs[k].pcr_offset
  /\ \A k \in 1 .. Len(gs) : k \notin {i - 1, i} => v[k] = gs[k]
  /\ v[i - 1].flags = F /\ v[i].flags = E /\ v[i].pcr_offset = t

LEMMA UpdateIs ==
  ASSUME NEW gs \in Seq(Groups), NEW i \in 2 .. Len(gs), NEW F \in SUBSET Flags,
         NEW t \in Int, NEW E \in SUBSET Flags
  PROVE  Changes(Updated(gs, i, F, t, E), gs, i, F, t, E)
<1> DEFINE v == Updated(gs, i, F, t, E)
<1>1. Len(gs) \in Nat /\ \A k \in 1 .. Len(gs) : gs[k] \in Groups
  BY ElementOfSeq, LenProperties
<1>5. /\ DOMAIN v = 1 .. Len(gs)
      /\ \A k \in 1 .. Len(gs) :
           v[k] = IF k = i - 1 THEN [gs[k] EXCEPT !.flags = F]
                  ELSE IF k = i THEN [gs[k] EXCEPT !.pcr_offset = t, !.flags = E] ELSE gs[k]
  BY DEF Updated
<1>6. v = [k \in 1 .. Len(gs) |-> v[k]]
  BY DEF Updated
<1> HIDE DEF v
<1>2. ASSUME NEW k \in 1 .. Len(gs)
      PROVE  /\ v[k] \in Groups /\ v[k].first_pcr = gs[k].first_pcr
             /\ v[k].first_offset = gs[k].first_offset /\ v[k].values = gs[k].values
             /\ k # i => v[k].pcr_offset = gs[k].pcr_offset
             /\ k \notin {i - 1, i} => v[k] = gs[k]
             /\ k = i - 1 => v[k].flags = F
             /\ k = i => v[k].flags = E /\ v[k].pcr_offset = t
  <2>1. gs[k] \in Groups
    BY <1>1
  <2>2. CASE k = i - 1
    <3>1. v[k] = [gs[k] EXCEPT !.flags = F]
      BY <1>5, <2>2, Zenon
    <3>2. k # i
      BY <1>1, <2>2
    <3> QED BY <2>1, <2>2, <3>1, <3>2 DEF Groups
  <2>3. CASE k = i
    <3>1. k # i - 1
      BY <1>1, <2>3
    <3>2. v[k] = [gs[k] EXCEPT !.pcr_offset = t, !.flags = E]
      BY <1>5, <2>3, <3>1, Zenon
    <3> QED BY <2>1, <2>3, <3>1, <3>2 DEF Groups
  <2>4. CASE k \notin {i - 1, i}
    BY <1>5, <2>1, <2>4
  <2> QED BY <2>2, <2>3, <2>4
<1>3. v \in Seq(Groups) /\ Len(v) = Len(gs)
  <2>2. v \in [1 .. Len(gs) -> Groups]
    BY <1>2, <1>6
  <2> QED BY <1>1, <2>2
<1>4. i \in 1 .. Len(gs) /\ i - 1 \in 1 .. Len(gs)
  <2>1. Len(gs) \in Nat /\ i \in 2 .. Len(gs)
    BY <1>1
  <2> QED BY <2>1
<1>7. Changes(v, gs, i, F, t, E)
  BY <1>2, <1>3, <1>4 DEF SameObs, Changes
<1> QED BY <1>7 DEF v

\* The time of an estimated group k.
Clause(gs, c, r, k) ==
  /\ ~ Est(gs[k]) => r[k].pcr_offset = gs[k].pcr_offset /\ ~ Est(r[k])
  /\ Est(gs[k]) /\ gs[k - 1].first_pcr <= gs[k].first_pcr =>
       /\ Est(r[k])
       /\ r[k].pcr_offset = r[k - 1].pcr_offset + gs[k].first_pcr - gs[k - 1].first_pcr
  /\ Est(gs[k]) /\ gs[k].first_pcr < gs[k - 1].first_pcr =>
       \/ "wrapover" \in r[k - 1].flags
       \/ /\ Est(r[k])
          /\ \E rate \in Nat, full \in Nat :
               /\ Latest(gs, c, k - 1).offset # 0 =>
                    rate = Scale(Second, Latest(gs, c, k - 1).offset, Latest(gs, c, k - 1).pcr)
               /\ rate # 0 =>
                    full = Scale(Second, gs[k].first_offset - gs[k - 1].first_offset, rate)
               /\ r[k].pcr_offset = r[k - 1].pcr_offset + full + Tenth

LEMMA BitrateIs ==
  ASSUME NEW gs \in Seq(Groups), NEW c, Typed(c), NEW i \in 1 .. Len(gs)
  PROVE  /\ Bitrate(gs, c, i) \in Nat
         /\ Latest(gs, c, i).offset # 0 =>
              Bitrate(gs, c, i) = Scale(Second, Latest(gs, c, i).offset, Latest(gs, c, i).pcr)
<1> DEFINE l == Latest(gs, c, i)
<1>1. l.pcr \in Nat /\ l.offset \in Nat
  BY LatestIs
<1>2. gs[i].first_offset \in Nat /\ gs[i].pcr_offset \in Int
  <2>1. gs[i] \in Groups
    BY ElementOfSeq
  <2> QED BY <2>1, GroupFields
<1>3. Second \in Int
  BY Numbers
<1>4. Scale(Second, l.offset, l.pcr) \in Nat
  <2> HIDE DEF l
  <2>1. l.offset \in Int /\ l.pcr \in Int
    BY <1>1
  <2> QED BY <1>3, <2>1, ScaleType
<1>6. Scale(Second, gs[i].first_offset, gs[i].pcr_offset) \in Nat
  <2>1. gs[i].first_offset \in Int
    BY <1>2
  <2> QED BY <1>2, <1>3, <2>1, ScaleType
<1>5. Bitrate(gs, c, i) = IF l.offset # 0 THEN Scale(Second, l.offset, l.pcr)
                          ELSE Scale(Second, gs[i].first_offset, gs[i].pcr_offset)
  BY DEF Bitrate
<1> QED BY <1>4, <1>5, <1>6

LEMMA UpdatedByThree ==
  ASSUME NEW gs \in Seq(Groups), NEW i \in 2 .. Len(gs), NEW F, NEW t, NEW E
  PROVE  [gs EXCEPT ![i - 1].flags = F, ![i].pcr_offset = t, ![i].flags = E] = Updated(gs, i, F, t, E)
<1> DEFINE a == [gs EXCEPT ![i - 1].flags = F]
           b == [a EXCEPT ![i].pcr_offset = t]
           d == [b EXCEPT ![i].flags = E]
           v == Updated(gs, i, F, t, E)
<1>1. /\ Len(gs) \in Nat /\ DOMAIN gs = 1 .. Len(gs) /\ i - 1 \in DOMAIN gs /\ i \in DOMAIN gs
      /\ i # i - 1
  BY LenProperties
<1>2. d = [gs EXCEPT ![i - 1].flags = F, ![i].pcr_offset = t, ![i].flags = E]
  OBVIOUS
<1>3. DOMAIN d = DOMAIN gs /\ d = [k \in DOMAIN gs |-> d[k]]
  BY <1>1
<1>4. DOMAIN v = DOMAIN gs /\ v = [k \in DOMAIN gs |-> v[k]]
  BY <1>1 DEF Updated
<1>5. ASSUME NEW k \in DOMAIN gs PROVE d[k] = v[k]
  <2>1. gs[k] \in Groups
    BY <1>1, ElementOfSeq
  <2>2. CASE k = i - 1
    <3>1. d[k] = a[k] /\ a[k] = [gs[k] EXCEPT !.flags = F]
      BY <1>1, <2>2
    <3>2. v[k] = [gs[k] EXCEPT !.flags = F]
      BY <1>1, <2>2, Zenon DEF Updated
    <3> QED BY <3>1, <3>2
  <2>3. CASE k = i
    <3>1. a[k] = gs[k] /\ b[k] = [gs[k] EXCEPT !.pcr_offset = t] /\ d[k] = [b[k] EXCEPT !.flags = E]
      BY <1>1, <2>3
    <3>2. v[k] = [gs[k] EXCEPT !.pcr_offset = t, !.flags = E]
      BY <1>1, <2>3, Zenon DEF Updated
    <3> QED BY <3>1, <3>2
  <2>4. CASE k # i - 1 /\ k # i
    <3>1. d[k] = gs[k]
      BY <1>1, <2>4
    <3>2. v[k] = gs[k]
      BY <1>1, <2>4, Zenon DEF Updated
    <3> QED BY <3>1, <3>2
  <2> QED BY <2>2, <2>3, <2>4
<1> HIDE DEF d, v
<1>6. d = v
  BY <1>3, <1>4, <1>5
<1> QED BY <1>2, <1>6 DEF v

LEMMA UpdatedByTwo ==
  ASSUME NEW gs \in Seq(Groups), NEW i \in 2 .. Len(gs), NEW F, NEW t
  PROVE  [gs EXCEPT ![i - 1].flags = F, ![i].pcr_offset = t] = Updated(gs, i, F, t, gs[i].flags)
<1> DEFINE a == [gs EXCEPT ![i - 1].flags = F]
           d == [a EXCEPT ![i].pcr_offset = t]
           v == Updated(gs, i, F, t, gs[i].flags)
<1>1. /\ Len(gs) \in Nat /\ DOMAIN gs = 1 .. Len(gs) /\ i - 1 \in DOMAIN gs /\ i \in DOMAIN gs
      /\ i # i - 1
  BY LenProperties
<1>2. d = [gs EXCEPT ![i - 1].flags = F, ![i].pcr_offset = t]
  OBVIOUS
<1>3. DOMAIN d = DOMAIN gs /\ d = [k \in DOMAIN gs |-> d[k]]
  BY <1>1
<1>4. DOMAIN v = DOMAIN gs /\ v = [k \in DOMAIN gs |-> v[k]]
  BY <1>1 DEF Updated
<1>5. ASSUME NEW k \in DOMAIN gs PROVE d[k] = v[k]
  <2>1. gs[k] \in Groups
    BY <1>1, ElementOfSeq
  <2>2. CASE k = i - 1
    <3>1. d[k] = a[k] /\ a[k] = [gs[k] EXCEPT !.flags = F]
      BY <1>1, <2>2
    <3>2. v[k] = [gs[k] EXCEPT !.flags = F]
      BY <1>1, <2>2, Zenon DEF Updated
    <3> QED BY <3>1, <3>2
  <2>3. CASE k = i
    <3>1. a[k] = gs[k] /\ d[k] = [gs[k] EXCEPT !.pcr_offset = t]
      BY <1>1, <2>3
    <3>2. v[k] = [gs[k] EXCEPT !.pcr_offset = t, !.flags = gs[k].flags]
      BY <1>1, <2>3, Zenon DEF Updated
    <3>3. [gs[k] EXCEPT !.pcr_offset = t] = [gs[k] EXCEPT !.pcr_offset = t, !.flags = gs[k].flags]
      BY <2>1 DEF Groups
    <3> QED BY <3>1, <3>2, <3>3
  <2>4. CASE k # i - 1 /\ k # i
    <3>1. d[k] = gs[k]
      BY <1>1, <2>4
    <3>2. v[k] = gs[k]
      BY <1>1, <2>4, Zenon DEF Updated
    <3> QED BY <3>1, <3>2
  <2> QED BY <2>2, <2>3, <2>4
<1> HIDE DEF d, v
<1>6. d = v
  BY <1>3, <1>4, <1>5
<1> QED BY <1>2, <1>6 DEF v

LEMMA AfterMoreIs ==
  ASSUME NEW u \in Seq(Groups), NEW i \in 2 .. Len(u)
  PROVE  AfterMore(u, i) = Updated(u, i, u[i - 1].flags \ {"reset", "wrapover"},
                             u[i - 1].pcr_offset + u[i].first_pcr - u[i - 1].first_pcr, u[i].flags)
<1> DEFINE F == u[i - 1].flags \ {"reset", "wrapover"}
           t == u[i - 1].pcr_offset + u[i].first_pcr - u[i - 1].first_pcr
<1>1. AfterMore(u, i) = [u EXCEPT ![i - 1].flags = F, ![i].pcr_offset = t]
  BY DEF AfterMore
<1> HIDE DEF F, t
<1>2. [u EXCEPT ![i - 1].flags = F, ![i].pcr_offset = t] = Updated(u, i, F, t, u[i].flags)
  BY UpdatedByTwo
<1> QED BY <1>1, <1>2 DEF F, t

LEMMA AfterResetIs ==
  ASSUME NEW u \in Seq(Groups), NEW c, NEW i \in 2 .. Len(u), NEW rate, rate = Bitrate(u, c, i - 1),
         NEW full,
         full = IF rate = 0 THEN 0
                ELSE Scale(Second, u[i].first_offset - u[i - 1].first_offset, rate)
  PROVE  AfterReset(u, c, i) = Updated(u, i, u[i - 1].flags \cup {"reset"},
                                 u[i - 1].pcr_offset + full + Tenth, u[i].flags)
<1> DEFINE F == u[i - 1].flags \cup {"reset"}
           t == u[i - 1].pcr_offset + full + Tenth
<1>1. AfterReset(u, c, i) = [u EXCEPT ![i - 1].flags = F, ![i].pcr_offset = t]
  BY DEF AfterReset
<1> HIDE DEF F, t
<1>2. [u EXCEPT ![i - 1].flags = F, ![i].pcr_offset = t] = Updated(u, i, F, t, u[i].flags)
  BY UpdatedByTwo
<1> QED BY <1>1, <1>2 DEF F, t

LEMMA AfterWrapIs ==
  ASSUME NEW u \in Seq(Groups), NEW c, NEW i \in 2 .. Len(u)
  PROVE  \E t \in Int, E \in SUBSET Flags :
           AfterWrap(u, c, i) = Updated(u, i, u[i - 1].flags \cup {"wrapover"}, t, E)
<1>1. /\ u[i] \in Groups /\ u[i - 1] \in Groups /\ i # i - 1
      /\ i \in DOMAIN u /\ i - 1 \in DOMAIN u
  <2>1. Len(u) \in Nat /\ DOMAIN u = 1 .. Len(u)
    BY LenProperties
  <2>2. i \in 1 .. Len(u) /\ i - 1 \in 1 .. Len(u) /\ i # i - 1
    BY <2>1
  <2> QED BY <2>1, <2>2, ElementOfSeq
<1>5. \A F, t, E : [u EXCEPT ![i - 1].flags = F, ![i].pcr_offset = t, ![i].flags = E]
                        = Updated(u, i, F, t, E)
  BY UpdatedByThree
<1> DEFINE p == u[i - 1]
           g == u[i]
           l == Latest(u, c, i - 1)
           guess == PcrMax - p.first_pcr + g.first_pcr
           before == Bitrate(u, c, i - 1)
           between == Scale(Second, EndOffset(g) - (l.offset + p.first_offset),
                            guess + Last(g.values).pcr - l.pcr)
           agrees(percent) == Distance(before, between) * 100 < percent * before
           F == p.flags \cup {"wrapover"}
           t == IF agrees(10) THEN guess ELSE g.pcr_offset
           E == IF agrees(1) THEN g.flags \ {"estimated"} ELSE g.flags
<1>2. AfterWrap(u, c, i) = [u EXCEPT ![i - 1].flags = F, ![i].pcr_offset = t, ![i].flags = E]
  BY <1>1 DEF AfterWrap
<1>3. guess \in Int
  BY <1>1, GroupFields, Numbers
<1>4. t \in Int /\ E \in SUBSET Flags
  <2> HIDE DEF guess, agrees
  <2> QED BY <1>1, <1>3, GroupFields
<1> HIDE DEF F, t, E
<1>6. [u EXCEPT ![i - 1].flags = F, ![i].pcr_offset = t, ![i].flags = E] = Updated(u, i, F, t, E)
  BY <1>5
<1> QED BY <1>2, <1>4, <1>6 DEF F

LEMMA EstimateCases ==
  ASSUME NEW u, NEW c, NEW i
  PROVE  /\ i = 1 \/ ~ Est(u[i]) => Estimate(u, c, i) = u
         /\ i # 1 /\ Est(u[i]) /\ u[i].first_pcr >= u[i - 1].first_pcr =>
              Estimate(u, c, i) = AfterMore(u, i)
         /\ i # 1 /\ Est(u[i]) /\ ~ (u[i].first_pcr >= u[i - 1].first_pcr) =>
              \/ Estimate(u, c, i) = AfterWrap(u, c, i)
              \/ Estimate(u, c, i) = AfterReset(u, c, i)
BY Zenon DEF Estimate, Est

LEMMA EstimateIs ==
  ASSUME NEW u \in Seq(Groups), NEW c, Typed(c), NEW i \in 2 .. Len(u), NEW v, v = Estimate(u, c, i)
  PROVE  /\ v \in Seq(Groups) /\ SameObs(v, u)
         /\ \A k \in 1 .. Len(u) : k # i => v[k].pcr_offset = u[k].pcr_offset
         /\ \A k \in 1 .. Len(u) : k \notin {i - 1, i} => v[k] = u[k]
         /\ Est(v[i - 1]) <=> Est(u[i - 1])
         /\ Clause(u, c, v, i)
<1>7. \A F \in SUBSET Flags, t \in Int, E \in SUBSET Flags :
        Changes(Updated(u, i, F, t, E), u, i, F, t, E)
  BY UpdateIs
<1> DEFINE p == u[i - 1]
           g == u[i]
           l == Latest(u, c, i - 1)
<1>1. /\ Len(u) \in Nat /\ i \in 1 .. Len(u) /\ i - 1 \in 1 .. Len(u) /\ i # i - 1 /\ i # 1
  <2>1. Len(u) \in Nat /\ i \in 2 .. Len(u)
    BY LenProperties
  <2> QED BY <2>1
<1>2. p \in Groups /\ g \in Groups
  BY <1>1, ElementOfSeq
<1>3. /\ p.first_pcr \in Nat /\ p.first_offset \in Nat /\ p.pcr_offset \in Int /\ p.flags \subseteq Flags
      /\ g.first_pcr \in Nat /\ g.first_offset \in Nat /\ g.pcr_offset \in Int /\ g.flags \subseteq Flags
  BY <1>2, GroupFields
<1>4. CASE ~ Est(g)
  <2>1. v = u
    BY <1>4, EstimateCases, Zenon
  <2> QED BY <1>4, <2>1 DEF Clause, SameObs
<1>5. CASE Est(g) /\ p.first_pcr <= g.first_pcr
  <2> DEFINE F == p.flags \ {"reset", "wrapover"}
             t == p.pcr_offset + g.first_pcr - p.first_pcr
             E == g.flags
  <2>0. g.first_pcr >= p.first_pcr
    BY <1>3, <1>5
  <2>1. v = AfterMore(u, i)
    BY <1>1, <1>5, <2>0, EstimateCases, Zenon
  <2>2. v = Updated(u, i, F, t, E)
    BY <2>1, AfterMoreIs
  <2>3. F \in SUBSET Flags /\ t \in Int /\ E \in SUBSET Flags /\ "estimated" \in E
        /\ ("estimated" \in F <=> Est(p))
    BY <1>3, <1>5 DEF Est
  <2> HIDE DEF F, t, E
  <2>4. /\ v \in Seq(Groups) /\ SameObs(v, u)
        /\ \A k \in 1 .. Len(u) : k # i => v[k].pcr_offset = u[k].pcr_offset
        /\ \A k \in 1 .. Len(u) : k \notin {i - 1, i} => v[k] = u[k]
        /\ v[i - 1].flags = F /\ v[i].flags = E /\ v[i].pcr_offset = t
    <3>1. Changes(v, u, i, F, t, E)
      BY <1>7, <2>2, <2>3, Zenon
    <3> QED BY <3>1 DEF Changes
  <2>5. v[i - 1].pcr_offset = p.pcr_offset
    BY <1>1, <2>4
  <2>6. Clause(u, c, v, i)
    <3>1. Est(v[i]) /\ v[i].pcr_offset = v[i - 1].pcr_offset + g.first_pcr - p.first_pcr
      BY <2>3, <2>4, <2>5 DEF Est, t
    <3>2. ~ (g.first_pcr < p.first_pcr)
      BY <1>3, <1>5
    <3> QED BY <1>5, <3>1, <3>2 DEF Clause
  <2> QED BY <2>3, <2>4, <2>6 DEF Est
<1>6. CASE Est(g) /\ ~ (p.first_pcr <= g.first_pcr)
  <2>1. CASE v = AfterWrap(u, c, i)
    <3> DEFINE F == p.flags \cup {"wrapover"}
    <3>1. PICK t \in Int, E \in SUBSET Flags : v = Updated(u, i, F, t, E)
      BY <2>1, AfterWrapIs
    <3>2. F \in SUBSET Flags /\ "wrapover" \in F /\ ("estimated" \in F <=> Est(p))
      BY <1>3 DEF Est, Flags
    <3> HIDE DEF F
    <3>3. /\ v \in Seq(Groups) /\ SameObs(v, u)
          /\ \A k \in 1 .. Len(u) : k # i => v[k].pcr_offset = u[k].pcr_offset
          /\ \A k \in 1 .. Len(u) : k \notin {i - 1, i} => v[k] = u[k]
          /\ v[i - 1].flags = F
      <4>1. Changes(v, u, i, F, t, E)
        BY <1>7, <3>1, <3>2, Zenon
      <4> QED BY <4>1 DEF Changes
    <3>4. Clause(u, c, v, i)
      BY <1>6, <3>2, <3>3 DEF Clause
    <3> QED BY <3>2, <3>3, <3>4 DEF Est
  <2>2. CASE v = AfterReset(u, c, i)
    <3> DEFINE rate == Bitrate(u, c, i - 1)
               full == IF rate = 0 THEN 0 ELSE Scale(Second, g.first_offset - p.first_offset, rate)
               F == p.flags \cup {"reset"}
               t == p.pcr_offset + full + Tenth
               E == g.flags
    <3>1. v = Updated(u, i, F, t, E)
      BY <2>2, AfterResetIs
    <3>2. /\ rate \in Nat
          /\ l.offset # 0 => rate = Scale(Second, l.offset, l.pcr)
      BY <1>1, BitrateIs
    <3> HIDE DEF rate
    <3>3. full \in Nat
      <4>1. g.first_offset - p.first_offset \in Int /\ Second \in Int /\ rate \in Int
        BY <1>3, <3>2, Numbers
      <4> QED BY <4>1, ScaleType
    <3>4. rate # 0 => full = Scale(Second, g.first_offset - p.first_offset, rate)
      OBVIOUS
    <3> HIDE DEF full
    <3>5. F \in SUBSET Flags /\ t \in Int /\ E \in SUBSET Flags /\ "estimated" \in E
          /\ ("estimated" \in F <=> Est(p))
      BY <1>3, <1>6, <3>3, Numbers DEF Est, Flags
    <3>6. t = p.pcr_offset + full + Tenth
      OBVIOUS
    <3> HIDE DEF F, t, E
    <3>7. /\ v \in Seq(Groups) /\ SameObs(v, u)
          /\ \A k \in 1 .. Len(u) : k # i => v[k].pcr_offset = u[k].pcr_offset
          /\ \A k \in 1 .. Len(u) : k \notin {i - 1, i} => v[k] = u[k]
          /\ v[i - 1].flags = F /\ v[i].flags = E /\ v[i].pcr_offset = t
      <4>1. Changes(v, u, i, F, t, E)
        BY <1>7, <3>1, <3>5, Zenon
      <4> QED BY <4>1 DEF Changes
    <3>8. v[i - 1].pcr_offset = p.pcr_offset /\ Est(v[i]) /\ (Est(v[i - 1]) <=> Est(p))
      BY <1>1, <3>5, <3>7 DEF Est
    <3>9. Clause(u, c, v, i)
      <4>1. v[i].pcr_offset = v[i - 1].pcr_offset + full + Tenth
        BY <3>6, <3>7, <3>8
      <4> QED BY <1>6, <3>2, <3>3, <3>4, <3>8, <4>1 DEF Clause
    <3> QED BY <3>7, <3>8, <3>9
  <2>3. v = AfterWrap(u, c, i) \/ v = AfterReset(u, c, i)
    <3>1. ~ (g.first_pcr >= p.first_pcr)
      BY <1>3, <1>6
    <3> QED BY <1>1, <1>6, <3>1, EstimateCases, Zenon
  <2> QED BY <2>1, <2>2, <2>3
<1> QED BY <1>4, <1>5, <1>6

\* The groups up to m have been estimated.
Done(u, gs, c, m) ==
  /\ u \in Seq(Groups) /\ SameObs(u, gs)
  /\ \A k \in 1 .. Len(gs) : k > m => u[k] = gs[k]
  /\ gs # <<>> => u[1].pcr_offset = gs[1].pcr_offset
  /\ \A k \in 2 .. Len(gs) : k <= m => Clause(gs, c, u, k)

LEMMA DoneNext ==
  ASSUME NEW gs \in Seq(Groups), NEW c, Typed(c), NEW i \in 1 .. Len(gs), NEW u, Done(u, gs, c, i - 1)
  PROVE  Done(Estimate(u, c, i), gs, c, i)
<1>1. Len(gs) \in Nat /\ i \in 1 .. Len(gs) /\ u \in Seq(Groups) /\ Len(u) = Len(gs) /\ SameObs(u, gs)
  BY LenProperties DEF Done, SameObs
<1>2. CASE i = 1
  <2>1. Estimate(u, c, i) = u
    BY <1>2, EstimateCases, Zenon
  <2>2. \A k \in 1 .. Len(gs) : k > i => k > i - 1
    BY <1>1
  <2>3. \A k \in 2 .. Len(gs) : ~ (k <= i)
    BY <1>1, <1>2
  <2> QED BY <2>1, <2>2, <2>3 DEF Done
<1>3. CASE i # 1
  <2>1. i \in 2 .. Len(u) /\ i \in 2 .. Len(gs) /\ i - 1 \in 1 .. Len(gs) /\ i # i - 1
    BY <1>1, <1>3
  <2> DEFINE v == Estimate(u, c, i)
  <2>2. /\ v \in Seq(Groups) /\ SameObs(v, u)
        /\ \A k \in 1 .. Len(u) : k # i => v[k].pcr_offset = u[k].pcr_offset
        /\ \A k \in 1 .. Len(u) : k \notin {i - 1, i} => v[k] = u[k]
        /\ (Est(v[i - 1]) <=> Est(u[i - 1]))
        /\ Clause(u, c, v, i)
    BY <1>1, <2>1, EstimateIs
  <2> HIDE DEF v
  <2>3. SameObs(v, gs)
    BY <1>1, <2>2 DEF SameObs
  <2>4. ASSUME NEW k \in 1 .. Len(gs), k > i PROVE v[k] = gs[k]
    <3>1. k > i - 1 /\ k \notin {i - 1, i} /\ k \in 1 .. Len(u)
      BY <1>1, <2>4
    <3> QED BY <2>2, <3>1 DEF Done
  <2>5. gs # <<>> => v[1].pcr_offset = gs[1].pcr_offset
    <3>1. 1 \in 1 .. Len(u) /\ 1 # i
      BY <1>1, <1>3
    <3> QED BY <2>2, <3>1 DEF Done
  <2>6. ASSUME NEW k \in 2 .. Len(gs), k <= i PROVE Clause(gs, c, v, k)
    <3>1. CASE k = i
      <4>1. u[i] = gs[i]
        <5>1. i > i - 1
          BY <1>1
        <5> QED BY <1>1, <5>1 DEF Done
      <4>2. /\ u[i - 1].first_pcr = gs[i - 1].first_pcr
            /\ u[i - 1].first_offset = gs[i - 1].first_offset
            /\ u[i - 1].values = gs[i - 1].values
        BY <1>1, <2>1 DEF SameObs
      <4>3. Latest(u, c, i - 1) = Latest(gs, c, i - 1)
        BY <4>2 DEF Latest
      <4> QED BY <2>2, <3>1, <4>1, <4>2, <4>3 DEF Clause
    <3>2. CASE k # i
      <4>1. /\ k <= i - 1 /\ k \in 1 .. Len(u) /\ k - 1 \in 1 .. Len(u)
            /\ k - 1 \notin {i - 1, i} /\ k # i
        BY <1>1, <2>6, <3>2
      <4>2. Clause(gs, c, u, k)
        BY <4>1 DEF Done
      <4>3. v[k - 1] = u[k - 1] /\ v[k].pcr_offset = u[k].pcr_offset
        BY <2>2, <4>1
      <4>4. Est(v[k]) <=> Est(u[k])
        <5>1. CASE k = i - 1
          BY <2>2, <5>1
        <5>2. CASE k # i - 1
          <6>1. v[k] = u[k]
            BY <2>2, <4>1, <5>2
          <6> QED BY <6>1
        <5> QED BY <5>1, <5>2
      <4> QED BY <4>2, <4>3, <4>4 DEF Clause
    <3> QED BY <3>1, <3>2
  <2>7. Done(v, gs, c, i)
    BY <2>2, <2>3, <2>4, <2>5, <2>6 DEF Done
  <2> QED BY <2>7 DEF v
<1> QED BY <1>2, <1>3

OneByOne(g, gs, c, n) ==
  DOMAIN g = 0 .. n /\ g[0] = gs /\ \A i \in 1 .. n : g[i] = Estimate(g[i - 1], c, i)

\* The estimates can be made one after the other.
LEMMA EstimatesExist ==
  ASSUME NEW gs, NEW c, NEW n \in Nat
  PROVE  \E g : OneByOne(g, gs, c, n)
<1> DEFINE Chain(k, g) == OneByOne(g, gs, c, k)
           Bad == {k \in 0 .. n : ~ \E g : Chain(k, g)}
<1>1. SUFFICES ASSUME Bad # {} PROVE FALSE
  <2>1. n \in 0 .. n
    OBVIOUS
  <2> QED BY <1>1, <2>1
<1> DEFINE k == LeastOf(Bad)
<1>2. k \in Bad /\ \A j \in Bad : k <= j
  <2>1. Bad \in SUBSET Nat
    OBVIOUS
  <2> HIDE DEF Bad
  <2> QED BY <1>1, <2>1, LeastExists
<1> HIDE DEF k
<1>3. k \in 0 .. n /\ ~ \E g : Chain(k, g)
  BY <1>2
<1>4. k # 0
  <2> DEFINE g == [i \in 0 .. 0 |-> gs]
  <2>1. k = 0 => Chain(k, g)
    BY DEF OneByOne
  <2> QED BY <1>3, <2>1
<1>5. PICK g : Chain(k - 1, g)
  <2>1. k - 1 \in 0 .. n /\ ~ (k <= k - 1)
    BY <1>3, <1>4
  <2>2. k - 1 \notin Bad
    BY <1>2, <2>1
  <2> QED BY <2>1, <2>2
<1>6. k \in 1 .. n
  BY <1>3, <1>4
<1> DEFINE f == [i \in 0 .. k |-> IF i = k THEN Estimate(g[k - 1], c, k) ELSE g[i]]
<1>7. DOMAIN f = 0 .. k /\ f[0] = gs
  <2>1. 0 \in 0 .. k /\ 0 # k
    BY <1>6
  <2> QED BY <1>5, <2>1 DEF OneByOne
<1>8. ASSUME NEW i \in 1 .. k PROVE f[i] = Estimate(f[i - 1], c, i)
  <2>1. i \in 0 .. k /\ i - 1 \in 0 .. k /\ i - 1 # k
    BY <1>6
  <2>2. f[i - 1] = g[i - 1]
    BY <2>1
  <2>3. CASE i = k
    <3>1. f[i] = Estimate(g[k - 1], c, k)
      BY <2>1, <2>3
    <3> QED BY <2>2, <2>3, <3>1
  <2>4. CASE i # k
    <3>1. i \in 1 .. k - 1
      BY <1>6, <2>4
    <3>2. f[i] = g[i]
      BY <2>1, <2>4
    <3> HIDE DEF f
    <3> QED BY <1>5, <2>2, <3>1, <3>2 DEF OneByOne
  <2> QED BY <2>3, <2>4
<1> HIDE DEF f
<1>9. Chain(k, f)
  BY <1>7, <1>8 DEF OneByOne
<1> QED BY <1>3, <1>9

\* What the pass over the groups makes of them.
LEMMA ReevaluatedIs ==
  ASSUME NEW gs \in Seq(Groups), NEW c, Typed(c)
  PROVE  Done(Reevaluated(gs, c), gs, c, Len(gs))
<1>0. \A m \in Nat : \E g : OneByOne(g, gs, c, m)
  BY EstimatesExist
<1> DEFINE n == Len(gs)
           E(u) == [i \in 0 .. n |-> IF i = 0 THEN gs ELSE Estimate(u[i - 1], c, i)]
           Eq(u) == u = E(u)
           upto == CHOOSE u : Eq(u)
<1>1. n \in Nat
  BY LenProperties
<1>2. \E g : Eq(g)
  <2> HIDE DEF n
  <2>1. PICK g0 : /\ DOMAIN g0 = 0 .. n /\ g0[0] = gs
                  /\ \A i \in 1 .. n : g0[i] = Estimate(g0[i - 1], c, i)
    BY <1>0, <1>1, Zenon DEF OneByOne
  <2> DEFINE g == [i \in 0 .. n |-> g0[i]]
  <2>2. \A i \in 1 .. n : i \in 0 .. n /\ i - 1 \in 0 .. n /\ i # 0
    BY <1>1
  <2>3. \A i \in 0 .. n : i # 0 => i \in 1 .. n
    OBVIOUS
  <2>4. \A i \in 1 .. n : g0[i] = Estimate(g[i - 1], c, i)
    BY <2>1, <2>2
  <2>5. g = E(g)
    <3>1. \A i \in 0 .. n : g0[i] = IF i = 0 THEN gs ELSE Estimate(g[i - 1], c, i)
      <4> HIDE DEF g
      <4> QED BY <2>1, <2>3, <2>4
    <3> QED BY <3>1
  <2> QED BY <2>5
<1>3. Reevaluated(gs, c) = upto[n]
  BY DEF Reevaluated
<1>4. upto = E(upto)
  <2>1. Eq(upto)
    <3> HIDE DEF Eq
    <3> QED BY <1>2
  <2> QED BY <2>1
<1> HIDE DEF upto
<1>5. upto[0] = gs /\ \A i \in 1 .. n : upto[i] = Estimate(upto[i - 1], c, i)
  <2>1. 0 \in 0 .. n /\ \A i \in 1 .. n : i \in 0 .. n /\ i # 0
    BY <1>1
  <2> QED BY <1>4, <2>1
<1> DEFINE Bad == {m \in 0 .. n : ~ Done(upto[m], gs, c, m)}
<1>6. SUFFICES ASSUME Bad # {} PROVE FALSE
  <2>1. n \in 0 .. n
    BY <1>1
  <2>2. Bad = {} => Done(upto[n], gs, c, n)
    BY <2>1
  <2> HIDE DEF Bad
  <2> QED BY <1>3, <1>6, <2>2
<1> DEFINE m == LeastOf(Bad)
<1>7. m \in Bad /\ \A j \in Bad : m <= j
  <2>1. Bad \in SUBSET Nat
    BY <1>1
  <2> HIDE DEF Bad
  <2> QED BY <1>6, <2>1, LeastExists
<1> HIDE DEF m
<1>8. m \in 0 .. n /\ ~ Done(upto[m], gs, c, m)
  BY <1>7
<1>9. m # 0
  <2>1. Done(gs, gs, c, 0)
    BY <1>1 DEF Done, SameObs
  <2> QED BY <1>5, <1>8, <2>1
<1>10. m \in 1 .. n /\ m - 1 \in 0 .. n /\ ~ (m <= m - 1)
  BY <1>1, <1>8, <1>9
<1>11. Done(upto[m - 1], gs, c, m - 1)
  BY <1>7, <1>10
<1>12. Done(Estimate(upto[m - 1], c, m), gs, c, m)
  BY <1>10, <1>11, DoneNext
<1> QED BY <1>5, <1>8, <1>10, <1>12
-----------------------------------------------------------------------------
(* The invariant *)

Currents == [group : Nat, pending : Seq(Obs), prev : Obs]

Entry(f, pcr, offset) == \E i \in 1 .. Len(f) : f[i].pcr = pcr /\ f[i].offset = offset

\* An observation of a group is a PCR of the file.  Two in a row are at most Half apart.
Seen(f, g, v) ==
  Entry(f, g.first_pcr + v.pcr, g.first_offset + v.offset) /\ v.pcr <= Half * v.offset

Shaped(f, gs) ==
  /\ gs \in Seq(Groups)
  /\ \A i \in 1 .. Len(gs) :
       Entry(f, gs[i].first_pcr, gs[i].first_offset) /\ Seen(f, gs[i], Last(gs[i].values))

\* The window has PCRs of its group, none before the last that was closed, the last one last.
Windows(f, gs, c) ==
  /\ c \in Currents
  /\ c.group # 0 =>
       /\ c.group \in 1 .. Len(gs) /\ c.pending # <<>>
       /\ \A k \in 1 .. Len(c.pending) :
            /\ Seen(f, gs[c.group], c.pending[k])
            /\ Last(gs[c.group].values).offset <= c.pending[k].offset
            /\ c.pending[k].offset <= Last(c.pending).offset

Ends(gs, c, i) == EndOf(gs, c, i).offset

Ordered(gs, c) == \A i \in 1 .. Len(gs) - 1 : Ends(gs, c, i) < gs[i + 1].first_offset

\* The window ends at the last PCR that was read, or a little before.
Placed(f, gs, c, p) ==
  c.group # 0 =>
    /\ p \in 1 .. Len(f)
    /\ Ends(gs, c, c.group) <= f[p].offset
    /\ f[p].pcr - (gs[c.group].first_pcr + Last(c.pending).pcr) \in 0 .. Tenth

\* Nothing is before the first group.  The pull mode begins with the first PCR of the file.
Fronted(f, gs, p) ==
  /\ gs # <<>> => gs[1].pcr_offset \in Nat
  /\ gs # <<>> /\ p < Len(f) => gs[1].first_offset <= f[p + 1].offset
  /\ mode # "pushing" /\ gs = <<>> => p = 0
  /\ mode # "pushing" /\ gs # <<>> => gs[1].first_offset = f[1].offset

\* Stream time less PCR.
Delta(g) == g.pcr_offset - g.first_pcr

Asc(f, o) == \A i, j \in 1 .. Len(f) : i < j /\ f[j].offset <= o => f[i].pcr <= f[j].pcr

\* A group that is no estimate comes after the PCRs before it, an estimate keeps the distance.
After(f, p, g, guess) ==
  /\ ~ Est(g) /\ Asc(f, g.first_offset) =>
       \A j \in 1 .. Len(f) : p.first_offset <= f[j].offset /\ f[j].offset < g.first_offset =>
          Delta(p) + f[j].pcr < g.pcr_offset
  /\ ~ Est(g) /\ ~ guess /\ Asc(f, g.first_offset - 1) =>
       \A j \in 1 .. Len(f) : p.first_offset <= f[j].offset /\ f[j].offset < g.first_offset =>
          Delta(p) + f[j].pcr <= g.pcr_offset
  /\ Est(g) /\ Asc(f, g.first_offset) => Delta(p) <= Delta(g)

Timed(f, gs, guess) == \A k \in 2 .. Len(gs) : After(f, gs[k - 1], gs[k], guess)

Main(f, gs, c, p, guess) ==
  /\ Shaped(f, gs) /\ Windows(f, gs, c) /\ Ordered(gs, c) /\ Placed(f, gs, c, p)
  /\ Fronted(f, gs, p) /\ Timed(f, gs, guess)

\* After the scan of the start of the file there is a group.
Reader ==
  /\ pos \in 0 .. Len(file)
  /\ mode \in {"head", "tail", "streaming", "pushing"}
  /\ mode = "head" => seen = pos
  /\ mode \in {"tail", "streaming"} => groups # <<>>

Inv ==
  /\ file \in Files /\ chunk \in Nat
  /\ overran \in BOOLEAN /\ guessed \in BOOLEAN
  /\ ~ overran => Main(file, groups, current, pos, guessed) /\ Reader
-----------------------------------------------------------------------------
(* PCRs in the order of the file *)

LEMMA InFile ==
  ASSUME NEW f, FileOK(f), NEW i \in 1 .. Len(f), NEW j \in 1 .. Len(f)
  PROVE  /\ f[i].pcr \in Nat /\ f[i].offset \in Nat /\ f[i].pcr < PcrMax
         /\ (f[i].offset < f[j].offset <=> i < j) /\ (f[i].offset <= f[j].offset <=> i <= j)
<1>1. i < j => f[i].offset < f[j].offset
  BY DEF FileOK
<1>2. j < i => f[j].offset < f[i].offset
  BY DEF FileOK
<1>3. /\ Len(f) \in Nat /\ f[i].pcr \in Nat /\ f[i].offset \in Nat /\ f[i].pcr < PcrMax
      /\ f[j].offset \in Nat
  BY DEF FileOK
<1>4. i \in Nat /\ j \in Nat /\ (i < j \/ j < i \/ i = j)
  BY <1>3
<1> QED BY <1>1, <1>2, <1>3, <1>4

LEMMA EntryIs ==
  ASSUME NEW f, FileOK(f), NEW a, NEW o, Entry(f, a, o)
  PROVE  a \in Nat /\ o \in Nat /\ a < PcrMax
BY DEF Entry, FileOK

LEMMA AscTwo ==
  ASSUME NEW f, FileOK(f), NEW o \in Int, Asc(f, o),
         NEW a, NEW b, NEW x, NEW y, Entry(f, a, x), Entry(f, b, y), x <= y, y <= o
  PROVE  a <= b
<1>1. PICK i \in 1 .. Len(f) : f[i].pcr = a /\ f[i].offset = x
  BY DEF Entry
<1>2. PICK j \in 1 .. Len(f) : f[j].pcr = b /\ f[j].offset = y
  BY DEF Entry
<1>3. i <= j /\ f[i].pcr \in Nat
  BY <1>1, <1>2, InFile
<1>4. CASE i = j
  BY <1>1, <1>2, <1>3, <1>4
<1>5. CASE i # j
  <2>1. i < j
    BY <1>3, <1>5 DEF FileOK
  <2> QED BY <1>1, <1>2, <2>1 DEF Asc
<1> QED BY <1>4, <1>5

LEMMA AscDown ==
  ASSUME NEW f, FileOK(f), NEW o \in Int, Asc(f, o), NEW x \in Int, x <= o
  PROVE  Asc(f, x)
<1>1. ASSUME NEW i \in 1 .. Len(f), NEW j \in 1 .. Len(f), i < j, f[j].offset <= x
      PROVE  f[i].pcr <= f[j].pcr
  <2>1. f[j].offset \in Nat
    BY InFile
  <2>2. f[j].offset <= o
    BY <1>1, <2>1
  <2> QED BY <1>1, <2>2 DEF Asc
<1> QED BY <1>1 DEF Asc
-----------------------------------------------------------------------------
(* Times *)

\* Nothing that times depend on is changed.
Same(r, gs) ==
  /\ Len(r) = Len(gs)
  /\ \A k \in 1 .. Len(gs) :
       /\ r[k].first_pcr = gs[k].first_pcr /\ r[k].first_offset = gs[k].first_offset
       /\ r[k].pcr_offset = gs[k].pcr_offset /\ (Est(r[k]) <=> Est(gs[k]))

Firsts(gs) == \A i \in 1 .. Len(gs) - 1 : gs[i].first_offset < gs[i + 1].first_offset

LEMMA TimedSame ==
  ASSUME NEW f, NEW gs \in Seq(Groups), NEW r, Same(r, gs), NEW guess, Timed(f, gs, guess)
  PROVE  Timed(f, r, guess)
<1>1. Len(gs) \in Nat /\ Len(r) = Len(gs)
  BY LenProperties DEF Same
<1>2. ASSUME NEW k \in 2 .. Len(gs) PROVE After(f, r[k - 1], r[k], guess)
  <2>1. k \in 1 .. Len(gs) /\ k - 1 \in 1 .. Len(gs)
    BY <1>1
  <2>2. After(f, gs[k - 1], gs[k], guess)
    BY DEF Timed
  <2>3. /\ r[k].first_pcr = gs[k].first_pcr /\ r[k].first_offset = gs[k].first_offset
        /\ r[k].pcr_offset = gs[k].pcr_offset /\ (Est(r[k]) <=> Est(gs[k]))
        /\ r[k - 1].first_pcr = gs[k - 1].first_pcr
        /\ r[k - 1].first_offset = gs[k - 1].first_offset
        /\ r[k - 1].pcr_offset = gs[k - 1].pcr_offset
    BY <2>1 DEF Same
  <2> QED BY <2>2, <2>3, Zenon DEF After, Delta
<1> QED BY <1>1, <1>2 DEF Timed

LEMMA ShapedGroup ==
  ASSUME NEW f, FileOK(f), NEW gs, Shaped(f, gs), NEW k \in 1 .. Len(gs)
  PROVE  /\ gs[k] \in Groups /\ gs[k].first_pcr \in Nat /\ gs[k].first_offset \in Nat
         /\ gs[k].pcr_offset \in Int /\ Delta(gs[k]) \in Int
         /\ gs[k].pcr_offset = Delta(gs[k]) + gs[k].first_pcr
         /\ Entry(f, gs[k].first_pcr, gs[k].first_offset) /\ Seen(f, gs[k], Last(gs[k].values))
<1>1. gs[k] \in Groups
  BY ElementOfSeq DEF Shaped
<1>2. gs[k].first_pcr \in Nat /\ gs[k].first_offset \in Nat /\ gs[k].pcr_offset \in Int
  BY <1>1, GroupFields
<1>3. Delta(gs[k]) \in Int /\ gs[k].pcr_offset = Delta(gs[k]) + gs[k].first_pcr
  BY <1>2 DEF Delta
<1> QED BY <1>1, <1>2, <1>3 DEF Shaped

\* As long as the PCRs do not go back, an estimate brought up to date does not come later.
LEMMA NotLater ==
  ASSUME NEW f, FileOK(f), NEW gs, Shaped(f, gs), Firsts(gs), NEW c, NEW guess,
         Timed(f, gs, guess), NEW r, Done(r, gs, c, Len(gs))
  PROVE  \A k \in 1 .. Len(gs) : Asc(f, gs[k].first_offset) => Delta(r[k]) <= Delta(gs[k])
<1>0. /\ r \in Seq(Groups) /\ SameObs(r, gs)
      /\ gs # <<>> => r[1].pcr_offset = gs[1].pcr_offset
      /\ \A k \in 2 .. Len(gs) : Clause(gs, c, r, k)
  <2>1. Len(gs) \in Nat
    BY LenProperties DEF Shaped
  <2>2. \A k \in 2 .. Len(gs) : k <= Len(gs)
    BY <2>1
  <2> QED BY <2>2 DEF Done
<1> DEFINE Bad == {k \in 1 .. Len(gs) : ~ (Asc(f, gs[k].first_offset) => Delta(r[k]) <= Delta(gs[k]))}
<1>1. SUFFICES ASSUME Bad # {} PROVE FALSE
  OBVIOUS
<1> DEFINE k == LeastOf(Bad)
<1>2. k \in Bad /\ \A j \in Bad : k <= j
  <2>1. Bad \in SUBSET Nat
    OBVIOUS
  <2> HIDE DEF Bad
  <2> QED BY <1>1, <2>1, LeastExists
<1> HIDE DEF k
<1>3. k \in 1 .. Len(gs) /\ Asc(f, gs[k].first_offset) /\ ~ (Delta(r[k]) <= Delta(gs[k]))
  BY <1>2
<1>4. Len(gs) \in Nat /\ Len(r) = Len(gs)
  BY <1>0, LenProperties DEF Shaped, SameObs
<1>5. \A j \in 1 .. Len(gs) :
        /\ r[j].first_pcr = gs[j].first_pcr /\ r[j].pcr_offset \in Int /\ Delta(r[j]) \in Int
        /\ r[j].pcr_offset = Delta(r[j]) + gs[j].first_pcr
  <2>1. SUFFICES ASSUME NEW j \in 1 .. Len(gs)
                 PROVE  /\ r[j].first_pcr = gs[j].first_pcr /\ r[j].pcr_offset \in Int
                        /\ Delta(r[j]) \in Int
                        /\ r[j].pcr_offset = Delta(r[j]) + gs[j].first_pcr
    OBVIOUS
  <2>2. r[j] \in Groups
    BY <1>0, <1>4, ElementOfSeq
  <2>3. r[j].first_pcr \in Nat /\ r[j].pcr_offset \in Int /\ r[j].first_pcr = gs[j].first_pcr
    BY <1>0, <2>2, GroupFields DEF SameObs
  <2> QED BY <2>3 DEF Delta
<1>6. gs[k].pcr_offset = Delta(gs[k]) + gs[k].first_pcr /\ Delta(gs[k]) \in Int
      /\ gs[k].first_pcr \in Nat /\ gs[k].first_offset \in Nat
      /\ Entry(f, gs[k].first_pcr, gs[k].first_offset)
  BY <1>3, ShapedGroup
<1>7. k # 1
  <2>1. k = 1 => gs # <<>>
    BY <1>3, <1>4, EmptySeq
  <2>2. k = 1 => r[k].pcr_offset = gs[k].pcr_offset
    BY <1>0, <2>1
  <2> QED BY <1>3, <1>5, <1>6, <2>2
<1>8. k \in 2 .. Len(gs) /\ k - 1 \in 1 .. Len(gs) /\ k - 1 \in 1 .. Len(gs) - 1
      /\ (k - 1) + 1 = k /\ ~ (k <= k - 1)
  BY <1>3, <1>4, <1>7
<1>9. Clause(gs, c, r, k) /\ After(f, gs[k - 1], gs[k], guess)
  BY <1>0, <1>8 DEF Timed
<1>10. Delta(gs[k - 1]) \in Int
       /\ gs[k - 1].first_pcr \in Nat /\ gs[k - 1].first_offset \in Nat
       /\ Entry(f, gs[k - 1].first_pcr, gs[k - 1].first_offset)
  BY <1>8, ShapedGroup
<1>11. gs[k - 1].first_offset < gs[k].first_offset
  BY <1>8 DEF Firsts
<1>12. Asc(f, gs[k - 1].first_offset)
  BY <1>3, <1>6, <1>10, <1>11, AscDown
<1>13. Delta(r[k - 1]) <= Delta(gs[k - 1])
  BY <1>2, <1>8, <1>12
<1>14. gs[k - 1].first_pcr <= gs[k].first_pcr
  <2>1. gs[k].first_offset \in Int /\ gs[k - 1].first_offset <= gs[k].first_offset
        /\ gs[k].first_offset <= gs[k].first_offset
    BY <1>6, <1>10, <1>11
  <2> QED BY <1>3, <1>6, <1>10, <2>1, AscTwo
<1>15. CASE ~ Est(gs[k])
  <2>1. r[k].pcr_offset = gs[k].pcr_offset
    BY <1>9, <1>15 DEF Clause
  <2> QED BY <1>3, <1>5, <1>6, <2>1
<1>16. CASE Est(gs[k])
  <2>1. r[k].pcr_offset = r[k - 1].pcr_offset + gs[k].first_pcr - gs[k - 1].first_pcr
    BY <1>9, <1>14, <1>16 DEF Clause
  <2>2. Delta(gs[k - 1]) <= Delta(gs[k])
    BY <1>3, <1>9, <1>16 DEF After
  <2>4. /\ Delta(r[k - 1]) \in Int /\ Delta(r[k]) \in Int
        /\ r[k - 1].pcr_offset = Delta(r[k - 1]) + gs[k - 1].first_pcr
        /\ r[k].pcr_offset = Delta(r[k]) + gs[k].first_pcr
    BY <1>3, <1>5, <1>8
  <2>5. gs[k].first_pcr \in Nat /\ gs[k - 1].first_pcr \in Nat
    BY <1>6, <1>10
  <2>3. Delta(r[k]) = Delta(r[k - 1])
    BY <2>1, <2>4, <2>5
  <2> QED BY <1>3, <1>6, <1>10, <1>13, <2>2, <2>3, <2>4
<1> QED BY <1>15, <1>16

\* The pass over the groups keeps the times right.
LEMMA Retimed ==
  ASSUME NEW f, FileOK(f), NEW gs, Shaped(f, gs), Firsts(gs), NEW c, NEW guess,
         Timed(f, gs, guess), NEW r, Done(r, gs, c, Len(gs))
  PROVE  Timed(f, r, guess \/ Wraps(r))
<1>0. /\ r \in Seq(Groups) /\ SameObs(r, gs)
      /\ gs # <<>> => r[1].pcr_offset = gs[1].pcr_offset
      /\ \A k \in 2 .. Len(gs) : Clause(gs, c, r, k)
  <2>1. Len(gs) \in Nat
    BY LenProperties DEF Shaped
  <2>2. \A k \in 2 .. Len(gs) : k <= Len(gs)
    BY <2>1
  <2> QED BY <2>2 DEF Done
<1>1. \A k \in 1 .. Len(gs) : Asc(f, gs[k].first_offset) => Delta(r[k]) <= Delta(gs[k])
  BY NotLater
<1>2. Len(gs) \in Nat /\ Len(r) = Len(gs)
  BY <1>0, LenProperties DEF Shaped, SameObs
<1>3. \A j \in 1 .. Len(gs) :
        /\ r[j].first_pcr = gs[j].first_pcr /\ r[j].first_offset = gs[j].first_offset
        /\ r[j].pcr_offset \in Int
        /\ Delta(r[j]) \in Int /\ r[j].pcr_offset = Delta(r[j]) + gs[j].first_pcr
  <2>1. SUFFICES ASSUME NEW j \in 1 .. Len(gs)
                 PROVE  /\ r[j].first_pcr = gs[j].first_pcr /\ r[j].first_offset = gs[j].first_offset
                        /\ r[j].pcr_offset \in Int /\ Delta(r[j]) \in Int
                        /\ r[j].pcr_offset = Delta(r[j]) + gs[j].first_pcr
    OBVIOUS
  <2>2. r[j] \in Groups
    BY <1>0, <1>2, ElementOfSeq
  <2>3. r[j].first_pcr \in Nat /\ r[j].pcr_offset \in Int /\ r[j].first_pcr = gs[j].first_pcr
        /\ r[j].first_offset = gs[j].first_offset
    BY <1>0, <2>2, GroupFields DEF SameObs
  <2> QED BY <2>3 DEF Delta
<1>4. SUFFICES ASSUME NEW k \in 2 .. Len(gs)
               PROVE  After(f, r[k - 1], r[k], guess \/ Wraps(r))
  BY <1>2, <1>4 DEF Timed
<1>5. k \in 1 .. Len(gs) /\ k - 1 \in 1 .. Len(gs) /\ k - 1 \in 1 .. Len(gs) - 1 /\ (k - 1) + 1 = k
  BY <1>2
<1>6. Clause(gs, c, r, k) /\ After(f, gs[k - 1], gs[k], guess)
  BY <1>0 DEF Timed
<1> DEFINE a == gs[k - 1]
           b == gs[k]
           s == r[k - 1]
           t == r[k]
<1>7. /\ a.first_pcr \in Nat /\ a.first_offset \in Nat /\ Delta(a) \in Int
      /\ Entry(f, a.first_pcr, a.first_offset)
      /\ b.first_pcr \in Nat /\ b.first_offset \in Nat /\ Delta(b) \in Int
      /\ b.pcr_offset = Delta(b) + b.first_pcr
      /\ Entry(f, b.first_pcr, b.first_offset)
  BY <1>5, ShapedGroup
<1>8. a.first_offset < b.first_offset
  BY <1>5 DEF Firsts
<1>9. /\ s.first_offset = a.first_offset /\ t.first_offset = b.first_offset
      /\ Delta(s) \in Int /\ Delta(t) \in Int
      /\ s.pcr_offset = Delta(s) + a.first_pcr /\ t.pcr_offset = Delta(t) + b.first_pcr
  BY <1>3, <1>5
<1>10. Asc(f, a.first_offset) => Delta(s) <= Delta(a)
  BY <1>1, <1>5
<1>11. /\ Asc(f, b.first_offset) => Asc(f, a.first_offset)
       /\ Asc(f, b.first_offset - 1) => Asc(f, a.first_offset)
  <2>1. b.first_offset \in Int /\ b.first_offset - 1 \in Int /\ a.first_offset \in Int
        /\ a.first_offset <= b.first_offset /\ a.first_offset <= b.first_offset - 1
    BY <1>7, <1>8
  <2> HIDE DEF a, b
  <2> QED BY <2>1, AscDown
<1>12. Asc(f, b.first_offset) => a.first_pcr <= b.first_pcr
  <2>1. b.first_offset \in Int /\ a.first_offset <= b.first_offset /\ b.first_offset <= b.first_offset
    BY <1>7, <1>8
  <2> HIDE DEF a, b
  <2> QED BY <1>7, <2>1, AscTwo
<1>13. Clause(gs, c, r, k) => 
         /\ ~ Est(b) => t.pcr_offset = b.pcr_offset /\ ~ Est(t)
         /\ Est(b) /\ a.first_pcr <= b.first_pcr =>
              Est(t) /\ t.pcr_offset = s.pcr_offset + b.first_pcr - a.first_pcr
         /\ Est(b) /\ b.first_pcr < a.first_pcr => "wrapover" \in s.flags \/ Est(t)
  BY DEF Clause
<1>14. "wrapover" \in s.flags => Wraps(r)
  BY <1>2, <1>5 DEF Wraps
<1>15. \A j \in 1 .. Len(f) : f[j].pcr \in Nat
  BY DEF FileOK
<1> HIDE DEF a, b, s, t
<1>16. After(f, a, b, guess)
  BY <1>6 DEF a, b
<1>17. CASE ~ Est(b)
  <2>1. t.pcr_offset = b.pcr_offset /\ ~ Est(t)
    BY <1>6, <1>13, <1>17
  <2>2. ASSUME Asc(f, t.first_offset), NEW j \in 1 .. Len(f), s.first_offset <= f[j].offset,
               f[j].offset < t.first_offset
        PROVE  Delta(s) + f[j].pcr < t.pcr_offset
    <3>1. Delta(a) + f[j].pcr < b.pcr_offset
      BY <1>9, <1>16, <1>17, <2>2 DEF After
    <3>2. Delta(s) <= Delta(a)
      BY <1>9, <1>10, <1>11, <2>2
    <3>3. f[j].pcr \in Nat
      BY <1>15
    <3>4. t.pcr_offset = b.pcr_offset /\ b.pcr_offset \in Int /\ Delta(s) \in Int /\ Delta(a) \in Int
      BY <1>7, <1>9, <2>1
    <3> QED BY <3>1, <3>2, <3>3, <3>4
  <2>3. ASSUME ~ (guess \/ Wraps(r)), Asc(f, t.first_offset - 1), NEW j \in 1 .. Len(f),
               s.first_offset <= f[j].offset, f[j].offset < t.first_offset
        PROVE  Delta(s) + f[j].pcr <= t.pcr_offset
    <3>1. Delta(a) + f[j].pcr <= b.pcr_offset
      BY <1>9, <1>16, <1>17, <2>3 DEF After
    <3>2. Delta(s) <= Delta(a)
      BY <1>9, <1>10, <1>11, <2>3
    <3>3. f[j].pcr \in Nat
      BY <1>15
    <3>4. t.pcr_offset = b.pcr_offset /\ b.pcr_offset \in Int /\ Delta(s) \in Int /\ Delta(a) \in Int
      BY <1>7, <1>9, <2>1
    <3> QED BY <3>1, <3>2, <3>3, <3>4
  <2>4. After(f, s, t, guess \/ Wraps(r))
    BY <2>1, <2>2, <2>3, Zenon DEF After
  <2> QED BY <2>4 DEF s, t
<1>18. CASE Est(b) /\ a.first_pcr <= b.first_pcr
  <2>4. Est(t) /\ t.pcr_offset = s.pcr_offset + b.first_pcr - a.first_pcr
    BY <1>6, <1>13, <1>18, Zenon
  <2>1. Est(t) /\ Delta(s) = Delta(t)
    BY SMTT(30), <1>7, <1>9, <2>4
  <2>2. Delta(s) <= Delta(t)
    BY <1>9, <2>1
  <2>3. After(f, s, t, guess \/ Wraps(r))
    BY <2>1, <2>2, Zenon DEF After
  <2> QED BY <2>3 DEF s, t
<1>19. CASE Est(b) /\ ~ (a.first_pcr <= b.first_pcr)
  <2>1. ~ Asc(f, t.first_offset)
    BY <1>9, <1>12, <1>19
  <2>2. Wraps(r) \/ Est(t)
    BY <1>6, <1>7, <1>13, <1>14, <1>19
  <2>3. After(f, s, t, guess \/ Wraps(r))
    BY <2>1, <2>2, Zenon DEF After
  <2> QED BY <2>3 DEF s, t
<1> QED BY <1>17, <1>18, <1>19

\* A group put in keeps the times right if it comes no later than the one before it.
LEMMA TimedInserted ==
  ASSUME NEW f, FileOK(f), NEW gs, Shaped(f, gs), Firsts(gs), NEW guess, Timed(f, gs, guess),
         NEW i \in 1 .. Len(gs), NEW g \in Groups, gs[i].first_offset < g.first_offset,
         i < Len(gs) => g.first_offset < gs[i + 1].first_offset,
         After(f, gs[i], g, guess), Asc(f, g.first_offset) => Delta(g) <= Delta(gs[i])
  PROVE  Timed(f, InsertAfter(gs, i, g), guess)
<1> DEFINE r == InsertAfter(gs, i, g)
           n == Len(gs)
<1>1. gs \in Seq(Groups) /\ n \in Nat /\ i \in 0 .. n /\ i \in 1 .. n
  BY LenProperties DEF Shaped
<1>2. /\ r \in Seq(Groups) /\ Len(r) = n + 1 /\ r[i + 1] = g
      /\ \A k \in 1 .. i : r[k] = gs[k]
      /\ \A k \in i + 2 .. n + 1 : r[k] = gs[k - 1]
  BY <1>1, InsertAfterIs
<1> HIDE DEF r
<1>3. SUFFICES ASSUME NEW k \in 2 .. n + 1 PROVE After(f, r[k - 1], r[k], guess)
  BY <1>2 DEF Timed, r
<1>4. CASE k <= i
  <2>1. r[k - 1] = gs[k - 1] /\ r[k] = gs[k] /\ k \in 2 .. n
    <3>1. k \in 1 .. i /\ k - 1 \in 1 .. i /\ k \in 2 .. n
      BY <1>1, <1>4
    <3> QED BY <1>2, <3>1
  <2> QED BY <2>1 DEF Timed
<1>5. CASE k = i + 1
  <2>1. r[k - 1] = gs[i] /\ r[k] = g
    <3>1. k - 1 = i /\ i \in 1 .. i
      BY <1>1, <1>5
    <3> QED BY <1>2, <1>5, <3>1
  <2> QED BY <2>1
<1>6. CASE k = i + 2
  <2>1. k - 1 = i + 1 /\ k \in i + 2 .. n + 1 /\ i < n /\ i + 1 \in 2 .. n /\ i + 1 \in 1 .. n
        /\ (i + 1) - 1 = i
    BY <1>1, <1>6
  <2>2. r[k - 1] = g /\ r[k] = gs[i + 1]
    BY <1>2, <2>1
  <2> DEFINE a == gs[i]
             b == gs[i + 1]
  <2>3. After(f, a, b, guess)
    BY <2>1 DEF Timed
  <2>4. /\ a.first_offset \in Nat /\ Delta(a) \in Int
        /\ b.first_offset \in Nat /\ Delta(b) \in Int /\ b.pcr_offset \in Int
    BY <1>1, <2>1, ShapedGroup
  <2>5. g.first_offset \in Nat /\ Delta(g) \in Int
    BY GroupFields DEF Delta
  <2>6. a.first_offset < g.first_offset /\ g.first_offset < b.first_offset
    BY <2>1
  <2> HIDE DEF a, b
  <2>7. /\ Asc(f, b.first_offset) => Delta(g) <= Delta(a)
        /\ Asc(f, b.first_offset - 1) => Delta(g) <= Delta(a)
    <3>1. b.first_offset \in Int /\ b.first_offset - 1 \in Int /\ g.first_offset \in Int
          /\ g.first_offset <= b.first_offset /\ g.first_offset <= b.first_offset - 1
      BY <2>4, <2>5, <2>6
    <3>2. /\ Asc(f, b.first_offset) => Asc(f, g.first_offset)
          /\ Asc(f, b.first_offset - 1) => Asc(f, g.first_offset)
      BY <3>1, AscDown
    <3> QED BY <3>2 DEF a
  <2>8. ASSUME ~ Est(b), Asc(f, b.first_offset), NEW j \in 1 .. Len(f),
               g.first_offset <= f[j].offset, f[j].offset < b.first_offset
        PROVE  Delta(g) + f[j].pcr < b.pcr_offset
    <3>1. f[j].pcr \in Nat /\ f[j].offset \in Nat
      BY InFile
    <3>2. a.first_offset <= f[j].offset
      <4>1. g.first_offset <= f[j].offset
        BY <2>8
      <4>2. /\ a.first_offset \in Nat /\ g.first_offset \in Nat /\ f[j].offset \in Nat
            /\ a.first_offset < g.first_offset /\ g.first_offset <= f[j].offset
        BY <2>4, <2>5, <2>6, <3>1, <4>1
      <4> QED BY <4>2
    <3>3. Delta(a) + f[j].pcr < b.pcr_offset
      BY <2>3, <2>8, <3>2 DEF After
    <3>4. Delta(g) <= Delta(a)
      BY <2>7, <2>8
    <3> QED BY SMTT(30), <2>4, <2>5, <3>1, <3>3, <3>4
  <2>9. ASSUME ~ Est(b), ~ guess, Asc(f, b.first_offset - 1), NEW j \in 1 .. Len(f),
               g.first_offset <= f[j].offset, f[j].offset < b.first_offset
        PROVE  Delta(g) + f[j].pcr <= b.pcr_offset
    <3>1. f[j].pcr \in Nat /\ f[j].offset \in Nat
      BY InFile
    <3>2. a.first_offset <= f[j].offset
      <4>1. g.first_offset <= f[j].offset
        BY <2>9
      <4>2. /\ a.first_offset \in Nat /\ g.first_offset \in Nat /\ f[j].offset \in Nat
            /\ a.first_offset < g.first_offset /\ g.first_offset <= f[j].offset
        BY <2>4, <2>5, <2>6, <3>1, <4>1
      <4> QED BY <4>2
    <3>3. Delta(a) + f[j].pcr <= b.pcr_offset
      BY <2>3, <2>9, <3>2 DEF After
    <3>4. Delta(g) <= Delta(a)
      BY <2>7, <2>9
    <3>5. Delta(g) \in Int /\ Delta(a) \in Int /\ b.pcr_offset \in Int /\ f[j].pcr \in Nat
      BY <2>4, <2>5, <3>1
    <3> QED BY SMTT(30), <3>3, <3>4, <3>5
  <2>10. Est(b) /\ Asc(f, b.first_offset) => Delta(g) <= Delta(b)
    <3>1. Est(b) /\ Asc(f, b.first_offset) => Delta(a) <= Delta(b)
      BY <2>3 DEF After
    <3> QED BY <2>4, <2>5, <2>7, <3>1
  <2>11. After(f, g, b, guess)
    BY <2>8, <2>9, <2>10, Zenon DEF After
  <2> QED BY <2>2, <2>11 DEF b
<1>7. CASE k > i + 2
  <2>1. k - 1 \in 2 .. n /\ k \in i + 2 .. n + 1 /\ k - 1 \in i + 2 .. n + 1
    BY <1>1, <1>7
  <2>2. r[k - 1] = gs[(k - 1) - 1] /\ r[k] = gs[k - 1]
    BY <1>2, <2>1
  <2> QED BY <2>1, <2>2 DEF Timed
<1>8. k \in Nat /\ (k <= i \/ k = i + 1 \/ k = i + 2 \/ k > i + 2)
  BY <1>1
<1> QED BY <1>4, <1>5, <1>6, <1>7, <1>8
-----------------------------------------------------------------------------
(* Groups and windows *)

Spaced(gs) == \A i \in 1 .. Len(gs) - 1 : EndOffset(gs[i]) < gs[i + 1].first_offset

LEMMA EndsIs ==
  ASSUME NEW gs, NEW c, NEW i
  PROVE  Ends(gs, c, i) = gs[i].first_offset
                            + (IF c.group = i THEN Last(c.pending) ELSE Last(gs[i].values)).offset
BY DEF Ends, EndOf

LEMMA SpacedFirsts ==
  ASSUME NEW gs \in Seq(Groups), Spaced(gs)
  PROVE  Firsts(gs)
<1>1. SUFFICES ASSUME NEW i \in 1 .. Len(gs) - 1
               PROVE  gs[i].first_offset < gs[i + 1].first_offset
  BY DEF Firsts
<1>2. Len(gs) \in Nat
  BY LenProperties
<1>3. gs[i] \in Groups /\ gs[i + 1] \in Groups
  <2>1. i \in 1 .. Len(gs) /\ i + 1 \in 1 .. Len(gs)
    BY <1>2
  <2> QED BY <2>1, ElementOfSeq
<1>4. /\ gs[i].first_offset \in Nat /\ gs[i + 1].first_offset \in Nat
      /\ Last(gs[i].values).offset \in Nat
  BY <1>3, GroupFields
<1>5. gs[i].first_offset + Last(gs[i].values).offset < gs[i + 1].first_offset
  BY DEF Spaced, EndOffset
<1> QED BY <1>4, <1>5

LEMMA WindowIs ==
  ASSUME NEW f, NEW gs, NEW c, Windows(f, gs, c), c.group # 0
  PROVE  /\ c.group \in 1 .. Len(gs) /\ c.pending \in Seq(Obs) /\ c.pending # <<>>
         /\ Last(c.pending) \in Obs /\ Last(c.pending).pcr \in Nat /\ Last(c.pending).offset \in Nat
         /\ Seen(f, gs[c.group], Last(c.pending))
         /\ Last(gs[c.group].values).offset <= Last(c.pending).offset
<1>1. c.pending \in Seq(Obs) /\ c.pending # <<>> /\ c.group \in 1 .. Len(gs)
  BY DEF Windows, Currents
<1>2. Last(c.pending) \in Obs /\ Len(c.pending) \in Nat \ {0} /\ Last(c.pending) = c.pending[Len(c.pending)]
  BY <1>1, LastIs
<1>3. Len(c.pending) \in 1 .. Len(c.pending)
  BY <1>2
<1>4. /\ Seen(f, gs[c.group], c.pending[Len(c.pending)])
      /\ Last(gs[c.group].values).offset <= c.pending[Len(c.pending)].offset
  BY <1>3 DEF Windows
<1> QED BY <1>1, <1>2, <1>4 DEF Obs

LEMMA TypedIs ==
  ASSUME NEW f, NEW gs, NEW c, Windows(f, gs, c)
  PROVE  Typed(c)
<1>1. c.group \in Nat
  BY DEF Windows, Currents
<1> QED BY <1>1, WindowIs DEF Typed

LEMMA OrderedSpaced ==
  ASSUME NEW f, NEW gs, FileOK(f), Shaped(f, gs), NEW c, Windows(f, gs, c), Ordered(gs, c)
  PROVE  Spaced(gs)
<1>1. SUFFICES ASSUME NEW i \in 1 .. Len(gs) - 1
               PROVE  EndOffset(gs[i]) < gs[i + 1].first_offset
  BY DEF Spaced
<1>2. Len(gs) \in Nat /\ i \in 1 .. Len(gs) /\ i + 1 \in 1 .. Len(gs)
  <2>1. Len(gs) \in Nat
    BY LenProperties DEF Shaped
  <2> QED BY <2>1
<1>3. gs[i] \in Groups /\ gs[i + 1] \in Groups
  BY <1>2, ShapedGroup
<1>4. /\ gs[i].first_offset \in Nat /\ gs[i + 1].first_offset \in Nat
      /\ Last(gs[i].values).offset \in Nat
  BY <1>3, GroupFields
<1>5. Ends(gs, c, i) < gs[i + 1].first_offset
  BY DEF Ordered
<1>6. CASE c.group = i
  <2>1. c.group # 0
    BY <1>2, <1>6
  <2>2. /\ Last(gs[i].values).offset <= Last(c.pending).offset
        /\ Last(c.pending).offset \in Nat
    BY <1>6, <2>1, WindowIs
  <2>3. Ends(gs, c, i) = gs[i].first_offset + Last(c.pending).offset
    BY <1>6, EndsIs
  <2> QED BY <1>4, <1>5, <2>2, <2>3 DEF EndOffset
<1>7. CASE c.group # i
  <2>1. Ends(gs, c, i) = gs[i].first_offset + Last(gs[i].values).offset
    BY <1>7, EndsIs
  <2> QED BY <1>5, <2>1 DEF EndOffset
<1> QED BY <1>6, <1>7

\* Where a group is taken up, or none, groups that do not overlap do not overlap.
LEMMA SpacedOrdered ==
  ASSUME NEW gs \in Seq(Groups), Spaced(gs), NEW i \in 1 .. Len(gs)
  PROVE  Ordered(gs, Use(gs, i)) /\ Ordered(gs, NoCurrent)
<1>1. \A k : Ends(gs, Use(gs, i), k) = EndOffset(gs[k])
  <2>1. SUFFICES ASSUME NEW k PROVE Ends(gs, Use(gs, i), k) = EndOffset(gs[k])
    OBVIOUS
  <2>2. Use(gs, i).group = i /\ Last(Use(gs, i).pending) = Last(gs[i].values)
    BY DEF Use, Last
  <2>3. Ends(gs, Use(gs, i), k) = gs[k].first_offset
           + (IF i = k THEN Last(gs[i].values) ELSE Last(gs[k].values)).offset
    BY <2>2, EndsIs
  <2> QED BY <2>3 DEF EndOffset
<1>2. \A k \in 1 .. Len(gs) : Ends(gs, NoCurrent, k) = EndOffset(gs[k])
  <2>1. SUFFICES ASSUME NEW k \in 1 .. Len(gs) PROVE Ends(gs, NoCurrent, k) = EndOffset(gs[k])
    OBVIOUS
  <2>2. NoCurrent.group # k
    BY DEF NoCurrent
  <2> QED BY <2>2, EndsIs DEF EndOffset
<1>3. \A k \in 1 .. Len(gs) - 1 : k \in 1 .. Len(gs)
  <2>1. Len(gs) \in Nat
    BY LenProperties
  <2> QED BY <2>1
<1> QED BY <1>1, <1>2, <1>3 DEF Spaced, Ordered

LEMMA UseIs ==
  ASSUME NEW f, FileOK(f), NEW gs, Shaped(f, gs), NEW i \in 1 .. Len(gs)
  PROVE  /\ Windows(f, gs, Use(gs, i)) /\ Use(gs, i).group = i /\ i # 0
         /\ Last(Use(gs, i).pending) = Last(gs[i].values)
         /\ Ends(gs, Use(gs, i), i) = EndOffset(gs[i])
<1> DEFINE v == Last(gs[i].values)
<1>1. gs[i] \in Groups /\ Seen(f, gs[i], v) /\ Len(gs) \in Nat
  BY ShapedGroup, LenProperties DEF Shaped
<1>2. v \in Obs /\ v.offset \in Nat
  BY <1>1, GroupFields
<1> HIDE DEF v
<1>3. Use(gs, i) = [group |-> i, pending |-> <<v>>, prev |-> v]
  BY DEF Use, v
<1>4. <<v>> \in Seq(Obs) /\ <<v>> # <<>> /\ Len(<<v>>) = 1 /\ <<v>>[1] = v /\ Last(<<v>>) = v
  BY <1>2 DEF Last
<1>5. Use(gs, i) \in Currents /\ Use(gs, i).group = i /\ Use(gs, i).pending = <<v>>
  BY <1>1, <1>2, <1>3, <1>4 DEF Currents
<1>6. ASSUME NEW k \in 1 .. Len(<<v>>)
      PROVE  /\ Seen(f, gs[i], <<v>>[k]) /\ Last(gs[i].values).offset <= <<v>>[k].offset
             /\ <<v>>[k].offset <= Last(<<v>>).offset
  <2>1. k = 1
    BY <1>4
  <2> QED BY <1>1, <1>2, <1>4, <2>1 DEF v
<1>7. Windows(f, gs, Use(gs, i))
  BY <1>4, <1>5, <1>6 DEF Windows
<1>8. i # 0
  BY <1>1
<1>9. Ends(gs, Use(gs, i), i) = EndOffset(gs[i])
  <2>1. Ends(gs, Use(gs, i), i) = gs[i].first_offset + v.offset
    BY <1>4, <1>5, EndsIs
  <2> QED BY <2>1 DEF EndOffset, v
<1> QED BY <1>4, <1>5, <1>7, <1>8, <1>9 DEF v

LEMMA AppendedIs ==
  ASSUME NEW gs \in Seq(Groups), NEW i \in 1 .. Len(gs), NEW v \in Obs
  PROVE  /\ Appended(gs, i, v) \in Seq(Groups) /\ Same(Appended(gs, i, v), gs)
         /\ \A k \in 1 .. Len(gs) : k # i => Appended(gs, i, v)[k] = gs[k]
         /\ Last(Appended(gs, i, v)[i].values) = v
         /\ Appended(gs, i, v)[i].flags = gs[i].flags
<1>1. Len(gs) \in Nat /\ DOMAIN gs = 1 .. Len(gs) /\ gs[i] \in Groups
  BY ElementOfSeq, LenProperties
<1>2. gs[i].values \in Seq(Obs) /\ gs[i].values # <<>>
  BY <1>1, GroupFields
<1>3. CASE Last(gs[i].values) = v
  <2>1. Appended(gs, i, v) = gs
    BY <1>3 DEF Appended
  <2> QED BY <1>3, <2>1 DEF Same
<1>4. CASE Last(gs[i].values) # v
  <2> DEFINE a == Append(gs[i].values, v)
             g == [gs[i] EXCEPT !.values = a]
             r == [gs EXCEPT ![i] = g]
  <2>1. Appended(gs, i, v) = r
    BY <1>4 DEF Appended
  <2>2. a \in Seq(Obs) /\ a # <<>> /\ Last(a) = v
    BY <1>2, LastOfAppend
  <2> HIDE DEF a
  <2>3. /\ g \in Groups /\ g.values = a /\ g.flags = gs[i].flags
        /\ g.first_pcr = gs[i].first_pcr /\ g.first_offset = gs[i].first_offset
        /\ g.pcr_offset = gs[i].pcr_offset
    BY <1>1, <2>2 DEF Groups
  <2> HIDE DEF g
  <2>4. r \in Seq(Groups) /\ Len(r) = Len(gs) /\ r[i] = g
        /\ \A k \in 1 .. Len(gs) : k # i => r[k] = gs[k]
    BY <1>1, <2>3
  <2> HIDE DEF r
  <2>5. Same(r, gs)
    <3>1. SUFFICES ASSUME NEW k \in 1 .. Len(gs)
                   PROVE  /\ r[k].first_pcr = gs[k].first_pcr
                          /\ r[k].first_offset = gs[k].first_offset
                          /\ r[k].pcr_offset = gs[k].pcr_offset /\ (Est(r[k]) <=> Est(gs[k]))
      BY <2>4 DEF Same
    <3>2. CASE k = i
      BY <2>3, <2>4, <3>2 DEF Est
    <3>3. CASE k # i
      BY <2>4, <3>3 DEF Est
    <3> QED BY <3>2, <3>3
  <2> QED BY <2>1, <2>2, <2>3, <2>4, <2>5
<1> QED BY <1>3, <1>4

\* What is known of groups is known of those with another last observation in one.
LEMMA ShapedSame ==
  ASSUME NEW f, NEW gs, Shaped(f, gs), NEW r \in Seq(Groups), Same(r, gs),
         \A k \in 1 .. Len(gs) : Seen(f, gs[k], Last(r[k].values))
  PROVE  Shaped(f, r)
<1>1. SUFFICES ASSUME NEW k \in 1 .. Len(gs)
               PROVE  Entry(f, r[k].first_pcr, r[k].first_offset) /\ Seen(f, r[k], Last(r[k].values))
  BY DEF Shaped, Same
<1>2. r[k].first_pcr = gs[k].first_pcr /\ r[k].first_offset = gs[k].first_offset
  BY DEF Same
<1>3. Entry(f, r[k].first_pcr, r[k].first_offset)
  BY <1>2 DEF Shaped
<1>4. Seen(f, gs[k], Last(r[k].values))
  OBVIOUS
<1> QED BY <1>2, <1>3, <1>4 DEF Seen

LEMMA ClosedIs ==
  ASSUME NEW f, FileOK(f), NEW gs, Shaped(f, gs), NEW c, Windows(f, gs, c), Ordered(gs, c)
  PROVE  /\ Shaped(f, Closed(gs, c)) /\ Same(Closed(gs, c), gs) /\ Spaced(Closed(gs, c))
         /\ \A k \in 1 .. Len(gs) : EndOffset(Closed(gs, c)[k]) = Ends(gs, c, k)
         /\ c.group # 0 => Last(Closed(gs, c)[c.group].values) = Last(c.pending)
<1> DEFINE r == Closed(gs, c)
<1>1. gs \in Seq(Groups) /\ Len(gs) \in Nat
  BY LenProperties DEF Shaped
<1>2. CASE c.group = 0
  <2>1. r = gs
    BY <1>2 DEF Closed
  <2>2. Same(gs, gs)
    BY DEF Same
  <2>3. Spaced(gs)
    BY OrderedSpaced
  <2>4. \A k \in 1 .. Len(gs) : EndOffset(gs[k]) = Ends(gs, c, k)
    <3>1. \A k \in 1 .. Len(gs) : c.group # k
      BY <1>2
    <3> QED BY <3>1, EndsIs DEF EndOffset
  <2> QED BY <1>2, <2>1, <2>2, <2>3, <2>4
<1>3. CASE c.group # 0
  <2> DEFINE i == c.group
             v == Last(c.pending)
  <2>1. /\ i \in 1 .. Len(gs) /\ v \in Obs /\ Seen(f, gs[i], v)
    BY <1>3, WindowIs
  <2>2. r = Appended(gs, i, v)
    BY <1>3 DEF Closed
  <2> HIDE DEF v
  <2>3. /\ r \in Seq(Groups) /\ Same(r, gs) /\ Last(r[i].values) = v
        /\ \A k \in 1 .. Len(gs) : k # i => r[k] = gs[k]
    BY <1>1, <2>1, <2>2, AppendedIs
  <2> HIDE DEF r
  <2>4. \A k \in 1 .. Len(gs) : Seen(f, gs[k], Last(r[k].values))
    <3>1. SUFFICES ASSUME NEW k \in 1 .. Len(gs) PROVE Seen(f, gs[k], Last(r[k].values))
      OBVIOUS
    <3>2. CASE k = i
      BY <2>1, <2>3, <3>2
    <3>3. CASE k # i
      <4>1. r[k] = gs[k]
        BY <2>3, <3>3
      <4> QED BY <4>1 DEF Shaped
    <3> QED BY <3>2, <3>3
  <2>5. Shaped(f, r)
    BY <2>3, <2>4, ShapedSame
  <2>6. \A k \in 1 .. Len(gs) : EndOffset(r[k]) = Ends(gs, c, k)
    <3>1. SUFFICES ASSUME NEW k \in 1 .. Len(gs) PROVE EndOffset(r[k]) = Ends(gs, c, k)
      OBVIOUS
    <3>2. r[k].first_offset = gs[k].first_offset
      BY <2>3 DEF Same
    <3>3. CASE k = i
      <4>1. Ends(gs, c, k) = gs[k].first_offset + v.offset
        BY <3>3, EndsIs DEF v
      <4> QED BY <2>3, <3>2, <3>3, <4>1 DEF EndOffset
    <3>4. CASE k # i
      <4>1. Ends(gs, c, k) = gs[k].first_offset + Last(gs[k].values).offset
        BY <3>4, EndsIs
      <4>2. r[k] = gs[k]
        BY <2>3, <3>4
      <4> QED BY <4>1, <4>2 DEF EndOffset
    <3> QED BY <3>3, <3>4
  <2>7. Spaced(r)
    <3>1. Len(r) = Len(gs)
      BY <2>3 DEF Same
    <3>2. SUFFICES ASSUME NEW k \in 1 .. Len(gs) - 1
                   PROVE  EndOffset(r[k]) < r[k + 1].first_offset
      BY <3>1 DEF Spaced
    <3>3. k \in 1 .. Len(gs) /\ k + 1 \in 1 .. Len(gs)
      BY <1>1
    <3>4. r[k + 1].first_offset = gs[k + 1].first_offset
      BY <2>3, <3>3 DEF Same
    <3>5. Ends(gs, c, k) < gs[k + 1].first_offset
      BY DEF Ordered
    <3> QED BY <2>6, <3>3, <3>4, <3>5
  <2> QED BY <2>3, <2>5, <2>6, <2>7 DEF r, v
<1> QED BY <1>2, <1>3

IsNew(f, g, x, t, F) ==
  /\ g \in Groups /\ g.first_pcr = x.pcr /\ g.first_offset = x.offset
  /\ g.pcr_offset = t /\ g.flags = F /\ Last(g.values) = Zero /\ EndOffset(g) = x.offset
  /\ Entry(f, x.pcr, x.offset) /\ Seen(f, g, Zero)

LEMMA NewGroupIs ==
  ASSUME NEW f, FileOK(f), NEW p \in 1 .. Len(f), NEW t \in Int, NEW F \in SUBSET Flags
  PROVE  IsNew(f, NewGroup(f[p], t, F), f[p], t, F)
<1>1. f[p].pcr \in Nat /\ f[p].offset \in Nat
  BY InFile
<1>2. Zero \in Obs /\ Zero.pcr = 0 /\ Zero.offset = 0
  BY DEF Zero, Obs
<1>3. <<Zero>> \in Seq(Obs) /\ <<Zero>> # <<>> /\ Last(<<Zero>>) = Zero
  BY <1>2 DEF Last
<1> DEFINE g == NewGroup(f[p], t, F)
<1>4. /\ g \in Groups /\ g.first_pcr = f[p].pcr /\ g.first_offset = f[p].offset
      /\ g.pcr_offset = t /\ g.flags = F /\ g.values = <<Zero>>
  BY <1>1, <1>3 DEF NewGroup, Groups
<1> HIDE DEF g
<1>5. Last(g.values) = Zero
  BY <1>3, <1>4
<1>6. EndOffset(g) = f[p].offset
  BY <1>1, <1>2, <1>4, <1>5 DEF EndOffset
<1>7. Entry(f, f[p].pcr, f[p].offset)
  BY DEF Entry
<1>8. Seen(f, g, Zero)
  <2>1. g.first_pcr + Zero.pcr = f[p].pcr /\ g.first_offset + Zero.offset = f[p].offset
    BY <1>1, <1>2, <1>4
  <2>2. Zero.pcr <= Half * Zero.offset
    BY <1>2, Numbers
  <2> QED BY <1>7, <2>1, <2>2 DEF Seen
<1>9. IsNew(f, g, f[p], t, F)
  BY <1>4, <1>5, <1>6, <1>7, <1>8 DEF IsNew
<1> QED BY <1>9 DEF g

\* A group put in between two others.
LEMMA ShapedInserted ==
  ASSUME NEW f, FileOK(f), NEW gs, Shaped(f, gs), Spaced(gs), NEW i \in 0 .. Len(gs),
         NEW g \in Groups, Entry(f, g.first_pcr, g.first_offset), Seen(f, g, Last(g.values)),
         i > 0 => EndOffset(gs[i]) < g.first_offset,
         i < Len(gs) => EndOffset(g) < gs[i + 1].first_offset
  PROVE  Shaped(f, InsertAfter(gs, i, g)) /\ Spaced(InsertAfter(gs, i, g))
<1> DEFINE r == InsertAfter(gs, i, g)
           n == Len(gs)
<1>1. gs \in Seq(Groups) /\ n \in Nat /\ i \in 0 .. n
  BY LenProperties DEF Shaped
<1>2. /\ r \in Seq(Groups) /\ Len(r) = n + 1 /\ r[i + 1] = g
      /\ \A k \in 1 .. i : r[k] = gs[k]
      /\ \A k \in i + 2 .. n + 1 : r[k] = gs[k - 1]
  BY <1>1, InsertAfterIs
<1> HIDE DEF r
<1>3. ASSUME NEW k \in 1 .. n + 1
      PROVE  Entry(f, r[k].first_pcr, r[k].first_offset) /\ Seen(f, r[k], Last(r[k].values))
  <2>1. CASE k <= i
    <3>1. k \in 1 .. i /\ k \in 1 .. n
      BY <1>1, <2>1
    <3> QED BY <1>2, <3>1, ShapedGroup
  <2>2. CASE k = i + 1
    BY <1>2, <2>2
  <2>3. CASE k >= i + 2
    <3>1. k \in i + 2 .. n + 1 /\ k - 1 \in 1 .. n
      BY <1>1, <2>3
    <3>2. r[k] = gs[k - 1]
      BY <1>2, <3>1
    <3> QED BY <3>1, <3>2, ShapedGroup
  <2>4. k <= i \/ k = i + 1 \/ k >= i + 2
    BY <1>1
  <2> QED BY <2>1, <2>2, <2>3, <2>4
<1>4. ASSUME NEW k \in 1 .. n PROVE EndOffset(r[k]) < r[k + 1].first_offset
  <2>1. CASE k < i
    <3>1. k \in 1 .. i /\ k + 1 \in 1 .. i /\ k \in 1 .. n - 1
      BY <1>1, <2>1
    <3> QED BY <1>2, <3>1 DEF Spaced
  <2>2. CASE k = i
    <3>1. k \in 1 .. i /\ i > 0
      BY <1>1, <2>2
    <3> QED BY <1>2, <2>2, <3>1
  <2>3. CASE k = i + 1
    <3>1. k + 1 \in i + 2 .. n + 1 /\ (k + 1) - 1 = i + 1 /\ i < n
      BY <1>1, <2>3
    <3>2. r[k + 1] = gs[i + 1]
      BY <1>2, <3>1
    <3> QED BY <1>2, <2>3, <3>1, <3>2
  <2>4. CASE k >= i + 2
    <3>1. /\ k \in i + 2 .. n + 1 /\ k + 1 \in i + 2 .. n + 1 /\ k - 1 \in 1 .. n - 1
          /\ (k + 1) - 1 = (k - 1) + 1
      BY <1>1, <2>4
    <3>2. r[k] = gs[k - 1] /\ r[k + 1] = gs[(k + 1) - 1]
      BY <1>2, <3>1
    <3> QED BY <3>1, <3>2 DEF Spaced
  <2>5. k < i \/ k = i \/ k = i + 1 \/ k >= i + 2
    BY <1>1
  <2> QED BY <2>1, <2>2, <2>3, <2>4, <2>5
<1>5. Len(r) - 1 = n
  BY <1>1, <1>2
<1>6. Shaped(f, r)
  BY <1>2, <1>3 DEF Shaped
<1>7. Spaced(r)
  BY <1>4, <1>5 DEF Spaced
<1> QED BY <1>6, <1>7 DEF r
-----------------------------------------------------------------------------
(* An observation *)

LEMMA TimedGuess ==
  ASSUME NEW f, NEW gs, NEW a, NEW r, Timed(f, gs, a)
  PROVE  Timed(f, gs, a \/ Wraps(r))
<1>1. SUFFICES ASSUME NEW k \in 2 .. Len(gs) PROVE After(f, gs[k - 1], gs[k], a \/ Wraps(r))
  BY DEF Timed
<1>2. After(f, gs[k - 1], gs[k], a)
  BY DEF Timed
<1> QED BY <1>2, Zenon DEF After

LEMMA NextPcr ==
  ASSUME NEW f, FileOK(f), NEW p \in Nat, p < Len(f)
  PROVE  /\ p + 1 \in 1 .. Len(f) /\ f[p + 1].pcr \in Nat /\ f[p + 1].offset \in Nat
         /\ f[p + 1].pcr < PcrMax
         /\ \A q \in 1 .. Len(f) : q <= p => f[q].offset < f[p + 1].offset
         /\ p + 1 < Len(f) => f[p + 1].offset < f[(p + 1) + 1].offset
<1>1. Len(f) \in Nat /\ p + 1 \in 1 .. Len(f)
  BY DEF FileOK
<1>2. ASSUME NEW q \in 1 .. Len(f), q <= p PROVE f[q].offset < f[p + 1].offset
  <2>1. q < p + 1
    BY <1>1, <1>2
  <2> QED BY <1>1, <2>1, InFile
<1>3. ASSUME p + 1 < Len(f) PROVE f[p + 1].offset < f[(p + 1) + 1].offset
  <2>1. p + 1 < (p + 1) + 1 /\ (p + 1) + 1 \in 1 .. Len(f)
    BY <1>1, <1>3
  <2> QED BY <1>1, <2>1, InFile
<1> QED BY <1>1, <1>2, <1>3, InFile

\* The first group stays the first one, and so does its time.
LEMMA FrontedNext ==
  ASSUME NEW f, FileOK(f), NEW gs, gs # <<>>, Shaped(f, gs), NEW p \in Nat, p < Len(f),
         Fronted(f, gs, p), NEW r, r # <<>>, r[1].first_offset = gs[1].first_offset,
         r[1].pcr_offset = gs[1].pcr_offset
  PROVE  Fronted(f, r, p + 1)
<1>1. gs[1].first_offset <= f[p + 1].offset /\ gs[1].pcr_offset \in Nat
  BY DEF Fronted
<1>2. f[p + 1].offset \in Nat /\ (p + 1 < Len(f) => f[p + 1].offset < f[(p + 1) + 1].offset)
  BY NextPcr
<1>3. gs[1].first_offset \in Nat
  <2>1. gs \in Seq(Groups)
    BY DEF Shaped
  <2>2. 1 \in 1 .. Len(gs)
    BY <2>1, EmptySeq, LenProperties
  <2> QED BY <2>2, ShapedGroup
<1>4. ASSUME p + 1 < Len(f) PROVE gs[1].first_offset <= f[(p + 1) + 1].offset
  <2>1. (p + 1) + 1 \in 1 .. Len(f)
    BY <1>4 DEF FileOK
  <2>2. f[(p + 1) + 1].offset \in Nat
    BY <2>1, InFile
  <2> QED BY <1>1, <1>2, <1>3, <1>4, <2>2
<1>5. mode # "pushing" => gs[1].first_offset = f[1].offset
  BY DEF Fronted
<1> QED BY <1>1, <1>4, <1>5 DEF Fronted

\* Nothing is made of a PCR that is known, or the last one again.
LEMMA KeptIs ==
  ASSUME NEW f, FileOK(f), NEW gs, NEW c, NEW p \in Nat, p < Len(f), NEW guess,
         Main(f, gs, c, p, guess), gs # <<>>,
         c.group # 0 => f[p + 1].pcr = gs[c.group].first_pcr + Last(c.pending).pcr
  PROVE  Main(f, gs, c, p + 1, guess)
<1>1. /\ Shaped(f, gs) /\ Windows(f, gs, c) /\ Ordered(gs, c) /\ Placed(f, gs, c, p)
      /\ Fronted(f, gs, p) /\ Timed(f, gs, guess)
  BY DEF Main
<1>2. Fronted(f, gs, p + 1)
  BY <1>1, FrontedNext
<1>3. ASSUME c.group # 0
      PROVE  /\ p + 1 \in 1 .. Len(f)
             /\ Ends(gs, c, c.group) <= f[p + 1].offset
             /\ f[p + 1].pcr - (gs[c.group].first_pcr + Last(c.pending).pcr) \in 0 .. Tenth
  <2>1. p \in 1 .. Len(f) /\ Ends(gs, c, c.group) <= f[p].offset
    BY <1>1, <1>3 DEF Placed
  <2>2. /\ c.group \in 1 .. Len(gs) /\ Last(c.pending).offset \in Nat
    BY <1>1, <1>3, WindowIs
  <2>3. gs[c.group].first_offset \in Nat
    BY <1>1, <2>2, ShapedGroup
  <2>4. Ends(gs, c, c.group) \in Nat
    BY <2>2, <2>3, EndsIs
  <2>5. /\ f[p].offset < f[p + 1].offset /\ p + 1 \in 1 .. Len(f) /\ f[p + 1].offset \in Nat
        /\ f[p + 1].pcr \in Nat
    BY <2>1, NextPcr
  <2>6. f[p].offset \in Nat
    BY <2>1, InFile
  <2>7. Ends(gs, c, c.group) <= f[p + 1].offset
    BY <2>1, <2>4, <2>5, <2>6
  <2>8. f[p + 1].pcr - (gs[c.group].first_pcr + Last(c.pending).pcr) = 0
    BY <1>3, <2>5
  <2> QED BY <2>5, <2>7, <2>8, Numbers
<1>4. Placed(f, gs, c, p + 1)
  BY <1>3 DEF Placed
<1> QED BY <1>1, <1>2, <1>4 DEF Main

\* A group is taken up that the PCR may go on.
LEMMA TakenIs ==
  ASSUME NEW f, FileOK(f), NEW gs, NEW c, NEW p \in Nat, p < Len(f), NEW guess,
         Main(f, gs, c, p, guess), NEW i \in 1 .. Len(gs), EndOffset(gs[i]) <= f[p + 1].offset,
         f[p + 1].pcr - EndPcr(gs[i]) \in 0 .. Tenth
  PROVE  Main(f, gs, Use(gs, i), p + 1, guess)
<1>1. /\ Shaped(f, gs) /\ Windows(f, gs, c) /\ Ordered(gs, c) /\ Placed(f, gs, c, p)
      /\ Fronted(f, gs, p) /\ Timed(f, gs, guess) /\ gs \in Seq(Groups)
  BY DEF Main, Shaped
<1>2. gs # <<>>
  BY <1>1, EmptySeq
<1>3. Fronted(f, gs, p + 1)
  BY <1>1, <1>2, FrontedNext
<1>4. Spaced(gs)
  BY <1>1, OrderedSpaced
<1>5. Ordered(gs, Use(gs, i))
  BY <1>1, <1>4, SpacedOrdered
<1>6. /\ Windows(f, gs, Use(gs, i)) /\ Use(gs, i).group = i /\ i # 0
      /\ Last(Use(gs, i).pending) = Last(gs[i].values)
      /\ Ends(gs, Use(gs, i), i) = EndOffset(gs[i])
  BY <1>1, UseIs
<1>7. p + 1 \in 1 .. Len(f)
  BY NextPcr
<1>8. EndPcr(gs[i]) = gs[i].first_pcr + Last(gs[i].values).pcr
  BY DEF EndPcr
<1>9. Placed(f, gs, Use(gs, i), p + 1)
  BY <1>6, <1>7, <1>8 DEF Placed
<1> QED BY <1>1, <1>3, <1>5, <1>6, <1>9 DEF Main

\* The window has gone on to the PCR.
LEMMA Rewindowed ==
  ASSUME NEW f, FileOK(f), NEW gs, NEW c, NEW p \in Nat, p < Len(f), NEW guess,
         Main(f, gs, c, p, guess), c.group # 0,
         c.group < Len(gs) => f[p + 1].offset < gs[c.group + 1].first_offset,
         NEW r \in Seq(Groups), Same(r, gs), \A k \in 1 .. Len(gs) : k # c.group => r[k] = gs[k],
         Seen(f, gs[c.group], Last(r[c.group].values)),
         NEW d \in Currents, d.group = c.group, d.pending # <<>>,
         gs[c.group].first_offset + Last(d.pending).offset = f[p + 1].offset,
         gs[c.group].first_pcr + Last(d.pending).pcr = f[p + 1].pcr,
         \A k \in 1 .. Len(d.pending) :
            /\ Seen(f, gs[c.group], d.pending[k])
            /\ Last(r[c.group].values).offset <= d.pending[k].offset
            /\ d.pending[k].offset <= Last(d.pending).offset
  PROVE  Main(f, r, d, p + 1, guess)
<1>1. /\ Shaped(f, gs) /\ Windows(f, gs, c) /\ Ordered(gs, c) /\ Placed(f, gs, c, p)
      /\ Fronted(f, gs, p) /\ Timed(f, gs, guess) /\ gs \in Seq(Groups)
  BY DEF Main, Shaped
<1> DEFINE i == c.group
<1>2. i \in 1 .. Len(gs) /\ Len(gs) \in Nat /\ Len(r) = Len(gs) /\ gs # <<>> /\ 1 \in 1 .. Len(gs)
  BY <1>1, WindowIs, LenProperties, EmptySeq DEF Same
<1>3. /\ r[i].first_pcr = gs[i].first_pcr /\ r[i].first_offset = gs[i].first_offset
      /\ r[1].first_offset = gs[1].first_offset /\ r[1].pcr_offset = gs[1].pcr_offset
  BY <1>2 DEF Same
<1>4. Shaped(f, r)
  <2>1. ASSUME NEW k \in 1 .. Len(gs) PROVE Seen(f, gs[k], Last(r[k].values))
    <3>1. CASE k = i
      BY <3>1
    <3>2. CASE k # i
      <4>1. r[k] = gs[k]
        BY <3>2
      <4> QED BY <1>1, <4>1 DEF Shaped
    <3> QED BY <3>1, <3>2
  <2> QED BY <1>1, <2>1, ShapedSame
<1>5. Windows(f, r, d)
  <2>1. \A k \in 1 .. Len(d.pending) : Seen(f, r[d.group], d.pending[k])
    BY <1>3 DEF Seen
  <2> QED BY <1>2, <2>1 DEF Windows
<1>6. f[p + 1].pcr \in Nat /\ p + 1 \in 1 .. Len(f)
  BY NextPcr
<1>7. Ends(r, d, i) = f[p + 1].offset
  BY <1>3, EndsIs
<1>8. Placed(f, r, d, p + 1)
  <2>1. f[p + 1].pcr - (r[d.group].first_pcr + Last(d.pending).pcr) = 0
    BY <1>3, <1>6
  <2>2. f[p + 1].offset \in Nat
    BY NextPcr
  <2> QED BY <1>6, <1>7, <2>1, <2>2, Numbers DEF Placed
<1>9. Ordered(r, d)
  <2>1. SUFFICES ASSUME NEW k \in 1 .. Len(gs) - 1 PROVE Ends(r, d, k) < r[k + 1].first_offset
    BY <1>2 DEF Ordered
  <2>2. k \in 1 .. Len(gs) /\ k + 1 \in 1 .. Len(gs)
    BY <1>2
  <2>3. r[k + 1].first_offset = gs[k + 1].first_offset
    BY <2>2 DEF Same
  <2>4. CASE k = i
    <3>1. i < Len(gs)
      BY <1>2, <2>4
    <3> QED BY <1>7, <2>3, <2>4, <3>1
  <2>5. CASE k # i
    <3>1. r[k] = gs[k]
      BY <2>2, <2>5
    <3>2. Ends(r, d, k) = Ends(gs, c, k)
      BY <2>5, <3>1, EndsIs
    <3> QED BY <1>1, <2>3, <3>2 DEF Ordered
  <2> QED BY <2>4, <2>5
<1>10. Fronted(f, r, p + 1)
  BY <1>1, <1>2, <1>3, FrontedNext
<1>11. Timed(f, r, guess)
  BY <1>1, TimedSame
<1> QED BY <1>4, <1>5, <1>8, <1>9, <1>10, <1>11 DEF Main

LEMMA HalfUp ==
  ASSUME NEW h \in Nat, NEW a \in Nat, NEW b \in Nat, NEW u \in Nat, NEW v \in Nat,
         u <= h * a, v <= u + h, a + 1 <= b
  PROVE  v <= h * b
<1>1. h * (a + 1) <= h * b /\ h * b \in Nat /\ h * a \in Nat
  <2>1. a + 1 \in Nat
    OBVIOUS
  <2> QED BY <2>1, TimesUp
<1>2. h * (a + 1) = h * a + h
  OBVIOUS
<1> QED BY <1>1, <1>2

\* The PCR goes into the window, and the window may be cut.
LEMMA WindowedIs ==
  ASSUME FileOK(file), pos \in Nat, pos < Len(file), Main(file, groups, current, pos, guessed),
         current.group # 0, ~ Overruns(file[pos + 1]),
         file[pos + 1].pcr - groups[current.group].first_pcr - Last(current.pending).pcr \in 0 .. Half
  PROVE  Main(file, Windowed(file[pos + 1]).groups, Windowed(file[pos + 1]).current, pos + 1, guessed)
<1> DEFINE x == file[pos + 1]
           i == current.group
           g == groups[i]
           q == current.pending
           l == Last(q)
           o == [pcr |-> x.pcr - g.first_pcr, offset |-> x.offset - g.first_offset]
           w == Append(q, o)
           v == Last(g.values)
           Good(r, d) ==
             /\ r \in Seq(Groups) /\ Same(r, groups)
             /\ \A k \in 1 .. Len(groups) : k # i => r[k] = groups[k]
             /\ Seen(file, g, Last(r[i].values))
             /\ d \in Currents /\ d.group = i /\ d.pending # <<>> /\ Last(d.pending) = o
             /\ \A k \in 1 .. Len(d.pending) :
                  /\ Seen(file, g, d.pending[k])
                  /\ Last(r[i].values).offset <= d.pending[k].offset
                  /\ d.pending[k].offset <= Last(d.pending).offset
<1>1. /\ Shaped(file, groups) /\ Windows(file, groups, current) /\ Ordered(groups, current)
      /\ Placed(file, groups, current, pos) /\ groups \in Seq(Groups)
  BY DEF Main, Shaped
<1>2. /\ i \in 1 .. Len(groups) /\ q \in Seq(Obs) /\ q # <<>> /\ l \in Obs
      /\ l.pcr \in Nat /\ l.offset \in Nat /\ Seen(file, g, l) /\ v.offset <= l.offset
  BY <1>1, WindowIs
<1>3. g \in Groups /\ g.first_pcr \in Nat /\ g.first_offset \in Nat /\ Seen(file, g, v)
  BY <1>1, <1>2, ShapedGroup
<1>4. v \in Obs /\ v.pcr \in Nat /\ v.offset \in Nat
  BY <1>3, GroupFields
<1>5. x.pcr \in Nat /\ x.offset \in Nat /\ pos + 1 \in 1 .. Len(file)
  BY NextPcr
<1>6. i \in Nat /\ Len(groups) \in Nat
  BY <1>1, LenProperties DEF Windows, Currents
<1>7. x.offset > g.first_offset + l.offset
  <2>1. pos \in 1 .. Len(file) /\ Ends(groups, current, i) <= file[pos].offset
    BY <1>1 DEF Placed
  <2>2. Ends(groups, current, i) = g.first_offset + l.offset
    BY EndsIs
  <2>3. file[pos].offset < x.offset /\ file[pos].offset \in Nat
    BY <2>1, NextPcr, InFile
  <2>4. g.first_offset + l.offset <= file[pos].offset
    BY <2>1, <2>2
  <2> HIDE DEF x, g, l
  <2> QED BY SMTT(30), <1>2, <1>3, <1>5, <2>3, <2>4
<1>8. x.pcr - g.first_pcr - l.pcr \in 0 .. Half
  OBVIOUS
<1>9. i < Len(groups) => x.offset < groups[i + 1].first_offset
  <2>1. ~ Overruns(x)
    OBVIOUS
  <2> HIDE DEF x
  <2>2. SUFFICES ASSUME i < Len(groups) PROVE x.offset < groups[i + 1].first_offset
    OBVIOUS
  <2>3. i \in 1 .. Len(groups) - 1 /\ i + 1 \in 1 .. Len(groups)
    BY <1>2, <1>6, <2>2
  <2>4. groups[i + 1].first_offset \in Nat
    BY <1>1, <2>3, ShapedGroup
  <2> QED BY SMTT(30), <1>5, <2>1, <2>3, <2>4 DEF Overruns
<1> HIDE DEF x, g, l, v
<1>10. o \in Obs /\ o.pcr \in Nat /\ o.offset \in Nat /\ l.offset + 1 <= o.offset
       /\ g.first_pcr + o.pcr = x.pcr /\ g.first_offset + o.offset = x.offset
       /\ o.pcr <= l.pcr + Half
  <2>5. x.pcr \in Nat /\ x.offset \in Nat /\ g.first_pcr \in Nat /\ g.first_offset \in Nat
        /\ l.pcr \in Nat /\ l.offset \in Nat /\ Half \in Nat
    BY <1>2, <1>3, <1>5, Numbers
  <2>1. x.pcr - g.first_pcr \in Nat /\ x.offset - g.first_offset \in Nat
    <3>1. x.pcr - g.first_pcr - l.pcr >= 0
      BY <1>8, <2>5
    <3>2. x.pcr - g.first_pcr \in Nat
      BY SMTT(30), <2>5, <3>1
    <3>3. x.offset - g.first_offset \in Nat
      BY <1>7, <2>5
    <3> QED BY <3>2, <3>3
  <2>2. o.pcr = x.pcr - g.first_pcr /\ o.offset = x.offset - g.first_offset
    OBVIOUS
  <2>3. o \in Obs
    BY <2>1 DEF Obs
  <2> HIDE DEF o
  <2>4. o.pcr <= l.pcr + Half
    <3>1. x.pcr - g.first_pcr - l.pcr <= Half
      BY <1>8, <2>5
    <3> QED BY SMTT(30), <2>2, <2>5, <3>1
  <2>6. l.offset + 1 <= o.offset
    BY <1>7, <2>2, <2>5
  <2>7. o.pcr \in Nat /\ o.offset \in Nat
    BY <2>1, <2>2
  <2>8. g.first_pcr + o.pcr = x.pcr /\ g.first_offset + o.offset = x.offset
    BY <2>2, <2>5
  <2> QED BY <2>3, <2>4, <2>6, <2>7, <2>8
<1> HIDE DEF o
<1>11. Seen(file, g, o)
  <2>1. Entry(file, x.pcr, x.offset)
    BY <1>5 DEF Entry, x
  <2>2. l.pcr <= Half * l.offset
    BY <1>2 DEF Seen
  <2>6. o.pcr <= Half * o.offset
    BY <1>2, <1>10, <2>2, HalfUp, Numbers
  <2> QED BY <1>10, <2>1, <2>6 DEF Seen
<1>12. /\ w \in Seq(Obs) /\ w # <<>> /\ Last(w) = o /\ Len(w) = Len(q) + 1
       /\ \A k \in 1 .. Len(q) : w[k] = q[k]
  BY <1>2, <1>10, LastOfAppend
<1>13. Len(q) \in Nat \ {0} /\ w[Len(q) + 1] = o
  <2>1. Len(q) \in Nat \ {0}
    BY <1>2, LastIs
  <2> QED BY <1>12, <2>1 DEF Last
<1> HIDE DEF w
<1>14. ASSUME NEW k \in 1 .. Len(w)
       PROVE  /\ w[k] \in Obs /\ Seen(file, g, w[k])
              /\ v.offset <= w[k].offset /\ w[k].offset <= o.offset
  <2>1. w[k] \in Obs
    BY <1>12, ElementOfSeq
  <2>2. CASE k \in 1 .. Len(q)
    <3>1. w[k] = q[k]
      BY <1>12, <2>2
    <3>2. Seen(file, g, q[k]) /\ v.offset <= q[k].offset /\ q[k].offset <= l.offset
      BY <1>1, <2>2 DEF Windows, g, v, l
    <3>3. q[k].offset \in Nat
      BY <2>1, <3>1 DEF Obs
    <3>4. w[k].offset \in Nat /\ v.offset <= w[k].offset /\ w[k].offset <= l.offset
          /\ Seen(file, g, w[k])
      BY <3>1, <3>2, <3>3
    <3>5. w[k].offset <= o.offset
      <4>1. l.offset \in Nat /\ o.offset \in Nat /\ l.offset + 1 <= o.offset
        BY <1>2, <1>10
      <4> QED BY <3>4, <4>1
    <3> QED BY <2>1, <3>4, <3>5
  <2>3. CASE k \notin 1 .. Len(q)
    <3>1. k = Len(q) + 1
      BY <1>12, <1>13, <2>3
    <3>2. w[k] = o
      BY <1>13, <3>1
    <3>3. v.offset <= o.offset /\ o.offset <= o.offset
      <4>1. /\ v.offset \in Nat /\ l.offset \in Nat /\ o.offset \in Nat
            /\ v.offset <= l.offset /\ l.offset + 1 <= o.offset
        BY <1>2, <1>4, <1>10
      <4> QED BY <4>1
    <3> QED BY <1>11, <2>1, <3>2, <3>3
  <2> QED BY <2>2, <2>3
<1>15. w[1] \in Obs /\ w[Len(w)] = o /\ 1 \in 1 .. Len(w)
  <2>1. 1 \in 1 .. Len(w)
    BY <1>12, <1>13
  <2> QED BY <1>12, <1>13, <1>14, <2>1
<1>16. current \in Currents
  BY <1>1 DEF Windows
<1>17. ASSUME NEW r, NEW d, Good(r, d) PROVE Main(file, r, d, pos + 1, guessed)
  <2>1. g.first_offset + Last(d.pending).offset = x.offset
        /\ g.first_pcr + Last(d.pending).pcr = x.pcr
    BY <1>10, <1>17
  <2>2. /\ groups[i].first_offset + Last(d.pending).offset = file[pos + 1].offset
        /\ groups[i].first_pcr + Last(d.pending).pcr = file[pos + 1].pcr
        /\ i < Len(groups) => file[pos + 1].offset < groups[i + 1].first_offset
    BY <1>9, <2>1 DEF g, x
  <2>3. /\ Seen(file, groups[i], Last(r[i].values))
        /\ \A k \in 1 .. Len(d.pending) :
             /\ Seen(file, groups[i], d.pending[k])
             /\ Last(r[i].values).offset <= d.pending[k].offset
             /\ d.pending[k].offset <= Last(d.pending).offset
    BY <1>17 DEF g
  <2> QED BY <1>17, <2>2, <2>3, Rewindowed
<1>18. Same(groups, groups)
  BY DEF Same
<1>19. CASE Len(w) < Needed
  <2> DEFINE d == [current EXCEPT !.pending = w]
  <2>1. Windowed(x) = Result(groups, d)
    <3>1. ~ (Len(w) >= Needed)
      BY <1>12, <1>13, <1>19, Numbers
    <3> QED BY <1>19, <3>1, Zenon DEF Windowed, w, o, g
  <2>2. d \in Currents /\ d.group = i /\ d.pending = w
    BY <1>12, <1>16 DEF Currents
  <2> HIDE DEF d
  <2>3. Good(groups, d)
    BY <1>1, <1>3, <1>12, <1>14, <1>18, <2>2 DEF g, v
  <2>4. Main(file, groups, d, pos + 1, guessed)
    <3> HIDE DEF Good
    <3> QED BY <1>17, <2>3
  <2> QED BY <2>1, <2>4 DEF Result, x
<1>20. CASE Len(w) >= Needed /\ Changed(w, current.prev)
  <2> DEFINE d == [current EXCEPT !.pending = <<Last(w)>>, !.prev = w[1]]
             r == Appended(groups, i, w[1])
  <2>1. Windowed(x) = Result(r, d)
    <3>1. ~ (Len(w) < Needed)
      BY <1>12, <1>13, <1>20, Numbers
    <3> QED BY <1>20, <3>1, Zenon DEF Windowed, w, o, g
  <2>2. <<o>> \in Seq(Obs) /\ <<o>> # <<>> /\ Last(<<o>>) = o /\ Len(<<o>>) = 1 /\ <<o>>[1] = o
    BY <1>10 DEF Last
  <2>3. d \in Currents /\ d.group = i /\ d.pending = <<o>>
    BY <1>12, <1>15, <1>16, <2>2 DEF Currents
  <2> HIDE DEF d
  <2>4. /\ r \in Seq(Groups) /\ Same(r, groups) /\ Last(r[i].values) = w[1]
        /\ \A k \in 1 .. Len(groups) : k # i => r[k] = groups[k]
    BY <1>1, <1>2, <1>15, AppendedIs
  <2> HIDE DEF r
  <2>5. Seen(file, g, w[1]) /\ w[1].offset <= o.offset
    BY <1>14, <1>15
  <2>6. ASSUME NEW k \in 1 .. Len(d.pending)
        PROVE  /\ Seen(file, g, d.pending[k]) /\ Last(r[i].values).offset <= d.pending[k].offset
               /\ d.pending[k].offset <= Last(d.pending).offset
    <3>1. d.pending[k] = o
      BY <2>2, <2>3
    <3> QED BY <1>10, <1>11, <2>2, <2>3, <2>4, <2>5, <3>1
  <2>7. Good(r, d)
    BY <2>2, <2>3, <2>4, <2>5, <2>6
  <2>8. Main(file, r, d, pos + 1, guessed)
    <3> HIDE DEF Good
    <3> QED BY <1>17, <2>7
  <2> QED BY <2>1, <2>8 DEF Result, x
<1>21. CASE Len(w) >= Needed /\ ~ Changed(w, current.prev)
  <2> DEFINE d == [current EXCEPT !.pending = Tail(w)]
             t == Tail(w)
  <2>1. Windowed(x) = Result(groups, d)
    <3>1. ~ (Len(w) < Needed)
      BY <1>12, <1>13, <1>21, Numbers
    <3> QED BY <1>21, <3>1, Zenon DEF Windowed, w, o, g
  <2>2. t \in Seq(Obs) /\ Len(t) = Len(w) - 1 /\ \A k \in 1 .. Len(t) : t[k] = w[k + 1]
    BY <1>12, HeadTailProperties
  <2>3. Len(w) \in Nat /\ Len(w) > 1
    BY <1>12, <1>13, <1>21, Numbers
  <2> HIDE DEF t
  <2>4. t # <<>> /\ Last(t) = o
    <3>1. Len(t) \in 1 .. Len(t) /\ Len(t) + 1 = Len(w)
      BY <2>2, <2>3
    <3>2. t[Len(t)] = w[Len(w)]
      BY <2>2, <3>1
    <3>3. t # <<>>
      BY <2>2, <2>3, EmptySeq
    <3> QED BY <1>15, <3>2, <3>3 DEF Last
  <2>5. d \in Currents /\ d.group = i /\ d.pending = t
    <3>1. d = [current EXCEPT !.pending = t]
      BY DEF t
    <3> QED BY <1>16, <2>2, <3>1 DEF Currents
  <2> HIDE DEF d
  <2>6. ASSUME NEW k \in 1 .. Len(d.pending)
        PROVE  /\ Seen(file, g, d.pending[k]) /\ v.offset <= d.pending[k].offset
               /\ d.pending[k].offset <= Last(d.pending).offset
    <3>1. k + 1 \in 1 .. Len(w) /\ d.pending[k] = w[k + 1]
      BY <2>2, <2>3, <2>5
    <3> QED BY <1>14, <2>4, <2>5, <3>1
  <2>7. Good(groups, d)
    BY <1>1, <1>3, <1>18, <2>4, <2>5, <2>6 DEF g, v
  <2>8. Main(file, groups, d, pos + 1, guessed)
    <3> HIDE DEF Good
    <3> QED BY <1>17, <2>7
  <2> QED BY <2>1, <2>8 DEF Result, x
<1>22. Len(w) < Needed \/ Len(w) >= Needed
  BY <1>12, <1>13, Numbers
<1> QED BY <1>19, <1>20, <1>21, <1>22

\* A group is put in for the PCR, and it is the window's.
LEMMA PutIn ==
  ASSUME NEW f, FileOK(f), NEW gs, Shaped(f, gs), Spaced(gs), NEW p \in Nat, p < Len(f),
         Fronted(f, gs, p), NEW guess, Timed(f, gs, guess), NEW i \in 1 .. Len(gs),
         NEW t \in Int, NEW F \in SUBSET Flags,
         EndOffset(gs[i]) < f[p + 1].offset,
         i < Len(gs) => f[p + 1].offset < gs[i + 1].first_offset,
         After(f, gs[i], NewGroup(f[p + 1], t, F), guess),
         Asc(f, f[p + 1].offset) => t - f[p + 1].pcr <= Delta(gs[i])
  PROVE  Main(f, InsertAfter(gs, i, NewGroup(f[p + 1], t, F)),
              Use(InsertAfter(gs, i, NewGroup(f[p + 1], t, F)), i + 1), p + 1, guess)
<1> DEFINE x == f[p + 1]
           g == NewGroup(x, t, F)
           r == InsertAfter(gs, i, g)
           n == Len(gs)
<1>1. gs \in Seq(Groups) /\ n \in Nat /\ i \in 1 .. n /\ i \in 0 .. n /\ i + 1 \in 1 .. n + 1 /\ i > 0
      /\ 1 \in 1 .. i
  BY LenProperties DEF Shaped
<1>2. p + 1 \in 1 .. Len(f) /\ x.pcr \in Nat /\ x.offset \in Nat
  BY NextPcr
<1>3. /\ g \in Groups /\ g.first_pcr = x.pcr /\ g.first_offset = x.offset
      /\ g.pcr_offset = t /\ Last(g.values) = Zero /\ EndOffset(g) = x.offset
      /\ Entry(f, x.pcr, x.offset) /\ Seen(f, g, Zero)
  <2>1. p + 1 \in 1 .. Len(f)
    BY <1>2
  <2>2. IsNew(f, NewGroup(f[p + 1], t, F), f[p + 1], t, F)
    BY <2>1, NewGroupIs
  <2> QED BY <2>2 DEF IsNew
<1>4. EndOffset(gs[i]) < x.offset /\ (i < n => x.offset < gs[i + 1].first_offset)
      /\ After(f, gs[i], g, guess) /\ (Asc(f, x.offset) => t - x.pcr <= Delta(gs[i]))
  OBVIOUS
<1>5. gs # <<>>
  BY <1>1, EmptySeq
<1> HIDE DEF g, x
<1>6. Shaped(f, r) /\ Spaced(r)
  BY <1>1, <1>3, <1>4, ShapedInserted
<1>7. /\ r \in Seq(Groups) /\ Len(r) = n + 1 /\ r[i + 1] = g /\ \A k \in 1 .. i : r[k] = gs[k]
  BY <1>1, <1>3, InsertAfterIs
<1>8. Timed(f, r, guess)
  <2>1. Delta(g) = t - x.pcr
    BY <1>3 DEF Delta
  <2>2. gs[i].first_offset < g.first_offset
    <3>1. gs[i] \in Groups /\ gs[i].first_offset \in Nat
      BY <1>1, ShapedGroup
    <3>2. Last(gs[i].values).offset \in Nat
      BY <3>1, GroupFields
    <3> QED BY <1>2, <1>3, <1>4, <3>1, <3>2 DEF EndOffset
  <2>3. Firsts(gs)
    BY <1>1, SpacedFirsts
  <2> QED BY <1>1, <1>3, <1>4, <2>1, <2>2, <2>3, TimedInserted
<1> HIDE DEF r
<1>9. i + 1 \in 1 .. Len(r)
  BY <1>1, <1>7
<1>10. /\ Windows(f, r, Use(r, i + 1)) /\ Use(r, i + 1).group = i + 1
       /\ Last(Use(r, i + 1).pending) = Zero /\ Ends(r, Use(r, i + 1), i + 1) = x.offset
  BY <1>3, <1>6, <1>7, <1>9, UseIs
<1>11. Ordered(r, Use(r, i + 1))
  BY <1>6, <1>7, <1>9, SpacedOrdered
<1>12. Placed(f, r, Use(r, i + 1), p + 1)
  <2>1. Zero.pcr = 0
    BY DEF Zero
  <2>2. x.pcr - (r[i + 1].first_pcr + Zero.pcr) = 0
    BY <1>2, <1>3, <1>7, <2>1
  <2>3. f[p + 1].pcr - (r[i + 1].first_pcr + Zero.pcr) \in 0 .. Tenth /\ x.offset <= f[p + 1].offset
    BY <1>2, <2>2, Numbers DEF x
  <2> QED BY <1>2, <1>10, <2>3 DEF Placed
<1>13. Fronted(f, r, p + 1)
  <2>1. r[1] = gs[1]
    BY <1>1, <1>7
  <2>2. r # <<>>
    BY <1>7, <1>9, EmptySeq
  <2> QED BY <1>5, <2>1, <2>2, FrontedNext
<1>14. Main(f, r, Use(r, i + 1), p + 1, guess)
  BY <1>6, <1>8, <1>10, <1>11, <1>12, <1>13 DEF Main
<1> QED BY <1>14 DEF r, g, x

LEMMA SameObsShaped ==
  ASSUME NEW f, NEW gs, Shaped(f, gs), NEW r \in Seq(Groups), SameObs(r, gs)
  PROVE  Shaped(f, r)
<1>1. SUFFICES ASSUME NEW k \in 1 .. Len(gs)
               PROVE  Entry(f, r[k].first_pcr, r[k].first_offset) /\ Seen(f, r[k], Last(r[k].values))
  BY DEF Shaped, SameObs
<1>2. r[k].first_pcr = gs[k].first_pcr /\ r[k].first_offset = gs[k].first_offset
      /\ r[k].values = gs[k].values
  BY DEF SameObs
<1>3. Entry(f, r[k].first_pcr, r[k].first_offset)
  BY <1>2 DEF Shaped
<1>4. Seen(f, gs[k], Last(r[k].values))
  BY <1>2 DEF Shaped
<1> QED BY <1>2, <1>3, <1>4 DEF Seen

LEMMA SameObsWindow ==
  ASSUME NEW f, NEW gs, Shaped(f, gs), NEW c, Windows(f, gs, c), Ordered(gs, c),
         NEW r, SameObs(r, gs)
  PROVE  /\ Windows(f, r, c) /\ Ordered(r, c)
         /\ \A k \in 1 .. Len(gs) : Ends(r, c, k) = Ends(gs, c, k)
<1>1. Len(gs) \in Nat /\ Len(r) = Len(gs)
  BY LenProperties DEF Shaped, SameObs
<1>2. \A k \in 1 .. Len(gs) : /\ r[k].first_pcr = gs[k].first_pcr
                              /\ r[k].first_offset = gs[k].first_offset
                              /\ r[k].values = gs[k].values
  BY DEF SameObs
<1>3. Windows(f, r, c)
  <2>1. c \in Currents
    BY DEF Windows
  <2>2. ASSUME c.group # 0
        PROVE  /\ c.group \in 1 .. Len(r) /\ c.pending # <<>>
               /\ \A k \in 1 .. Len(c.pending) :
                    /\ Seen(f, r[c.group], c.pending[k])
                    /\ Last(r[c.group].values).offset <= c.pending[k].offset
                    /\ c.pending[k].offset <= Last(c.pending).offset
    <3>1. c.group \in 1 .. Len(gs) /\ c.pending # <<>>
      BY <2>2 DEF Windows
    <3>2. ASSUME NEW k \in 1 .. Len(c.pending)
          PROVE  /\ Seen(f, r[c.group], c.pending[k])
                 /\ Last(r[c.group].values).offset <= c.pending[k].offset
                 /\ c.pending[k].offset <= Last(c.pending).offset
      <4>1. /\ Seen(f, gs[c.group], c.pending[k])
            /\ Last(gs[c.group].values).offset <= c.pending[k].offset
            /\ c.pending[k].offset <= Last(c.pending).offset
        BY <2>2 DEF Windows
      <4>2. /\ r[c.group].first_pcr = gs[c.group].first_pcr
            /\ r[c.group].first_offset = gs[c.group].first_offset
            /\ r[c.group].values = gs[c.group].values
        BY <1>2, <3>1
      <4> QED BY <4>1, <4>2 DEF Seen
    <3> QED BY <1>1, <3>1, <3>2
  <2> QED BY <2>1, <2>2 DEF Windows
<1>4. ASSUME NEW k \in 1 .. Len(gs) PROVE Ends(r, c, k) = Ends(gs, c, k)
  <2>1. r[k].first_offset = gs[k].first_offset /\ r[k].values = gs[k].values
    BY <1>2
  <2> QED BY <2>1, EndsIs
<1>5. Ordered(r, c)
  <2>1. SUFFICES ASSUME NEW k \in 1 .. Len(gs) - 1 PROVE Ends(r, c, k) < r[k + 1].first_offset
    BY <1>1 DEF Ordered
  <2>2. k \in 1 .. Len(gs) /\ k + 1 \in 1 .. Len(gs)
    BY <1>1
  <2>3. r[k + 1].first_offset = gs[k + 1].first_offset /\ Ends(r, c, k) = Ends(gs, c, k)
    BY <1>2, <1>4, <2>2
  <2> QED BY <2>3 DEF Ordered
<1> QED BY <1>3, <1>4, <1>5

\* The pass over the groups keeps what is known of them.
LEMMA ReevaluatedMain ==
  ASSUME NEW f, FileOK(f), NEW gs, NEW c, NEW p, NEW guess, Main(f, gs, c, p, guess), NEW b,
         NEW r, Done(r, gs, b, Len(gs))
  PROVE  Main(f, r, c, p, guess \/ Wraps(r))
<1>1. /\ Shaped(f, gs) /\ Windows(f, gs, c) /\ Ordered(gs, c) /\ Placed(f, gs, c, p)
      /\ Fronted(f, gs, p) /\ Timed(f, gs, guess) /\ gs \in Seq(Groups)
  BY DEF Main, Shaped
<1>2. Spaced(gs) /\ Firsts(gs)
  BY <1>1, OrderedSpaced, SpacedFirsts
<1>8. /\ r \in Seq(Groups) /\ SameObs(r, gs)
      /\ gs # <<>> => r[1].pcr_offset = gs[1].pcr_offset
  BY DEF Done
<1>3. Timed(f, r, guess \/ Wraps(r))
  BY <1>1, <1>2, Retimed
<1>4. Shaped(f, r)
  BY <1>1, <1>8, SameObsShaped
<1>5. /\ Windows(f, r, c) /\ Ordered(r, c)
      /\ \A k \in 1 .. Len(gs) : Ends(r, c, k) = Ends(gs, c, k)
  BY <1>1, <1>8, SameObsWindow
<1>6. Placed(f, r, c, p)
  <2>1. SUFFICES ASSUME c.group # 0
                 PROVE  /\ p \in 1 .. Len(f) /\ Ends(r, c, c.group) <= f[p].offset
                        /\ f[p].pcr - (r[c.group].first_pcr + Last(c.pending).pcr) \in 0 .. Tenth
    BY DEF Placed
  <2>2. c.group \in 1 .. Len(gs)
    BY <1>1, <2>1, WindowIs
  <2>3. r[c.group].first_pcr = gs[c.group].first_pcr /\ Ends(r, c, c.group) = Ends(gs, c, c.group)
    BY <1>5, <1>8, <2>2 DEF SameObs
  <2> QED BY <1>1, <2>1, <2>3 DEF Placed
<1>7. Fronted(f, r, p)
  <2>1. Len(gs) \in Nat /\ Len(r) = Len(gs)
    BY <1>1, <1>8, LenProperties DEF SameObs
  <2>2. r # <<>> => gs # <<>> /\ 1 \in 1 .. Len(gs)
    BY <1>1, <1>8, <2>1, EmptySeq
  <2>3. r # <<>> => r[1].first_offset = gs[1].first_offset /\ r[1].pcr_offset = gs[1].pcr_offset
    BY <1>8, <2>2 DEF SameObs
  <2>4. r = <<>> => gs = <<>>
    BY <1>1, <1>8, <2>1, EmptySeq
  <2> QED BY <1>1, <2>2, <2>3, <2>4 DEF Fronted
<1> QED BY <1>3, <1>4, <1>5, <1>6, <1>7 DEF Main

\* The window's group with what it has seen, as one that is done with.
Sealed(gs, c) == [Closed(gs, c) EXCEPT ![c.group].flags = @ \cup {"closed"}]

LEMMA SealedIs ==
  ASSUME NEW f, FileOK(f), NEW gs, Shaped(f, gs), NEW c, Windows(f, gs, c), Ordered(gs, c),
         c.group # 0
  PROVE  /\ Shaped(f, Sealed(gs, c)) /\ Spaced(Sealed(gs, c)) /\ Same(Sealed(gs, c), gs)
         /\ Last(Sealed(gs, c)[c.group].values) = Last(c.pending)
         /\ EndOffset(Sealed(gs, c)[c.group]) = Ends(gs, c, c.group)
<1> DEFINE a == Closed(gs, c)
           r == Sealed(gs, c)
           i == c.group
<1>1. /\ Shaped(f, a) /\ Same(a, gs) /\ Spaced(a) /\ a \in Seq(Groups)
      /\ \A k \in 1 .. Len(gs) : EndOffset(a[k]) = Ends(gs, c, k)
      /\ Last(a[i].values) = Last(c.pending)
  BY ClosedIs DEF Shaped
<1>2. i \in 1 .. Len(gs) /\ Len(a) = Len(gs) /\ Len(gs) \in Nat /\ DOMAIN a = 1 .. Len(gs)
  BY <1>1, WindowIs, LenProperties DEF Same
<1>3. a[i] \in Groups
  BY <1>1, <1>2, ElementOfSeq
<1> DEFINE g == [a[i] EXCEPT !.flags = @ \cup {"closed"}]
<1>4. r = [a EXCEPT ![i] = g]
  BY <1>2 DEF Sealed
<1>5. /\ g \in Groups /\ g.first_pcr = a[i].first_pcr /\ g.first_offset = a[i].first_offset
      /\ g.pcr_offset = a[i].pcr_offset /\ g.values = a[i].values /\ (Est(g) <=> Est(a[i]))
  BY <1>3 DEF Groups, Flags, Est
<1> HIDE DEF a, r, g
<1>6. r \in Seq(Groups) /\ Len(r) = Len(gs) /\ r[i] = g /\ \A k \in 1 .. Len(gs) : k # i => r[k] = a[k]
  BY <1>1, <1>2, <1>4, <1>5
<1>7. ASSUME NEW k \in 1 .. Len(gs)
      PROVE  /\ r[k].first_pcr = a[k].first_pcr /\ r[k].first_offset = a[k].first_offset
             /\ r[k].pcr_offset = a[k].pcr_offset /\ r[k].values = a[k].values
             /\ (Est(r[k]) <=> Est(a[k]))
  <2>1. CASE k = i
    BY <1>5, <1>6, <2>1
  <2>2. CASE k # i
    <3>1. r[k] = a[k]
      BY <1>6, <2>2
    <3> QED BY <3>1
  <2> QED BY <2>1, <2>2
<1>8. SameObs(r, a)
  BY <1>2, <1>6, <1>7 DEF SameObs
<1>9. Shaped(f, r)
  BY <1>1, <1>6, <1>8, SameObsShaped
<1>10. Same(r, gs)
  <2>1. ASSUME NEW k \in 1 .. Len(gs)
        PROVE  /\ r[k].first_pcr = gs[k].first_pcr /\ r[k].first_offset = gs[k].first_offset
               /\ r[k].pcr_offset = gs[k].pcr_offset /\ (Est(r[k]) <=> Est(gs[k]))
    BY <1>1, <1>7 DEF Same
  <2> QED BY <1>6, <2>1 DEF Same
<1>11. \A k \in 1 .. Len(gs) : EndOffset(r[k]) = EndOffset(a[k])
  BY <1>7 DEF EndOffset
<1>12. Spaced(r)
  <2>1. SUFFICES ASSUME NEW k \in 1 .. Len(gs) - 1 PROVE EndOffset(r[k]) < r[k + 1].first_offset
    BY <1>6 DEF Spaced
  <2>2. k \in 1 .. Len(gs) /\ k + 1 \in 1 .. Len(gs) /\ k \in 1 .. Len(a) - 1
    BY <1>2
  <2>3. r[k + 1].first_offset = a[k + 1].first_offset /\ EndOffset(r[k]) = EndOffset(a[k])
    BY <1>7, <1>11, <2>2
  <2>4. EndOffset(a[k]) < a[k + 1].first_offset
    BY <1>1, <2>2 DEF Spaced
  <2> QED BY <2>3, <2>4
<1>13. Last(r[i].values) = Last(c.pending) /\ EndOffset(r[i]) = Ends(gs, c, i)
  BY <1>1, <1>2, <1>7, <1>11
<1> QED BY <1>9, <1>10, <1>12, <1>13 DEF r

LEMMA SameFronted ==
  ASSUME NEW f, NEW gs \in Seq(Groups), NEW r \in Seq(Groups), Same(r, gs), NEW p, Fronted(f, gs, p)
  PROVE  Fronted(f, r, p)
<1>1. Len(gs) \in Nat /\ Len(r) = Len(gs)
  BY LenProperties DEF Same
<1>2. r # <<>> => gs # <<>> /\ 1 \in 1 .. Len(gs)
  BY <1>1, EmptySeq
<1>3. r # <<>> => r[1].first_offset = gs[1].first_offset /\ r[1].pcr_offset = gs[1].pcr_offset
  BY <1>2 DEF Same
<1>4. r = <<>> => gs = <<>>
  BY <1>1, EmptySeq
<1> QED BY <1>2, <1>3, <1>4 DEF Fronted

\* The PCR is far from the last one: 'WRAPAROUND', 'RESET' or 'GAP detected'.
LEMMA ContiguousIs ==
  ASSUME FileOK(file), pos \in Nat, pos < Len(file), Main(file, groups, current, pos, guessed),
         current.group # 0, ~ Overruns(file[pos + 1]),
         file[pos + 1].pcr - groups[current.group].first_pcr - Last(current.pending).pcr \notin 0 .. Half
  PROVE  Main(file, Contiguous(file[pos + 1]).groups, Contiguous(file[pos + 1]).current, pos + 1, guessed)
<1> DEFINE x == file[pos + 1]
           i == current.group
           b == Sealed(groups, current)
           a == b[i]
           l == Last(current.pending)
           t == NextTime(a, x.pcr)
           e == a.first_pcr + l.pcr
           q == file[pos].pcr
<1>1. /\ Shaped(file, groups) /\ Windows(file, groups, current) /\ Ordered(groups, current)
      /\ Placed(file, groups, current, pos) /\ Fronted(file, groups, pos)
      /\ Timed(file, groups, guessed) /\ groups \in Seq(Groups)
  BY DEF Main, Shaped
<1>2. /\ i \in 1 .. Len(groups) /\ l.pcr \in Nat /\ l.offset \in Nat /\ Seen(file, groups[i], l)
  BY <1>1, WindowIs
<1>3. /\ Shaped(file, b) /\ Spaced(b) /\ Same(b, groups) /\ b \in Seq(Groups)
      /\ Last(a.values) = l /\ EndOffset(a) = Ends(groups, current, i)
  BY <1>1, SealedIs DEF Shaped
<1>4. Len(b) = Len(groups) /\ Len(groups) \in Nat /\ i \in Nat
  BY <1>1, <1>3, LenProperties DEF Same, Windows, Currents
<1>5. Timed(file, b, guessed) /\ Fronted(file, b, pos)
  BY <1>1, <1>3, TimedSame, SameFronted
<1>6. /\ a \in Groups /\ a.first_pcr \in Nat /\ a.first_offset \in Nat /\ a.pcr_offset \in Int
      /\ Delta(a) \in Int /\ a.pcr_offset = Delta(a) + a.first_pcr
      /\ a.first_pcr = groups[i].first_pcr /\ a.first_offset = groups[i].first_offset
  BY <1>2, <1>3, <1>4, ShapedGroup DEF Same
<1>7. x.pcr \in Nat /\ x.offset \in Nat /\ x.pcr < PcrMax /\ pos + 1 \in 1 .. Len(file)
  BY NextPcr
<1>8. /\ pos \in 1 .. Len(file) /\ Ends(groups, current, i) <= file[pos].offset
      /\ q - e \in 0 .. Tenth
  BY <1>1, <1>6 DEF Placed
<1>9. file[pos].offset < x.offset /\ file[pos].offset \in Nat /\ q \in Nat /\ q < PcrMax
  BY <1>8, NextPcr, InFile
<1>10. EndOffset(a) \in Nat
  <2>1. Last(a.values).offset \in Nat
    BY <1>6, GroupFields
  <2> HIDE DEF a
  <2> QED BY <1>6, <2>1 DEF EndOffset
<1>11. i < Len(groups) => x.offset < b[i + 1].first_offset
  <2>1. ~ Overruns(x)
    OBVIOUS
  <2> HIDE DEF x, b
  <2>2. SUFFICES ASSUME i < Len(groups) PROVE x.offset < b[i + 1].first_offset
    OBVIOUS
  <2>3. i \in 1 .. Len(groups) - 1 /\ i + 1 \in 1 .. Len(groups)
    BY <1>2, <1>4, <2>2
  <2>4. groups[i + 1].first_offset \in Nat /\ b[i + 1].first_offset = groups[i + 1].first_offset
    BY <1>1, <1>3, <2>3, ShapedGroup DEF Same
  <2> QED BY <1>7, <2>1, <2>3, <2>4 DEF Overruns
<1>12. x.pcr - e \notin 0 .. Half
  <2>1. x.pcr - groups[i].first_pcr - l.pcr \notin 0 .. Half
    OBVIOUS
  <2> HIDE DEF x, a, l
  <2>2. x.pcr - e = x.pcr - groups[i].first_pcr - l.pcr
    BY SMTT(30), <1>2, <1>6, <1>7
  <2> QED BY <2>1, <2>2
<1>13. Entry(file, e, EndOffset(a))
  <2>1. Entry(file, groups[i].first_pcr + l.pcr, groups[i].first_offset + l.offset)
    BY <1>2 DEF Seen
  <2>2. EndOffset(a) = groups[i].first_offset + l.offset
    BY <1>3, EndsIs
  <2> QED BY <1>6, <2>1, <2>2
<1>14. Contiguous(x) = Result(InsertAfter(b, i, NewGroup(x, t, {})),
                               Use(InsertAfter(b, i, NewGroup(x, t, {})), i + 1))
  BY Zenon DEF Contiguous, Sealed
<1>15. EndOffset(a) < x.offset /\ EndOffset(a) <= file[pos].offset
  <2>1. EndOffset(a) <= file[pos].offset
    BY <1>3, <1>8
  <2> HIDE DEF a, x
  <2> QED BY <1>7, <1>9, <1>10, <2>1
<1>16. EndPcr(a) = e
  BY <1>3 DEF EndPcr
<1> DEFINE z == (PcrMax * 99) \div 100
<1>17. z \in Nat
  <2>1. PcrMax * 99 \in Nat
    BY Numbers
  <2> QED BY <2>1, DivIs
<1>18. t = a.pcr_offset + (IF e - x.pcr > z THEN PcrMax - a.first_pcr + x.pcr
                           ELSE l.pcr + (IF e > x.pcr THEN Tenth ELSE Half))
  BY <1>3, <1>16 DEF NextTime
<1> HIDE DEF x, b, a, l, t, z, q
<1>19. e \in Nat /\ e \in Int
  BY SMTT(30), <1>2, <1>6
<1>20. \/ t = Delta(a) + PcrMax + x.pcr /\ e > x.pcr
       \/ t = Delta(a) + e + Tenth /\ e > x.pcr
       \/ t = Delta(a) + e + Half /\ e <= x.pcr
  <2>1. PcrMax \in Int /\ Tenth \in Int /\ Half \in Int
    BY Numbers
  <2>5. a.pcr_offset = Delta(a) + a.first_pcr /\ Delta(a) \in Int /\ a.first_pcr \in Int
        /\ l.pcr \in Int /\ x.pcr \in Int /\ e = a.first_pcr + l.pcr
    BY <1>2, <1>6, <1>7
  <2>2. CASE e - x.pcr > z
    <3>1. t = a.pcr_offset + (PcrMax - a.first_pcr + x.pcr)
      BY <1>18, <2>2
    <3>2. e > x.pcr
      BY <1>7, <1>17, <1>19, <2>2
    <3>3. t = Delta(a) + PcrMax + x.pcr
      BY <2>1, <2>5, <3>1
    <3> QED BY <3>2, <3>3
  <2>3. CASE ~ (e - x.pcr > z) /\ e > x.pcr
    <3>1. t = a.pcr_offset + (l.pcr + Tenth)
      BY <1>18, <2>3
    <3>2. t = Delta(a) + e + Tenth
      BY <2>1, <2>5, <3>1
    <3> QED BY <2>3, <3>2
  <2>4. CASE ~ (e - x.pcr > z) /\ ~ (e > x.pcr)
    <3>1. t = a.pcr_offset + (l.pcr + Half)
      BY <1>18, <2>4
    <3>2. t = Delta(a) + e + Half
      BY <2>1, <2>5, <3>1
    <3>3. e <= x.pcr
      BY <1>7, <1>19, <2>4
    <3> QED BY <3>2, <3>3
  <2> QED BY <2>2, <2>3, <2>4
<1> HIDE DEF e
<1>21. t \in Int
  <2>1. PcrMax \in Nat /\ Tenth \in Nat /\ Half \in Nat
    BY Numbers
  <2> QED BY <1>6, <1>7, <1>19, <1>20, <2>1
<1>22. Asc(file, x.offset) => t = Delta(a) + e + Half /\ x.pcr > e + Half
  <2>1. SUFFICES ASSUME Asc(file, x.offset)
                 PROVE  t = Delta(a) + e + Half /\ x.pcr > e + Half
    OBVIOUS
  <2>2. e <= x.pcr
    <3>1. Entry(file, x.pcr, x.offset)
      BY <1>7 DEF Entry, x
    <3>2. EndOffset(a) <= x.offset /\ x.offset <= x.offset /\ x.offset \in Int
      BY <1>7, <1>10, <1>15
    <3> QED BY <1>13, <2>1, <3>1, <3>2, AscTwo
  <2>3. x.pcr > e + Half
    BY <1>7, <1>12, <1>19, <2>2, Numbers
  <2>4. ~ (e > x.pcr)
    BY <1>7, <1>19, <2>2
  <2> QED BY <1>20, <2>3, <2>4
<1>23. \A j \in 1 .. Len(file) : file[j].offset < x.offset => j <= pos
  <2>1. SUFFICES ASSUME NEW j \in 1 .. Len(file), file[j].offset < x.offset PROVE j <= pos
    OBVIOUS
  <2>2. j < pos + 1
    BY <1>7, <2>1, InFile DEF x
  <2> QED BY <2>2
<1>24. ASSUME Asc(file, x.offset - 1), NEW j \in 1 .. Len(file), file[j].offset < x.offset
       PROVE  file[j].pcr <= e + Tenth /\ file[j].pcr \in Nat
  <2>1. j <= pos /\ file[j].pcr \in Nat /\ file[j].offset \in Nat
    BY <1>23, <1>24, InFile
  <2>2. file[j].pcr <= q
    <3>1. Entry(file, file[j].pcr, file[j].offset) /\ Entry(file, q, file[pos].offset)
      BY <1>8 DEF Entry, q
    <3>2. file[j].offset <= file[pos].offset
      BY <1>8, <2>1, InFile
    <3>3. file[pos].offset <= x.offset - 1 /\ x.offset - 1 \in Int
      BY <1>7, <1>9
    <3> QED BY <1>24, <3>1, <3>2, <3>3, AscTwo
  <2>3. q <= e + Tenth
    BY <1>8, <1>9, <1>19, Numbers
  <2>4. e + Tenth \in Nat
    BY <1>19, Numbers
  <2> QED BY <1>9, <2>1, <2>2, <2>3, <2>4
<1>25. IsNew(file, NewGroup(x, t, {}), x, t, {})
  <2>1. {} \in SUBSET Flags
    OBVIOUS
  <2> QED BY <1>7, <1>21, <2>1, NewGroupIs DEF x
<1> DEFINE g == NewGroup(x, t, {})
<1>26. g.pcr_offset = t /\ g.first_offset = x.offset /\ ~ Est(g)
  BY <1>25 DEF IsNew, Est
<1> HIDE DEF g
<1>27. ASSUME Asc(file, x.offset), NEW j \in 1 .. Len(file), file[j].offset < x.offset
       PROVE  Delta(a) + file[j].pcr < t
  <2>1. Asc(file, x.offset - 1)
    BY <1>7, <1>27, AscDown
  <2>2. file[j].pcr <= e + Tenth /\ file[j].pcr \in Nat
    BY <1>24, <1>27, <2>1
  <2>3. t = Delta(a) + e + Half
    BY <1>22, <1>27
  <2>4. Tenth \in Nat /\ Half \in Nat /\ Tenth < Half
    BY Numbers
  <2> QED BY <1>6, <1>19, <2>2, <2>3, <2>4
<1>28. ASSUME Asc(file, x.offset - 1), NEW j \in 1 .. Len(file), file[j].offset < x.offset
       PROVE  Delta(a) + file[j].pcr <= t
  <2>1. file[j].pcr <= e + Tenth /\ file[j].pcr \in Nat /\ file[j].pcr < PcrMax
    BY <1>24, <1>28, InFile
  <2>2. Tenth \in Nat /\ Half \in Nat /\ Tenth < Half /\ PcrMax \in Nat
    BY Numbers
  <2>3. CASE t = Delta(a) + PcrMax + x.pcr
    BY SMTT(30), <1>6, <1>7, <2>1, <2>2, <2>3
  <2>4. CASE t = Delta(a) + e + Tenth
    BY <1>6, <1>19, <2>1, <2>2, <2>4
  <2>5. CASE t = Delta(a) + e + Half
    BY <1>6, <1>19, <2>1, <2>2, <2>5
  <2> QED BY <1>20, <2>3, <2>4, <2>5
<1>29. After(file, a, g, guessed)
  BY <1>26, <1>27, <1>28, Zenon DEF After
<1>30. Asc(file, x.offset) => t - x.pcr <= Delta(a)
  <2>1. SUFFICES ASSUME Asc(file, x.offset) PROVE t - x.pcr <= Delta(a)
    OBVIOUS
  <2>2. t = Delta(a) + e + Half /\ x.pcr > e + Half
    BY <1>22, <2>1
  <2>3. Half \in Nat
    BY Numbers
  <2> QED BY <1>6, <1>7, <1>19, <2>2, <2>3
<1>31. Main(file, InsertAfter(b, i, NewGroup(x, t, {})),
            Use(InsertAfter(b, i, NewGroup(x, t, {})), i + 1), pos + 1, guessed)
  <2>1. EndOffset(b[i]) < file[pos + 1].offset
    BY <1>15 DEF a, x
  <2>2. i < Len(b) => file[pos + 1].offset < b[i + 1].first_offset
    BY <1>4, <1>11 DEF x
  <2>3. After(file, b[i], NewGroup(file[pos + 1], t, {}), guessed)
    BY <1>29 DEF a, g, x
  <2>4. Asc(file, file[pos + 1].offset) => t - file[pos + 1].pcr <= Delta(b[i])
    BY <1>30 DEF a, x
  <2>5. i \in 1 .. Len(b) /\ {} \in SUBSET Flags
    BY <1>2, <1>4
  <2>6. Main(file, InsertAfter(b, i, NewGroup(file[pos + 1], t, {})),
             Use(InsertAfter(b, i, NewGroup(file[pos + 1], t, {})), i + 1), pos + 1, guessed)
    BY <1>3, <1>5, <1>21, <2>1, <2>2, <2>3, <2>4, <2>5, PutIn
  <2> QED BY <2>6 DEF x
<1> QED BY <1>14, <1>31 DEF Result, x

\* An estimate brought up to date does not depend on the time the group had.
LEMMA DoneAnew ==
  ASSUME NEW gs \in Seq(Groups), NEW hs \in Seq(Groups), Len(hs) = Len(gs), NEW i \in 2 .. Len(gs),
         \A k \in 1 .. Len(gs) : k # i => hs[k] = gs[k],
         Est(gs[i]), Est(hs[i]), hs[i].first_pcr = gs[i].first_pcr,
         hs[i].first_offset = gs[i].first_offset, hs[i].values = gs[i].values,
         NEW c, NEW r, Done(r, gs, c, Len(gs))
  PROVE  Done(r, hs, c, Len(hs))
<1>1. Len(gs) \in Nat
  BY LenProperties
<1>2. ASSUME NEW k \in 1 .. Len(gs)
      PROVE  /\ hs[k].first_pcr = gs[k].first_pcr /\ hs[k].first_offset = gs[k].first_offset
             /\ hs[k].values = gs[k].values /\ (Est(hs[k]) <=> Est(gs[k]))
             /\ ~ Est(gs[k]) => hs[k].pcr_offset = gs[k].pcr_offset
  <2>1. CASE k = i
    BY <2>1
  <2>2. CASE k # i
    <3>1. hs[k] = gs[k]
      BY <2>2
    <3> QED BY <3>1
  <2> QED BY <2>1, <2>2
<1>3. r \in Seq(Groups) /\ SameObs(r, gs)
  BY DEF Done
<1>4. SameObs(r, hs)
  <2>1. ASSUME NEW k \in 1 .. Len(gs)
        PROVE  /\ r[k].first_pcr = hs[k].first_pcr /\ r[k].first_offset = hs[k].first_offset
               /\ r[k].values = hs[k].values
    BY <1>2, <1>3 DEF SameObs
  <2> QED BY <1>3, <2>1 DEF SameObs
<1>5. \A k \in 1 .. Len(hs) : ~ (k > Len(hs))
  BY <1>1
<1>6. r[1].pcr_offset = hs[1].pcr_offset
  <2>1. 1 \in 1 .. Len(gs) /\ 1 # i
    BY <1>1
  <2>2. gs # <<>>
    BY <2>1, EmptySeq
  <2> QED BY <2>1, <2>2 DEF Done
<1>7. ASSUME NEW k \in 2 .. Len(gs) PROVE Clause(hs, c, r, k)
  <2>1. k \in 1 .. Len(gs) /\ k - 1 \in 1 .. Len(gs) /\ k <= Len(gs)
    BY <1>1
  <2>2. Clause(gs, c, r, k)
    BY <2>1 DEF Done
  <2>3. Latest(hs, c, k - 1) = Latest(gs, c, k - 1)
    BY <1>2, <2>1 DEF Latest
  <2>4. /\ hs[k].first_pcr = gs[k].first_pcr /\ hs[k].first_offset = gs[k].first_offset
        /\ (Est(hs[k]) <=> Est(gs[k]))
        /\ ~ Est(gs[k]) => hs[k].pcr_offset = gs[k].pcr_offset
        /\ hs[k - 1].first_pcr = gs[k - 1].first_pcr
        /\ hs[k - 1].first_offset = gs[k - 1].first_offset
    BY <1>2, <2>1
  <2> QED BY <2>2, <2>3, <2>4 DEF Clause
<1> QED BY <1>3, <1>4, <1>5, <1>6, <1>7 DEF Done

LEMMA MainGuess ==
  ASSUME NEW f, NEW gs, NEW c, NEW p, NEW a, NEW r, Main(f, gs, c, p, a)
  PROVE  Main(f, gs, c, p, a \/ Wraps(r))
<1>1. Timed(f, gs, a \/ Wraps(r))
  BY TimedGuess DEF Main
<1> QED BY <1>1 DEF Main

\* The PCR comes after group i and before the next one.
LEMMA ApartIs ==
  ASSUME FileOK(file), pos \in Nat, pos < Len(file), Main(file, groups, current, pos, guessed),
         NEW i \in 1 .. Len(groups), EndOffset(groups[i]) < file[pos + 1].offset,
         i < Len(groups) => file[pos + 1].offset < groups[i + 1].first_offset
  PROVE  Main(file, Apart(i, file[pos + 1]).groups, Apart(i, file[pos + 1]).current, pos + 1,
              guessed \/ Wraps(Apart(i, file[pos + 1]).groups))
<1> DEFINE x == file[pos + 1]
           F == {"estimated"}
           t == Delta(groups[i]) + x.pcr
           g == NewGroup(x, 0, F)
           h == NewGroup(x, t, F)
           gs == InsertAfter(groups, i, g)
           hs == InsertAfter(groups, i, h)
           c == Use(gs, i + 1)
           r == Reevaluated(gs, c)
           n == Len(groups)
<1>1. /\ Shaped(file, groups) /\ Windows(file, groups, current) /\ Ordered(groups, current)
      /\ Fronted(file, groups, pos)
      /\ Timed(file, groups, guessed) /\ groups \in Seq(Groups) /\ Spaced(groups)
  BY OrderedSpaced DEF Main, Shaped
<1>2. n \in Nat /\ i \in 1 .. n /\ i \in 0 .. n /\ i # 0
  BY <1>1, LenProperties
<1>3. pos + 1 \in 1 .. Len(file) /\ x.pcr \in Nat /\ Delta(groups[i]) \in Int
  BY <1>1, NextPcr, ShapedGroup
<1>4. F \in SUBSET Flags /\ t \in Int /\ 0 \in Int
  BY <1>3 DEF Flags
<1>5. IsNew(file, g, x, 0, F) /\ IsNew(file, h, x, t, F)
  <2> HIDE DEF t, F
  <2> QED BY <1>3, <1>4, NewGroupIs
<1>6. Apart(i, x) = Result(r, c)
  BY <1>2, Zenon DEF Apart
<1>7. Main(file, hs, Use(hs, i + 1), pos + 1, guessed)
  <2>1. h.pcr_offset = t /\ h.first_pcr = x.pcr /\ Est(h)
    BY <1>5 DEF IsNew, Est, F
  <2>2. Delta(h) = Delta(groups[i])
    <3> HIDE DEF h
    <3> QED BY <1>3, <2>1 DEF Delta
  <2>3. After(file, groups[i], h, guessed)
    <3> HIDE DEF h
    <3> QED BY <1>3, <2>1, <2>2 DEF After
  <2>4. t - x.pcr <= Delta(groups[i])
    <3> HIDE DEF x
    <3> QED BY <1>3
  <2> HIDE DEF t, F
  <2> QED BY <1>1, <1>2, <1>4, <2>3, <2>4, PutIn
<1> HIDE DEF g, h, t, F
<1>8. /\ g \in Groups /\ h \in Groups /\ Est(g) /\ Est(h) /\ g.first_pcr = h.first_pcr
      /\ g.first_offset = h.first_offset /\ Last(g.values) = Zero /\ Last(h.values) = Zero
      /\ g.values = h.values
  <2>1. g.values = h.values
    BY DEF g, h, NewGroup
  <2> QED BY <1>5, <2>1 DEF IsNew, Est, F
<1>9. /\ gs \in Seq(Groups) /\ Len(gs) = n + 1 /\ gs[i + 1] = g
      /\ \A k \in 1 .. i : gs[k] = groups[k]
      /\ \A k \in i + 2 .. n + 1 : gs[k] = groups[k - 1]
  BY <1>1, <1>2, <1>8, InsertAfterIs
<1>10. /\ hs \in Seq(Groups) /\ Len(hs) = n + 1 /\ hs[i + 1] = h
       /\ \A k \in 1 .. i : hs[k] = groups[k]
       /\ \A k \in i + 2 .. n + 1 : hs[k] = groups[k - 1]
  BY <1>1, <1>2, <1>8, InsertAfterIs
<1>11. c = Use(hs, i + 1)
  BY <1>8, <1>9, <1>10 DEF Use
<1> HIDE DEF gs, hs, c
<1>12. Typed(c)
  BY <1>7, <1>11, TypedIs DEF Main
<1>13. Done(r, gs, c, Len(gs))
  BY <1>9, <1>12, ReevaluatedIs
<1> HIDE DEF r
<1>14. \A k \in 1 .. Len(gs) : k # i + 1 => hs[k] = gs[k]
  <2>1. SUFFICES ASSUME NEW k \in 1 .. n + 1, k # i + 1 PROVE hs[k] = gs[k]
    BY <1>9
  <2>2. k \in 1 .. i \/ k \in i + 2 .. n + 1
    BY <1>2, <2>1
  <2> QED BY <1>9, <1>10, <2>2
<1>15. Done(r, hs, c, Len(hs))
  <2>1. i + 1 \in 2 .. Len(gs) /\ Len(hs) = Len(gs)
    BY <1>2, <1>9, <1>10
  <2>2. Est(gs[i + 1]) /\ Est(hs[i + 1]) /\ hs[i + 1].first_pcr = gs[i + 1].first_pcr
        /\ hs[i + 1].first_offset = gs[i + 1].first_offset /\ hs[i + 1].values = gs[i + 1].values
    BY <1>8, <1>9, <1>10
  <2> QED BY <1>9, <1>10, <1>13, <1>14, <2>1, <2>2, DoneAnew
<1>16. Main(file, r, c, pos + 1, guessed \/ Wraps(r))
  BY <1>7, <1>11, <1>15, ReevaluatedMain
<1> QED BY <1>6, <1>16 DEF Result, x

IsOnly(s, g) == s \in Seq(Groups) /\ Len(s) = 1 /\ s[1] = g

LEMMA OnlyIs ==
  ASSUME NEW s \in Seq(Groups), Len(s) = 0, NEW g \in Groups
  PROVE  IsOnly(InsertAfter(s, 0, g), g)
<1>1. 0 \in 0 .. Len(s) /\ 0 + 1 = 1
  OBVIOUS
<1>2. /\ InsertAfter(s, 0, g) \in Seq(Groups)
      /\ Len(InsertAfter(s, 0, g)) = Len(s) + 1
      /\ InsertAfter(s, 0, g)[0 + 1] = g
  BY <1>1, InsertAfterIs
<1> QED BY <1>1, <1>2 DEF IsOnly

\* The first PCR.
LEMMA FirstIs ==
  ASSUME FileOK(file), pos \in Nat, pos < Len(file), groups = <<>>, Fronted(file, groups, pos)
  PROVE  Main(file, Apart(0, file[pos + 1]).groups, Apart(0, file[pos + 1]).current, pos + 1,
              guessed \/ Wraps(Apart(0, file[pos + 1]).groups))
<1> DEFINE x == file[pos + 1]
           g == NewGroup(x, 0, {})
           gs == InsertAfter(groups, 0, g)
           c == Use(gs, 1)
           r == Reevaluated(gs, c)
<1>1. pos + 1 \in 1 .. Len(file) /\ x.pcr \in Nat /\ x.offset \in Nat
      /\ (pos + 1 < Len(file) => x.offset < file[(pos + 1) + 1].offset)
  BY NextPcr
<1>2. IsNew(file, g, x, 0, {})
  <2>1. {} \in SUBSET Flags /\ 0 \in Int
    OBVIOUS
  <2> QED BY <1>1, <2>1, NewGroupIs
<1>3. Apart(0, x) = Result(r, c)
  BY DEF Apart
<1> HIDE DEF x, g
<1>4. groups \in Seq(Groups) /\ Len(groups) = 0
  BY EmptySeq
<1>5. IsOnly(gs, g)
  <2>1. g \in Groups
    BY <1>2 DEF IsNew
  <2> QED BY <1>4, <2>1, OnlyIs
<1> HIDE DEF gs
<1>16. gs \in Seq(Groups) /\ Len(gs) = 1 /\ gs[1] = g
  BY <1>5 DEF IsOnly
<1>6. /\ gs[1].first_pcr = x.pcr /\ gs[1].first_offset = x.offset /\ gs[1].pcr_offset = 0
      /\ Last(gs[1].values) = Zero /\ EndOffset(gs[1]) = x.offset
      /\ Entry(file, x.pcr, x.offset) /\ Seen(file, gs[1], Zero)
  BY <1>2, <1>16 DEF IsNew
<1>7. Shaped(file, gs)
  <2>1. \A k \in 1 .. Len(gs) : k = 1
    BY <1>16
  <2> QED BY <1>16, <1>6, <2>1 DEF Shaped
<1>8. /\ Windows(file, gs, c) /\ c.group = 1 /\ Last(c.pending) = Zero
      /\ Ends(gs, c, 1) = x.offset
  <2>1. 1 \in 1 .. Len(gs)
    BY <1>16
  <2> QED BY <1>6, <1>7, <2>1, UseIs
<1>9. Ordered(gs, c) /\ Timed(file, gs, guessed)
  <2>1. 1 .. Len(gs) - 1 = {} /\ 2 .. Len(gs) = {}
    BY <1>16
  <2> QED BY <2>1 DEF Ordered, Timed
<1> HIDE DEF c
<1>10. Placed(file, gs, c, pos + 1)
  <2>1. x.pcr - (gs[c.group].first_pcr + Last(c.pending).pcr) = 0
    BY <1>1, <1>6, <1>8 DEF Zero
  <2>2. x.pcr - (gs[c.group].first_pcr + Last(c.pending).pcr) \in 0 .. Tenth
    BY <2>1, Numbers
  <2>3. Ends(gs, c, c.group) <= x.offset
    BY <1>1, <1>8
  <2> QED BY <1>1, <2>2, <2>3 DEF Placed, x
<1>11. Fronted(file, gs, pos + 1)
  <2>1. ASSUME pos + 1 < Len(file) PROVE x.offset <= file[(pos + 1) + 1].offset
    <3>1. (pos + 1) + 1 \in 1 .. Len(file)
      BY <2>1 DEF FileOK
    <3>2. file[(pos + 1) + 1].offset \in Nat
      BY <3>1, InFile
    <3> QED BY <1>1, <2>1, <3>2
  <2>2. mode # "pushing" => x.offset = file[1].offset
    BY DEF Fronted, x
  <2>3. gs # <<>>
    BY <1>16, EmptySeq
  <2>4. gs[1].pcr_offset \in Nat
    BY <1>6
  <2> QED BY <1>6, <2>1, <2>2, <2>3, <2>4 DEF Fronted
<1>12. Main(file, gs, c, pos + 1, guessed)
  BY <1>7, <1>8, <1>9, <1>10, <1>11 DEF Main
<1>13. Typed(c)
  BY <1>8, TypedIs
<1>14. Done(r, gs, c, Len(gs))
  BY <1>16, <1>13, ReevaluatedIs
<1> HIDE DEF r
<1>15. Main(file, r, c, pos + 1, guessed \/ Wraps(r))
  BY <1>12, <1>14, ReevaluatedMain
<1> QED BY <1>3, <1>15 DEF Result, x

\* No group is the window's.
LEMMA FoundIs ==
  ASSUME FileOK(file), pos \in Nat, pos < Len(file), Main(file, groups, current, pos, guessed),
         current.group = 0
  PROVE  Main(file, Found(file[pos + 1]).groups, Found(file[pos + 1]).current, pos + 1,
              guessed \/ Wraps(Found(file[pos + 1]).groups))
<1> DEFINE x == file[pos + 1]
           within(g) == x.offset <= EndOffset(g)
           continues(g) == "closed" \notin g.flags /\ x.pcr - EndPcr(g) \in 0 .. Tenth
           stops == {j \in 1 .. Len(groups) :
                       x.offset < groups[j].first_offset \/ within(groups[j]) \/ continues(groups[j])}
           i == LeastOf(stops)
           n == Len(groups)
<1>1. /\ Shaped(file, groups) /\ Windows(file, groups, current) /\ Ordered(groups, current)
      /\ Fronted(file, groups, pos) /\ groups \in Seq(Groups)
  BY DEF Main, Shaped
<1>2. n \in Nat /\ x.pcr \in Nat /\ x.offset \in Nat
  BY <1>1, LenProperties, NextPcr
<1>3. Found(x) = IF stops = {} THEN Apart(n, x)
                 ELSE IF x.offset < groups[i].first_offset THEN Apart(i - 1, x)
                 ELSE IF within(groups[i]) THEN Result(groups, current)
                 ELSE Result(groups, Use(groups, i))
  BY DEF Found
<1>4. ASSUME NEW j \in 1 .. n PROVE EndOffset(groups[j]) \in Nat /\ groups[j].first_offset \in Nat
  <2>1. groups[j] \in Groups
    BY <1>1, ShapedGroup
  <2>2. groups[j].first_offset \in Nat /\ Last(groups[j].values).offset \in Nat
    BY <2>1, GroupFields
  <2> QED BY <2>2 DEF EndOffset
<1>5. ASSUME NEW j \in 1 .. n, j \notin stops PROVE EndOffset(groups[j]) < x.offset
  <2>1. ~ (x.offset <= EndOffset(groups[j]))
    BY <1>5
  <2> HIDE DEF x
  <2> QED BY <1>2, <1>4, <2>1
<1>6. stops # {} => i \in stops /\ \A j \in stops : i <= j
  <2>1. stops \in SUBSET Nat
    OBVIOUS
  <2> HIDE DEF stops
  <2> QED BY <2>1, LeastExists
<1> HIDE DEF i
<1>7. CASE stops = {} /\ n = 0
  <2>1. groups = <<>>
    BY <1>1, <1>7, EmptySeq
  <2>2. Found(x) = Apart(0, x)
    BY <1>3, <1>7
  <2> HIDE DEF stops
  <2> QED BY <1>1, <2>1, <2>2, FirstIs
<1>8. CASE stops = {} /\ n # 0
  <2>1. n \in 1 .. n /\ n \notin stops
    BY <1>2, <1>8
  <2>2. EndOffset(groups[n]) < x.offset
    BY <1>5, <2>1
  <2>3. ~ (n < Len(groups))
    BY <1>2
  <2>4. Found(x) = Apart(n, x)
    BY <1>3, <1>8
  <2> HIDE DEF stops
  <2> QED BY <2>1, <2>2, <2>3, <2>4, ApartIs
<1>9. CASE stops # {} /\ x.offset < groups[i].first_offset
  <2>1. i \in 1 .. n
    BY <1>6, <1>9
  <2>2. i # 1
    <3>1. groups # <<>>
      BY <1>1, <2>1, EmptySeq
    <3>2. groups[1].first_offset <= x.offset
      BY <1>1, <3>1 DEF Fronted
    <3>3. i = 1 => FALSE
      <4> HIDE DEF x
      <4> QED BY <1>2, <1>4, <1>9, <2>1, <3>2
    <3> QED BY <3>3
  <2>3. i - 1 \in 1 .. n /\ i - 1 < n /\ (i - 1) + 1 = i /\ ~ (i <= i - 1)
    BY <1>2, <2>1, <2>2
  <2>4. EndOffset(groups[i - 1]) < x.offset
    BY <1>5, <1>6, <1>9, <2>3
  <2>5. Found(x) = Apart(i - 1, x)
    BY <1>3, <1>9
  <2> HIDE DEF stops
  <2> QED BY <1>9, <2>3, <2>4, <2>5, ApartIs
<1>10. CASE stops # {} /\ ~ (x.offset < groups[i].first_offset) /\ within(groups[i])
  <2>1. Found(x) = Result(groups, current)
    BY <1>3, <1>10
  <2>2. i \in 1 .. n
    BY <1>6, <1>10
  <2>3. groups # <<>>
    BY <1>1, <2>2, EmptySeq
  <2>4. Main(file, groups, current, pos + 1, guessed)
    BY <2>3, KeptIs
  <2>5. Main(file, groups, current, pos + 1, guessed \/ Wraps(groups))
    BY <2>4, MainGuess
  <2> QED BY <2>1, <2>5 DEF Result
<1>11. CASE stops # {} /\ ~ (x.offset < groups[i].first_offset) /\ ~ within(groups[i])
  <2>1. Found(x) = Result(groups, Use(groups, i))
    BY <1>3, <1>11
  <2>2. i \in 1 .. n /\ continues(groups[i])
    BY <1>6, <1>11
  <2>3. EndOffset(groups[i]) <= x.offset
    <3>1. ~ (x.offset <= EndOffset(groups[i]))
      BY <1>11
    <3> HIDE DEF x
    <3> QED BY <1>2, <1>4, <2>2, <3>1
  <2>4. Main(file, groups, Use(groups, i), pos + 1, guessed)
    BY <2>2, <2>3, TakenIs
  <2>5. Main(file, groups, Use(groups, i), pos + 1, guessed \/ Wraps(groups))
    BY <2>4, MainGuess
  <2> QED BY <2>1, <2>5 DEF Result
<1> QED BY <1>7, <1>8, <1>9, <1>10, <1>11

\* An observation keeps what is known, unless the window comes into the next group.
LEMMA RecordedIs ==
  ASSUME FileOK(file), pos \in Nat, pos < Len(file), Main(file, groups, current, pos, guessed),
         ~ Overruns(file[pos + 1])
  PROVE  Main(file, Recorded(file[pos + 1]).groups, Recorded(file[pos + 1]).current, pos + 1,
              guessed \/ Wraps(Recorded(file[pos + 1]).groups))
<1> DEFINE x == file[pos + 1]
           since == x.pcr - groups[current.group].first_pcr - Last(current.pending).pcr
<1>1. CASE current.group = 0
  <2>1. Recorded(x) = Found(x)
    BY <1>1, Zenon DEF Recorded
  <2> QED BY <1>1, <2>1, FoundIs
<1>2. CASE current.group # 0 /\ since \notin 0 .. Half
  <2>1. since # 0
    <3>1. 0 \in 0 .. Half
      BY Numbers
    <3> QED BY <1>2, <3>1
  <2>2. Recorded(x) = Contiguous(x)
    BY <1>2, <2>1, Zenon DEF Recorded
  <2>3. Main(file, Contiguous(x).groups, Contiguous(x).current, pos + 1, guessed)
    BY <1>2, ContiguousIs
  <2> QED BY <2>2, <2>3, MainGuess
<1>3. CASE current.group # 0 /\ since = 0
  <2>1. since \in 0 .. Half
    BY <1>3, Numbers
  <2>2. Recorded(x) = Result(groups, current)
    BY <1>3, <2>1, Zenon DEF Recorded
  <2>3. /\ Shaped(file, groups) /\ Windows(file, groups, current) /\ groups \in Seq(Groups)
    BY DEF Main, Shaped
  <2>4. current.group \in 1 .. Len(groups) /\ Last(current.pending).pcr \in Nat
    BY <1>3, <2>3, WindowIs
  <2>5. groups # <<>>
    BY <2>3, <2>4, EmptySeq
  <2>6. x.pcr = groups[current.group].first_pcr + Last(current.pending).pcr
    <3>1. x.pcr \in Nat /\ groups[current.group].first_pcr \in Nat
      BY <2>3, <2>4, NextPcr, ShapedGroup
    <3> HIDE DEF x
    <3> QED BY <1>3, <2>4, <3>1
  <2>7. Main(file, groups, current, pos + 1, guessed)
    BY <2>5, <2>6, KeptIs
  <2>8. Main(file, groups, current, pos + 1, guessed \/ Wraps(groups))
    BY <2>7, MainGuess
  <2> QED BY <2>2, <2>8 DEF Result
<1>4. CASE current.group # 0 /\ since \in 0 .. Half /\ since # 0
  <2>1. Recorded(x) = Windowed(x)
    BY <1>4, Zenon DEF Recorded
  <2>2. Main(file, Windowed(x).groups, Windowed(x).current, pos + 1, guessed)
    BY <1>4, WindowedIs
  <2> QED BY <2>1, <2>2, MainGuess
<1> QED BY <1>1, <1>2, <1>3, <1>4
-----------------------------------------------------------------------------
(* The reader comes to another place *)

\* The first PCR at a byte or behind it.
LEMMA AtIs ==
  ASSUME FileOK(file), NEW o \in Int
  PROVE  At(o) \in 0 .. Len(file) /\ (At(o) < Len(file) => o <= file[At(o) + 1].offset)
<1> DEFINE S == {i \in 1 .. Len(file) : file[i].offset < o}
           T == {i \in 1 .. Len(file) + 1 : i = Len(file) + 1 \/ o <= file[i].offset}
           n == LeastOf(T)
<1>1. Len(file) \in Nat /\ \A i \in 1 .. Len(file) : file[i].offset \in Nat
  BY DEF FileOK
<1>2. n \in T /\ \A i \in T : n <= i
  <2>1. Len(file) + 1 \in T /\ T \in SUBSET Nat
    BY <1>1
  <2> HIDE DEF T
  <2> QED BY <2>1, LeastExists
<1> HIDE DEF n
<1>3. n \in 1 .. Len(file) + 1 /\ n - 1 \in Nat /\ n - 1 <= Len(file)
  BY <1>1, <1>2
<1>4. S = 1 .. n - 1
  <2>1. ASSUME NEW i \in S PROVE i \in 1 .. n - 1
    <3>1. CASE n = Len(file) + 1
      BY <1>1, <1>3, <2>1, <3>1
    <3>2. CASE n # Len(file) + 1
      <4>1. n \in 1 .. Len(file) /\ o <= file[n].offset
        BY <1>1, <1>2, <1>3, <3>2
      <4>2. file[i].offset < file[n].offset
        BY <1>1, <2>1, <4>1
      <4>3. i < n
        BY <2>1, <4>1, <4>2, InFile
      <4> QED BY <1>3, <2>1, <4>3
    <3> QED BY <3>1, <3>2
  <2>2. ASSUME NEW i \in 1 .. n - 1 PROVE i \in S
    <3>1. i \in 1 .. Len(file) /\ i \in 1 .. Len(file) + 1 /\ ~ (n <= i)
      BY <1>1, <1>3
    <3>2. i \notin T
      BY <1>2, <3>1
    <3>3. ~ (o <= file[i].offset) /\ file[i].offset \in Nat
      BY <1>1, <3>1, <3>2
    <3> QED BY <3>1, <3>3
  <2> QED BY <2>1, <2>2
<1>5. Cardinality(1 .. n - 1) = n - 1
  <2>1. 1 \in Int /\ n - 1 \in Int
    BY <1>3
  <2>2. Cardinality(1 .. n - 1) = IF 1 > n - 1 THEN 0 ELSE (n - 1) - 1 + 1
    BY <2>1, FS_Interval
  <2> QED BY <1>3, <2>2
<1>6. At(o) = n - 1
  BY <1>4, <1>5 DEF At
<1>7. ASSUME n - 1 < Len(file) PROVE o <= file[(n - 1) + 1].offset
  <2>1. (n - 1) + 1 = n /\ n # Len(file) + 1
    BY <1>1, <1>3, <1>7
  <2> QED BY <1>2, <2>1
<1> QED BY <1>1, <1>3, <1>6, <1>7

Points == [offset : Nat, time : Int]

\* Between two points a byte is not before the first one, and not behind the other for a time
\* that is not.
LEMMA OnLineIs ==
  ASSUME NEW q \in Int, NEW a \in Points, NEW b \in Points
  PROVE  /\ OnLine(q, a, b) \in Nat /\ a.offset <= OnLine(q, a, b)
         /\ a.time <= q /\ q <= b.time /\ a.offset <= b.offset => OnLine(q, a, b) <= b.offset
<1> DEFINE s == Scale(q - a.time, b.offset - a.offset, b.time - a.time)
<1>1. a.offset \in Nat /\ a.time \in Int /\ b.offset \in Nat /\ b.time \in Int
  BY DEF Points
<1>2. s \in Nat
  <2>1. q - a.time \in Int /\ b.offset - a.offset \in Int /\ b.time - a.time \in Int
    BY <1>1
  <2> QED BY <2>1, ScaleType
<1>3. OnLine(q, a, b) = a.offset + (IF a.time = b.time THEN 0 ELSE s)
  BY DEF OnLine
<1>4. ASSUME a.time <= q, q <= b.time, a.offset <= b.offset, a.time # b.time
      PROVE  s <= b.offset - a.offset
  <2> DEFINE x == q - a.time
             y == b.offset - a.offset
             z == b.time - a.time
  <2>1. x \in Nat /\ y \in Nat /\ z \in Nat \ {0} /\ x <= z
    BY <1>1, <1>4
  <2>2. s = Scale(x, y, z)
    OBVIOUS
  <2> HIDE DEF x, y, z, s
  <2>3. x * y <= z * y /\ x * y \in Nat /\ z * y = y * z
    BY <2>1, TimesUp
  <2>4. (x * y) \div z <= y
    BY <2>1, <2>3, DivAtMost
  <2>5. s = (x * y) \div z
    BY <2>1, <2>2, ScaleIs
  <2> QED BY <2>4, <2>5 DEF y
<1> HIDE DEF s
<1> QED BY <1>1, <1>2, <1>3, <1>4

\* The group where the search for a time ends.
Stop(gs, q) ==
  LeastOf({i \in 1 .. Len(gs) : gs[i].pcr_offset > q \/ i = Len(gs) \/ EndTime(gs[i]) >= q})

Between(gs, q) == Stop(gs, q) > 1 /\ (gs[Stop(gs, q)].pcr_offset > q \/ Stop(gs, q) = Len(gs))

LEMMA TsToOffsetIs ==
  ASSUME NEW gs, NEW c, NEW q
  PROVE  /\ InCurrent(gs, c, q) =>
              TsToOffset(gs, c, q) = OnLine(q, StartOf(gs, c.group), EndOf(gs, c, c.group))
         /\ ~ InCurrent(gs, c, q) /\ Between(gs, q) =>
              TsToOffset(gs, c, q) =
                OnLine(q, [offset |-> EndOffset(gs[Stop(gs, q) - 1]), time |-> EndTime(gs[Stop(gs, q) - 1])],
                       StartOf(gs, Stop(gs, q)))
         /\ ~ InCurrent(gs, c, q) /\ ~ Between(gs, q) =>
              TsToOffset(gs, c, q) = OnLine(q, StartOf(gs, Stop(gs, q)), EndOf(gs, c, Stop(gs, q)))
<1>1. CASE InCurrent(gs, c, q)
  BY <1>1, Zenon DEF TsToOffset
<1>2. CASE ~ InCurrent(gs, c, q) /\ Between(gs, q)
  BY <1>2, Zenon DEF TsToOffset, Between, Stop
<1>3. CASE ~ InCurrent(gs, c, q) /\ ~ Between(gs, q)
  BY <1>3, Zenon DEF TsToOffset, Between, Stop
<1> QED BY <1>1, <1>2, <1>3

LEMMA StopIs ==
  ASSUME NEW gs \in Seq(Groups), gs # <<>>, NEW q
  PROVE  /\ Stop(gs, q) \in 1 .. Len(gs)
         /\ gs[Stop(gs, q)].pcr_offset > q \/ Stop(gs, q) = Len(gs) \/ EndTime(gs[Stop(gs, q)]) >= q
         /\ \A i \in 1 .. Len(gs) : i < Stop(gs, q) =>
               ~ (gs[i].pcr_offset > q) /\ i # Len(gs) /\ ~ (EndTime(gs[i]) >= q)
<1> DEFINE S == {i \in 1 .. Len(gs) : gs[i].pcr_offset > q \/ i = Len(gs) \/ EndTime(gs[i]) >= q}
<1>1. Len(gs) \in Nat \ {0} /\ Len(gs) \in S
  BY LenProperties, EmptySeq
<1>2. S \in SUBSET Nat /\ Stop(gs, q) = LeastOf(S)
  BY DEF Stop
<1>3. Stop(gs, q) \in S /\ \A i \in S : Stop(gs, q) <= i
  <2> HIDE DEF S
  <2> QED BY <1>1, <1>2, LeastExists
<1>4. ASSUME NEW i \in 1 .. Len(gs), i < Stop(gs, q) PROVE i \notin S
  BY <1>1, <1>3, <1>4
<1> QED BY <1>3, <1>4

\* Where groups start and end.
FromTo(gs, c, i) ==
  /\ StartOf(gs, i) \in Points /\ EndOf(gs, c, i) \in Points
  /\ StartOf(gs, i).offset = gs[i].first_offset /\ StartOf(gs, i).time = gs[i].pcr_offset
  /\ EndOf(gs, c, i).offset = Ends(gs, c, i) /\ gs[i].first_offset <= Ends(gs, c, i)

LEMMA GroupPoints ==
  ASSUME NEW f, FileOK(f), NEW gs, Shaped(f, gs), NEW c, Windows(f, gs, c), NEW i \in 1 .. Len(gs)
  PROVE  /\ FromTo(gs, c, i)
         /\ [offset |-> EndOffset(gs[i]), time |-> EndTime(gs[i])] \in Points
         /\ gs[i].first_offset <= EndOffset(gs[i])
<1> DEFINE v == IF c.group = i THEN Last(c.pending) ELSE Last(gs[i].values)
<1>1. gs[i] \in Groups /\ gs[i].first_offset \in Nat /\ gs[i].pcr_offset \in Int
  BY ShapedGroup
<1>2. Last(gs[i].values).pcr \in Nat /\ Last(gs[i].values).offset \in Nat
  BY <1>1, GroupFields
<1>3. v.pcr \in Nat /\ v.offset \in Nat
  <2>1. CASE c.group = i
    <3>1. c.group # 0
      BY <2>1
    <3> QED BY <2>1, <3>1, WindowIs
  <2>2. CASE c.group # i
    BY <1>2, <2>2
  <2> QED BY <2>1, <2>2
<1>4. EndOf(gs, c, i) = [offset |-> gs[i].first_offset + v.offset, time |-> gs[i].pcr_offset + v.pcr]
  BY DEF EndOf
<1> HIDE DEF v
<1>5. EndOf(gs, c, i) \in Points /\ EndOf(gs, c, i).offset = Ends(gs, c, i)
      /\ gs[i].first_offset <= Ends(gs, c, i)
  <2>1. gs[i].first_offset + v.offset \in Nat /\ gs[i].pcr_offset + v.pcr \in Int
        /\ gs[i].first_offset <= gs[i].first_offset + v.offset
    BY <1>1, <1>3
  <2>2. Ends(gs, c, i) = gs[i].first_offset + v.offset
    BY <1>4 DEF Ends
  <2> QED BY <1>4, <2>1, <2>2 DEF Points, Ends
<1>6. /\ StartOf(gs, i) \in Points
      /\ StartOf(gs, i).offset = gs[i].first_offset /\ StartOf(gs, i).time = gs[i].pcr_offset
  BY <1>1 DEF StartOf, Points
<1>7. EndOffset(gs[i]) \in Nat /\ EndTime(gs[i]) \in Int /\ gs[i].first_offset <= EndOffset(gs[i])
  BY <1>1, <1>2 DEF EndOffset, EndTime
<1> QED BY <1>5, <1>6, <1>7 DEF Points, FromTo

\* No seek goes before the first group.
LEMMA SeekFront ==
  ASSUME NEW f, FileOK(f), NEW gs, Shaped(f, gs), gs # <<>>, NEW c, Windows(f, gs, c), Ordered(gs, c),
         NEW q \in Nat
  PROVE  TsToOffset(gs, c, q) \in Nat /\ gs[1].first_offset <= TsToOffset(gs, c, q)
<1> DEFINE k == Stop(gs, q)
<1>1. gs \in Seq(Groups) /\ Spaced(gs)
  BY OrderedSpaced DEF Shaped
<1>2. /\ Len(gs) \in Nat \ {0} /\ k \in 1 .. Len(gs) /\ 1 \in 1 .. Len(gs)
      /\ \A i \in 1 .. Len(gs) : gs[i].first_offset \in Nat
  <2>1. Len(gs) \in Nat \ {0}
    BY <1>1, EmptySeq, LenProperties
  <2>2. k \in 1 .. Len(gs)
    BY <1>1, StopIs
  <2> QED BY <2>1, <2>2, ShapedGroup
<1>3. ASSUME NEW i \in 1 .. Len(gs) PROVE gs[1].first_offset <= gs[i].first_offset
  <2> DEFINE x == [j \in 1 .. Len(gs) |-> gs[j].first_offset]
  <2>1. Firsts(gs)
    BY <1>1, SpacedFirsts
  <2>2. \A j \in 1 .. i : x[j] \in Int
    BY <1>2
  <2>3. ASSUME NEW j \in 1 .. i, j < i PROVE x[j] <= x[j + 1]
    <3>1. j \in 1 .. Len(gs) - 1 /\ j \in 1 .. Len(gs) /\ j + 1 \in 1 .. Len(gs)
      BY <1>2, <2>3
    <3>2. gs[j].first_offset < gs[j + 1].first_offset
      BY <2>1, <3>1 DEF Firsts
    <3>3. x[j] = gs[j].first_offset /\ x[j + 1] = gs[j + 1].first_offset
      BY <3>1
    <3> HIDE DEF x
    <3> QED BY <1>2, <3>1, <3>2, <3>3
  <2>4. x[1] = gs[1].first_offset /\ x[i] = gs[i].first_offset
    BY <1>2
  <2>5. 1 \in Nat /\ i \in Nat /\ 1 <= i
    BY <1>2
  <2> HIDE DEF x
  <2>6. x[1] <= x[i]
    BY <2>2, <2>3, <2>5, Climbs
  <2> QED BY <2>4, <2>6
<1>4. ASSUME NEW i \in 1 .. Len(gs), NEW a \in Points, NEW b \in Points,
             gs[i].first_offset <= a.offset, TsToOffset(gs, c, q) = OnLine(q, a, b)
      PROVE  TsToOffset(gs, c, q) \in Nat /\ gs[1].first_offset <= TsToOffset(gs, c, q)
  <2>3. q \in Int /\ a.offset \in Nat
    BY DEF Points
  <2>1. OnLine(q, a, b) \in Nat /\ a.offset <= OnLine(q, a, b)
    BY <2>3, OnLineIs
  <2>2. gs[1].first_offset <= gs[i].first_offset /\ gs[i].first_offset \in Nat
        /\ gs[1].first_offset \in Nat
    BY <1>2, <1>3
  <2> QED BY <1>4, <2>1, <2>2, <2>3
<1>8. \A i \in 1 .. Len(gs) :
        /\ StartOf(gs, i) \in Points /\ EndOf(gs, c, i) \in Points
        /\ gs[i].first_offset <= StartOf(gs, i).offset
  <2>1. SUFFICES ASSUME NEW i \in 1 .. Len(gs)
                 PROVE  /\ StartOf(gs, i) \in Points /\ EndOf(gs, c, i) \in Points
                        /\ gs[i].first_offset <= StartOf(gs, i).offset
    OBVIOUS
  <2>2. /\ StartOf(gs, i) \in Points /\ EndOf(gs, c, i) \in Points
        /\ StartOf(gs, i).offset = gs[i].first_offset /\ gs[i].first_offset \in Nat
    BY <1>2, GroupPoints DEF FromTo
  <2> QED BY <2>2
<1> HIDE DEF k
<1>5. CASE InCurrent(gs, c, q)
  <2>1. c.group \in 1 .. Len(gs)
    BY <1>5, WindowIs DEF InCurrent
  <2>2. TsToOffset(gs, c, q) = OnLine(q, StartOf(gs, c.group), EndOf(gs, c, c.group))
    BY <1>5, TsToOffsetIs
  <2>3. /\ StartOf(gs, c.group) \in Points /\ EndOf(gs, c, c.group) \in Points
        /\ gs[c.group].first_offset <= StartOf(gs, c.group).offset
    BY <1>8, <2>1
  <2> QED BY <1>4, <2>1, <2>2, <2>3
<1>6. CASE ~ InCurrent(gs, c, q) /\ Between(gs, q)
  <2> DEFINE e == [offset |-> EndOffset(gs[k - 1]), time |-> EndTime(gs[k - 1])]
  <2>1. k > 1
    BY <1>6 DEF Between, k
  <2>2. k - 1 \in 1 .. Len(gs)
    BY <1>2, <2>1
  <2>3. TsToOffset(gs, c, q) = OnLine(q, e, StartOf(gs, k))
    BY <1>6, TsToOffsetIs DEF k
  <2>4. e \in Points /\ e.offset = EndOffset(gs[k - 1]) /\ gs[k - 1].first_offset <= EndOffset(gs[k - 1])
        /\ StartOf(gs, k) \in Points
    BY <1>2, <2>2, GroupPoints DEF FromTo
  <2> HIDE DEF e
  <2>5. gs[k - 1].first_offset <= e.offset
    BY <2>4
  <2> QED BY <1>4, <2>2, <2>3, <2>4, <2>5
<1>7. CASE ~ InCurrent(gs, c, q) /\ ~ Between(gs, q)
  <2>1. TsToOffset(gs, c, q) = OnLine(q, StartOf(gs, k), EndOf(gs, c, k))
    BY <1>7, TsToOffsetIs DEF k
  <2>2. /\ StartOf(gs, k) \in Points /\ EndOf(gs, c, k) \in Points
        /\ gs[k].first_offset <= StartOf(gs, k).offset
    BY <1>2, <1>8
  <2> QED BY <1>2, <1>4, <2>1, <2>2
<1> QED BY <1>5, <1>6, <1>7

\* What is known of the groups when the window is closed.
LEMMA ClosedMain ==
  ASSUME NEW f, FileOK(f), NEW gs, NEW c, NEW p, NEW guess, Main(f, gs, c, p, guess), NEW m
  PROVE  /\ Shaped(f, Closed(gs, c)) /\ Windows(f, Closed(gs, c), NoCurrent)
         /\ Ordered(Closed(gs, c), NoCurrent) /\ Placed(f, Closed(gs, c), NoCurrent, m)
         /\ Timed(f, Closed(gs, c), guess) /\ Fronted(f, Closed(gs, c), p)
         /\ Same(Closed(gs, c), gs) /\ NoCurrent.group = 0
<1> DEFINE r == Closed(gs, c)
<1>1. /\ Shaped(f, gs) /\ Windows(f, gs, c) /\ Ordered(gs, c) /\ Fronted(f, gs, p)
      /\ Timed(f, gs, guess) /\ gs \in Seq(Groups)
  BY DEF Main, Shaped
<1>2. Shaped(f, r) /\ Same(r, gs) /\ Spaced(r)
  BY <1>1, ClosedIs
<1>3. r \in Seq(Groups)
  BY <1>2 DEF Shaped
<1> HIDE DEF r
<1>4. NoCurrent.group = 0
  BY DEF NoCurrent
<1>5. Windows(f, r, NoCurrent)
  <2>1. NoCurrent \in Currents
    <3>1. <<>> \in Seq(Obs) /\ Zero \in Obs /\ 0 \in Nat
      BY EmptySeq DEF Zero, Obs
    <3> QED BY <3>1 DEF NoCurrent, Currents
  <2> QED BY <1>4, <2>1 DEF Windows
<1>6. Ordered(r, NoCurrent)
  <2>1. ASSUME NEW i \in 1 .. Len(r) - 1 PROVE Ends(r, NoCurrent, i) < r[i + 1].first_offset
    <3>1. i # 0
      OBVIOUS
    <3>2. Ends(r, NoCurrent, i) = EndOffset(r[i])
      BY <1>4, <3>1 DEF Ends, EndOf, EndOffset
    <3>3. EndOffset(r[i]) < r[i + 1].first_offset
      BY <1>2 DEF Spaced
    <3> QED BY <3>2, <3>3
  <2> QED BY <2>1 DEF Ordered
<1>7. Placed(f, r, NoCurrent, m)
  BY <1>4 DEF Placed
<1>8. Timed(f, r, guess)
  BY <1>1, <1>2, TimedSame
<1>9. Fronted(f, r, p)
  BY <1>1, <1>2, <1>3, SameFronted
<1> QED BY <1>2, <1>4, <1>5, <1>6, <1>7, <1>8, <1>9 DEF r
-----------------------------------------------------------------------------
(* The steps *)

LEMMA InitInv == Init => Inv
<1> SUFFICES ASSUME Init PROVE Inv
  OBVIOUS
<1>1. /\ file \in Files /\ groups = <<>> /\ current = NoCurrent /\ pos = 0 /\ seen = 0 /\ chunk = 0
      /\ overran = FALSE /\ guessed = FALSE /\ mode \in {"head", "pushing"}
  BY DEF Init
<1>2. FileOK(file)
  BY <1>1, FilesAre
<1>3. groups \in Seq(Groups) /\ Len(groups) = 0
  BY <1>1, EmptySeq
<1>4. 1 .. Len(groups) = {} /\ 1 .. Len(groups) - 1 = {} /\ 2 .. Len(groups) = {}
  BY <1>3
<1>5. current \in Currents /\ current.group = 0
  <2>1. <<>> \in Seq(Obs) /\ Zero \in Obs /\ 0 \in Nat
    BY EmptySeq DEF Zero, Obs
  <2> QED BY <1>1, <2>1 DEF NoCurrent, Currents
<1>6. /\ Shaped(file, groups) /\ Ordered(groups, current) /\ Timed(file, groups, guessed)
  BY <1>3, <1>4 DEF Shaped, Ordered, Timed
<1>7. Windows(file, groups, current) /\ Placed(file, groups, current, pos) /\ Fronted(file, groups, pos)
  BY <1>1, <1>5 DEF Windows, Placed, Fronted
<1>8. Reader
  <2>1. Len(file) \in Nat
    BY <1>2 DEF FileOK
  <2> QED BY <1>1, <2>1 DEF Reader
<1> QED BY <1>1, <1>6, <1>7, <1>8 DEF Inv, Main

LEMMA ReadInv ==
  ASSUME Inv, Read, mode' = mode, ~ overran'
  PROVE  /\ Main(file, groups, current, pos, guessed)'
         /\ pos' \in 0 .. Len(file) /\ pos' = pos + 1 /\ pos \in Nat
         /\ (mode # "pushing" => groups' # <<>>)
<1> DEFINE x == file[pos + 1]
           r == Recorded(x)
           gg == guessed \/ Wraps(r.groups)
<1>1. /\ pos < Len(file) /\ pos' = pos + 1 /\ groups' = r.groups /\ current' = r.current
      /\ file' = file
  BY DEF Read
<1>2. ~ overran /\ ~ Overruns(x)
  BY DEF Read
<1>3. /\ file \in Files /\ Main(file, groups, current, pos, guessed) /\ Reader
  BY <1>2 DEF Inv
<1>4. FileOK(file) /\ Len(file) \in Nat /\ pos \in Nat /\ pos + 1 \in 0 .. Len(file)
  <2>1. FileOK(file) /\ pos \in 0 .. Len(file)
    BY <1>3, FilesAre DEF Reader
  <2>2. Len(file) \in Nat
    BY <2>1 DEF FileOK
  <2> QED BY <1>1, <2>1, <2>2
<1>5. Main(file, r.groups, r.current, pos + 1, guessed \/ Wraps(r.groups))
  BY <1>1, <1>2, <1>3, <1>4, RecordedIs
<1>6. guessed \/ Wraps(r.groups) => guessed'
  <2>1. guessed' = (guessed \/ Wraps(groups'))
    BY DEF Read
  <2> HIDE DEF r
  <2> QED BY <1>1, <2>1
<1> HIDE DEF r
<1>7. /\ Shaped(file, r.groups) /\ Windows(file, r.groups, r.current) /\ Ordered(r.groups, r.current)
      /\ Placed(file, r.groups, r.current, pos + 1) /\ Fronted(file, r.groups, pos + 1)
  BY <1>5 DEF Main
<1>8. Timed(file, r.groups, guessed')
  <2>1. SUFFICES ASSUME NEW k \in 2 .. Len(r.groups)
                 PROVE  After(file, r.groups[k - 1], r.groups[k], guessed')
    BY DEF Timed
  <2>2. After(file, r.groups[k - 1], r.groups[k], guessed \/ Wraps(r.groups))
    BY <1>5 DEF Main, Timed
  <2> QED BY <1>6, <2>2, Zenon DEF After
<1>9. Fronted(file, groups, pos)'
  BY <1>1, <1>7 DEF Fronted
<1>10. Main(file, groups, current, pos, guessed)'
  BY <1>1, <1>7, <1>8, <1>9 DEF Main
<1>11. mode # "pushing" => groups' # <<>>
  <2>1. mode # "pushing" /\ r.groups = <<>> => pos + 1 = 0
    BY <1>7 DEF Fronted
  <2> QED BY <1>1, <1>4, <2>1
<1> QED BY <1>1, <1>4, <1>10, <1>11

LEMMA CloseInv ==
  ASSUME Inv, Close, ~ overran, UNCHANGED <<file, history>>
  PROVE  /\ Fronted(file, groups, pos)' => Main(file, groups, current, pos, guessed)'
         /\ groups' = <<>> <=> groups = <<>>
         /\ groups # <<>> => groups'[1].first_offset = groups[1].first_offset /\ groups'[1].pcr_offset \in Nat
<1> DEFINE r == Closed(groups, current)
<1>1. /\ file \in Files /\ Main(file, groups, current, pos, guessed) /\ FileOK(file)
      /\ file' = file /\ guessed' = guessed /\ groups' = r /\ current' = NoCurrent
      /\ groups \in Seq(Groups)
  BY FilesAre DEF Inv, Close, history, Main, Shaped
<1>2. /\ Shaped(file, r) /\ Windows(file, r, NoCurrent)
      /\ Ordered(r, NoCurrent) /\ Placed(file, r, NoCurrent, pos')
      /\ Timed(file, r, guessed) /\ Fronted(file, r, pos) /\ Same(r, groups)
  BY <1>1, ClosedMain
<1>3. r \in Seq(Groups)
  BY <1>2 DEF Shaped
<1> HIDE DEF r
<1>4. Fronted(file, groups, pos)' => Main(file, groups, current, pos, guessed)'
  BY <1>1, <1>2 DEF Main
<1>5. Len(r) = Len(groups) /\ Len(groups) \in Nat /\ (r = <<>> <=> groups = <<>>)
  <2>1. Len(r) = Len(groups) /\ Len(groups) \in Nat
    BY <1>1, <1>2, LenProperties DEF Same
  <2> QED BY <1>1, <1>3, <2>1, EmptySeq
<1>6. ASSUME groups # <<>> PROVE r[1].first_offset = groups[1].first_offset /\ r[1].pcr_offset \in Nat
  <2>1. 1 \in 1 .. Len(groups)
    BY <1>1, <1>5, <1>6, EmptySeq
  <2> QED BY <1>2, <1>5, <1>6, <2>1 DEF Same, Fronted
<1> QED BY <1>1, <1>4, <1>5, <1>6

LEMMA SizeIs == FileOK(file) => Size \in Nat
<1> SUFFICES ASSUME FileOK(file) PROVE Size \in Nat
  OBVIOUS
<1>1. Len(file) \in 1 .. Len(file)
  BY DEF FileOK
<1>2. file[Len(file)].offset \in Nat
  BY <1>1, InFile
<1> QED BY <1>2, Numbers DEF Size, Last

LEMMA ChunkStartIs ==
  ASSUME FileOK(file), NEW k \in Nat
  PROVE  ChunkStart(k) \in Int
<1>1. k * Chunk \in Nat /\ Size \in Nat
  BY Numbers, SizeIs, TimesUp
<1> HIDE DEF Size
<1> QED BY <1>1 DEF ChunkStart

\* Wherever the pull mode goes on, its first group is not behind it.
LEMMA FirstFronts ==
  ASSUME FileOK(file), NEW p \in 0 .. Len(file)
  PROVE  p < Len(file) => file[1].offset <= file[p + 1].offset
<1> SUFFICES ASSUME p < Len(file) PROVE file[1].offset <= file[p + 1].offset
  OBVIOUS
<1>1. 1 \in 1 .. Len(file) /\ p + 1 \in 1 .. Len(file) /\ 1 <= p + 1
  BY DEF FileOK
<1> QED BY <1>1, InFile

\* A seek goes on behind the byte that was found.
LEMMA SeekFronts ==
  ASSUME FileOK(file), NEW p \in 0 .. Len(file), NEW o \in Nat, NEW x \in Nat, x <= o,
         p < Len(file) => o <= file[p + 1].offset
  PROVE  p < Len(file) => x <= file[p + 1].offset
<1> SUFFICES ASSUME p < Len(file) PROVE x <= file[p + 1].offset
  OBVIOUS
<1>1. p + 1 \in 1 .. Len(file)
  BY DEF FileOK
<1>2. file[p + 1].offset \in Nat
  BY <1>1, InFile
<1> QED BY <1>2

LEMMA CloseEndHead ==
  ASSUME Inv, EndHead, ~ overran'
  PROVE  (Main(file, groups, current, pos, guessed) /\ Reader)'
<1>1. /\ mode = "head" /\ (seen = Enough \/ pos = Len(file)) /\ Close /\ mode' = "tail" /\ chunk' = 1
      /\ pos' = At(ChunkStart(1)) /\ UNCHANGED <<file, history>> /\ ~ overran /\ file' = file
  BY DEF EndHead, history
<1>2. /\ file \in Files /\ Main(file, groups, current, pos, guessed) /\ Reader /\ FileOK(file)
      /\ chunk \in Nat
  BY <1>1, FilesAre DEF Inv
<1>3. groups # <<>> /\ groups[1].first_offset = file[1].offset
  <2>1. /\ Fronted(file, groups, pos) /\ seen = pos /\ Len(file) # 0 /\ Enough # 0
    BY <1>1, <1>2, Numbers DEF Main, Reader, FileOK
  <2>2. pos # 0
    BY <1>1, <2>1
  <2> QED BY SMTT(30), <1>1, <2>1, <2>2 DEF Fronted
<1>4. pos' \in 0 .. Len(file) /\ 1 \in Nat
  BY <1>1, <1>2, ChunkStartIs, AtIs
<1>5. /\ Fronted(file, groups, pos)' => Main(file, groups, current, pos, guessed)'
      /\ groups' # <<>> /\ groups'[1].first_offset = file[1].offset /\ groups'[1].pcr_offset \in Nat
  BY <1>1, <1>3, CloseInv
<1>6. pos' < Len(file) => file[1].offset <= file[pos' + 1].offset
  BY <1>2, <1>4, FirstFronts
<1>7. Fronted(file, groups, pos)'
  BY <1>1, <1>5, <1>6 DEF Fronted
<1>8. Reader'
  BY <1>1, <1>4, <1>5 DEF Reader
<1> QED BY <1>5, <1>7, <1>8

LEMMA CloseNextChunk ==
  ASSUME Inv, NextChunk, ~ overran'
  PROVE  (Main(file, groups, current, pos, guessed) /\ Reader)'
<1>1. /\ mode = "tail" /\ Close /\ mode' = mode /\ chunk' = chunk + 1
      /\ pos' = At(ChunkStart(chunk + 1)) /\ UNCHANGED <<file, history>> /\ ~ overran /\ file' = file
  BY DEF NextChunk, history
<1>2. /\ file \in Files /\ Main(file, groups, current, pos, guessed) /\ Reader /\ FileOK(file)
      /\ chunk \in Nat
  BY <1>1, FilesAre DEF Inv
<1>3. groups # <<>> /\ groups[1].first_offset = file[1].offset /\ chunk + 1 \in Nat
  BY <1>1, <1>2 DEF Main, Reader, Fronted
<1>4. pos' \in 0 .. Len(file)
  BY <1>1, <1>2, <1>3, ChunkStartIs, AtIs
<1>5. /\ Fronted(file, groups, pos)' => Main(file, groups, current, pos, guessed)'
      /\ groups' # <<>> /\ groups'[1].first_offset = file[1].offset /\ groups'[1].pcr_offset \in Nat
  BY <1>1, <1>3, CloseInv
<1>6. pos' < Len(file) => file[1].offset <= file[pos' + 1].offset
  BY <1>2, <1>4, FirstFronts
<1>7. Fronted(file, groups, pos)'
  BY <1>1, <1>5, <1>6 DEF Fronted
<1>8. Reader'
  BY <1>1, <1>3, <1>4, <1>5 DEF Reader
<1> QED BY <1>5, <1>7, <1>8

LEMMA CloseEndScan ==
  ASSUME Inv, EndScan, ~ overran'
  PROVE  (Main(file, groups, current, pos, guessed) /\ Reader)'
<1>1. /\ mode = "tail" /\ Close /\ mode' = "streaming" /\ chunk' = chunk
      /\ pos' = 0 /\ UNCHANGED <<file, history>> /\ ~ overran /\ file' = file
  BY DEF EndScan, history
<1>2. /\ file \in Files /\ Main(file, groups, current, pos, guessed) /\ Reader /\ FileOK(file)
      /\ chunk \in Nat
  BY <1>1, FilesAre DEF Inv
<1>3. groups # <<>> /\ groups[1].first_offset = file[1].offset /\ chunk \in Nat
  BY <1>1, <1>2 DEF Main, Reader, Fronted
<1>4. pos' \in 0 .. Len(file)
  BY <1>1, <1>2 DEF FileOK
<1>5. /\ Fronted(file, groups, pos)' => Main(file, groups, current, pos, guessed)'
      /\ groups' # <<>> /\ groups'[1].first_offset = file[1].offset /\ groups'[1].pcr_offset \in Nat
  BY <1>1, <1>3, CloseInv
<1>6. pos' < Len(file) => file[1].offset <= file[pos' + 1].offset
  BY <1>2, <1>4, FirstFronts
<1>7. Fronted(file, groups, pos)'
  BY <1>1, <1>5, <1>6 DEF Fronted
<1>8. Reader'
  BY <1>1, <1>3, <1>4, <1>5 DEF Reader
<1> QED BY <1>5, <1>7, <1>8

LEMMA ClosePullSeek ==
  ASSUME Inv, NEW q \in Times, PullSeek(q), ~ overran'
  PROVE  (Main(file, groups, current, pos, guessed) /\ Reader)'
<1> DEFINE o == TsToOffset(groups', NoCurrent, q)
<1>1. /\ mode = "streaming" /\ Close /\ mode' = mode /\ chunk' = chunk
      /\ pos' = At(o) /\ UNCHANGED <<file, history>> /\ ~ overran /\ file' = file
      /\ groups' = Closed(groups, current)
  BY DEF PullSeek, history, Close
<1>2. /\ file \in Files /\ Main(file, groups, current, pos, guessed) /\ Reader /\ FileOK(file)
      /\ q \in Nat /\ chunk \in Nat
  BY <1>1, FilesAre, Numbers DEF Inv
<1>3. groups # <<>> /\ groups[1].first_offset = file[1].offset /\ chunk \in Nat
  BY <1>1, <1>2 DEF Main, Reader, Fronted
<1>4. /\ Fronted(file, groups, pos)' => Main(file, groups, current, pos, guessed)'
      /\ groups' # <<>> /\ groups'[1].first_offset = file[1].offset /\ groups'[1].pcr_offset \in Nat
  BY <1>1, <1>3, CloseInv
<1>5. o \in Int
  <2>1. Shaped(file, groups') /\ Windows(file, groups', NoCurrent) /\ Ordered(groups', NoCurrent)
    BY <1>1, <1>2, ClosedMain
  <2> QED BY <1>2, <1>4, <2>1, SeekFront
<1>6. pos' \in 0 .. Len(file)
  BY <1>1, <1>2, <1>5, AtIs
<1>7. pos' < Len(file) => file[1].offset <= file[pos' + 1].offset
  BY <1>2, <1>6, FirstFronts
<1>8. Fronted(file, groups, pos)'
  BY <1>1, <1>4, <1>7 DEF Fronted
<1>9. Reader'
  BY <1>1, <1>3, <1>4, <1>6 DEF Reader
<1> QED BY <1>4, <1>8, <1>9

LEMMA ClosePushSeek ==
  ASSUME Inv, NEW q \in Times, PushSeek(q), ~ overran'
  PROVE  (Main(file, groups, current, pos, guessed) /\ Reader)'
<1> DEFINE o == TsToOffset(groups, current, q)
<1>1. /\ mode = "pushing" /\ Close /\ mode' = mode /\ chunk' = chunk /\ groups # <<>>
      /\ pos' = At(o) /\ UNCHANGED <<file, history>> /\ ~ overran /\ file' = file
  BY DEF PushSeek, history
<1>2. /\ file \in Files /\ Main(file, groups, current, pos, guessed) /\ Reader /\ FileOK(file)
      /\ q \in Nat /\ chunk \in Nat
  BY <1>1, FilesAre, Numbers DEF Inv
<1>3. /\ Fronted(file, groups, pos)' => Main(file, groups, current, pos, guessed)'
      /\ groups' # <<>> /\ groups'[1].first_offset = groups[1].first_offset
      /\ groups'[1].pcr_offset \in Nat
  BY <1>1, CloseInv
<1>4. /\ Shaped(file, groups) /\ Windows(file, groups, current) /\ Ordered(groups, current)
      /\ groups \in Seq(Groups)
  BY <1>2 DEF Main, Shaped
<1>5. o \in Nat /\ groups[1].first_offset <= o
  BY <1>1, <1>2, <1>4, SeekFront
<1>6. groups[1].first_offset \in Nat
  <2>1. 1 \in 1 .. Len(groups)
    BY <1>1, <1>4, EmptySeq, LenProperties
  <2> QED BY <1>2, <1>4, <2>1, ShapedGroup
<1> HIDE DEF o
<1>7. o \in Int
  BY <1>5
<1>8. pos' \in 0 .. Len(file) /\ (pos' < Len(file) => o <= file[pos' + 1].offset)
  BY <1>1, <1>2, <1>7, AtIs
<1>9. pos' < Len(file) => groups[1].first_offset <= file[pos' + 1].offset
  BY <1>2, <1>5, <1>6, <1>8, SeekFronts
<1>10. Fronted(file, groups, pos)'
  BY <1>1, <1>3, <1>9 DEF Fronted
<1>11. Reader'
  BY <1>1, <1>2, <1>8 DEF Reader
<1> QED BY <1>3, <1>10, <1>11

LEMMA FlushInv ==
  ASSUME Inv, NEW k \in 0 .. Len(file) - 1, HardFlush(k)
  PROVE  Inv'
<1>1. /\ mode' = "pushing" /\ chunk' = chunk /\ pos' = k /\ file' = file
      /\ groups' = <<>> /\ current' = NoCurrent /\ overran' = FALSE /\ guessed' = FALSE
  BY DEF HardFlush
<1>2. file \in Files /\ FileOK(file)
  BY FilesAre DEF Inv
<1>3. groups' \in Seq(Groups) /\ Len(groups') = 0
  BY <1>1, EmptySeq
<1>4. 1 .. Len(groups') = {} /\ 1 .. Len(groups') - 1 = {} /\ 2 .. Len(groups') = {}
  BY <1>3
<1>5. current' \in Currents /\ current'.group = 0
  <2>1. <<>> \in Seq(Obs) /\ Zero \in Obs /\ 0 \in Nat
    BY EmptySeq DEF Zero, Obs
  <2> QED BY <1>1, <2>1 DEF NoCurrent, Currents
<1>6. /\ Shaped(file', groups') /\ Ordered(groups', current') /\ Timed(file', groups', guessed')
  BY <1>3, <1>4 DEF Shaped, Ordered, Timed
<1>7. Windows(file', groups', current') /\ Placed(file', groups', current', pos')
      /\ Fronted(file, groups, pos)'
  BY <1>1, <1>5 DEF Windows, Placed, Fronted
<1>8. k \in 0 .. Len(file)
  BY <1>2 DEF FileOK
<1>9. Reader'
  BY <1>1, <1>8 DEF Reader
<1>10. chunk' \in Nat
  BY <1>1 DEF Inv
<1> QED BY <1>1, <1>2, <1>6, <1>7, <1>9, <1>10 DEF Inv, Main

\* All the times are moved by the same.
Moved(r, gs, d) == r = [i \in 1 .. Len(gs) |-> [gs[i] EXCEPT !.pcr_offset = @ + d]]

LEMMA ShiftMain ==
  ASSUME NEW f, FileOK(f), NEW gs, NEW c, NEW p, NEW guess, Main(f, gs, c, p, guess), gs # <<>>,
         NEW d \in Int, gs[1].pcr_offset + d \in Nat,
         NEW r, Moved(r, gs, d)
  PROVE  Main(f, r, c, p, guess)
<1>1. /\ Shaped(f, gs) /\ Windows(f, gs, c) /\ Ordered(gs, c) /\ Placed(f, gs, c, p)
      /\ Fronted(f, gs, p) /\ Timed(f, gs, guess) /\ gs \in Seq(Groups)
  BY DEF Main, Shaped
<1>2. Len(gs) \in Nat /\ 1 \in 1 .. Len(gs)
  BY <1>1, EmptySeq, LenProperties
<1>3. ASSUME NEW i \in 1 .. Len(gs)
      PROVE  /\ r[i] \in Groups /\ r[i].first_pcr = gs[i].first_pcr
             /\ r[i].first_offset = gs[i].first_offset /\ r[i].values = gs[i].values
             /\ r[i].flags = gs[i].flags /\ r[i].pcr_offset = gs[i].pcr_offset + d
             /\ gs[i].pcr_offset \in Int /\ gs[i].first_pcr \in Nat
  <2>1. gs[i] \in Groups /\ gs[i].pcr_offset \in Int /\ gs[i].first_pcr \in Nat
    BY <1>1, ShapedGroup
  <2>2. gs[i].pcr_offset + d \in Int
    BY <2>1
  <2>3. r[i] = [gs[i] EXCEPT !.pcr_offset = gs[i].pcr_offset + d]
    BY DEF Moved
  <2> QED BY <2>1, <2>2, <2>3 DEF Groups
<1>4. r \in Seq(Groups) /\ SameObs(r, gs)
  <2>1. r \in [1 .. Len(gs) -> Groups]
    BY <1>3 DEF Moved
  <2>2. r \in Seq(Groups) /\ Len(r) = Len(gs)
    BY <1>2, <2>1
  <2> QED BY <1>3, <2>2 DEF SameObs
<1>5. Shaped(f, r)
  BY <1>1, <1>4, SameObsShaped
<1>6. /\ Windows(f, r, c) /\ Ordered(r, c)
      /\ \A k \in 1 .. Len(gs) : Ends(r, c, k) = Ends(gs, c, k)
  BY <1>1, <1>4, SameObsWindow
<1>7. Placed(f, r, c, p)
  <2>1. SUFFICES ASSUME c.group # 0
                 PROVE  /\ p \in 1 .. Len(f) /\ Ends(r, c, c.group) <= f[p].offset
                        /\ f[p].pcr - (r[c.group].first_pcr + Last(c.pending).pcr) \in 0 .. Tenth
    BY DEF Placed
  <2>2. c.group \in 1 .. Len(gs)
    BY <1>1, <2>1, WindowIs
  <2>3. r[c.group].first_pcr = gs[c.group].first_pcr /\ Ends(r, c, c.group) = Ends(gs, c, c.group)
    BY <1>6, <1>4, <2>2 DEF SameObs
  <2> QED BY <1>1, <2>1, <2>3 DEF Placed
<1>8. Fronted(f, r, p)
  <2>1. /\ r # <<>> /\ r[1].first_offset = gs[1].first_offset /\ r[1].pcr_offset \in Nat
    <3>1. Len(r) = Len(gs)
      BY <1>4 DEF SameObs
    <3>2. r # <<>>
      BY <1>2, <1>4, <3>1, EmptySeq
    <3> QED BY <1>2, <1>3, <3>2
  <2> QED BY <1>1, <2>1 DEF Fronted
<1>9. Timed(f, r, guess)
  <2>1. SUFFICES ASSUME NEW k \in 2 .. Len(r) PROVE After(f, r[k - 1], r[k], guess)
    BY DEF Timed
  <2>2. k \in 1 .. Len(gs) /\ k - 1 \in 1 .. Len(gs) /\ k \in 2 .. Len(gs)
    BY <1>2, <1>4 DEF SameObs
  <2>3. /\ r[k].first_offset = gs[k].first_offset /\ r[k - 1].first_offset = gs[k - 1].first_offset
        /\ (Est(r[k]) <=> Est(gs[k])) /\ r[k].pcr_offset = gs[k].pcr_offset + d
        /\ Delta(r[k]) = Delta(gs[k]) + d /\ Delta(r[k - 1]) = Delta(gs[k - 1]) + d
        /\ Delta(gs[k]) \in Int /\ Delta(gs[k - 1]) \in Int /\ gs[k].pcr_offset \in Int
    <3>1. /\ r[k].first_offset = gs[k].first_offset /\ r[k - 1].first_offset = gs[k - 1].first_offset
          /\ (Est(r[k]) <=> Est(gs[k])) /\ r[k].pcr_offset = gs[k].pcr_offset + d
      BY <1>3, <2>2 DEF Est
    <3>2. /\ Delta(gs[k]) \in Int /\ Delta(gs[k - 1]) \in Int /\ gs[k].pcr_offset \in Int
      BY <1>1, <2>2, ShapedGroup
    <3>3. ASSUME NEW i \in 1 .. Len(gs) PROVE Delta(r[i]) = Delta(gs[i]) + d
      BY <1>3 DEF Delta
    <3> QED BY <2>2, <3>1, <3>2, <3>3
  <2>4. After(f, gs[k - 1], gs[k], guess)
    BY <1>1, <2>2 DEF Timed
  <2>5. \A j \in 1 .. Len(f) : f[j].pcr \in Int
    BY DEF FileOK
  <2>6. \A x \in Int : /\ Delta(gs[k - 1]) + x < gs[k].pcr_offset => Delta(r[k - 1]) + x < r[k].pcr_offset
                       /\ Delta(gs[k - 1]) + x <= gs[k].pcr_offset => Delta(r[k - 1]) + x <= r[k].pcr_offset
    BY SMTT(30), <2>3
  <2>7. Delta(gs[k - 1]) <= Delta(gs[k]) => Delta(r[k - 1]) <= Delta(r[k])
    BY <2>3
  <2>8. ~ Est(r[k]) /\ Asc(f, r[k].first_offset) =>
       \A j \in 1 .. Len(f) : r[k - 1].first_offset <= f[j].offset /\ f[j].offset < r[k].first_offset =>
          Delta(r[k - 1]) + f[j].pcr < r[k].pcr_offset
    BY <2>3, <2>4, <2>5, <2>6 DEF After
  <2>9. ~ Est(r[k]) /\ ~ guess /\ Asc(f, r[k].first_offset - 1) =>
       \A j \in 1 .. Len(f) : r[k - 1].first_offset <= f[j].offset /\ f[j].offset < r[k].first_offset =>
          Delta(r[k - 1]) + f[j].pcr <= r[k].pcr_offset
    BY <2>3, <2>4, <2>5, <2>6 DEF After
  <2>10. Est(r[k]) /\ Asc(f, r[k].first_offset) => Delta(r[k - 1]) <= Delta(r[k])
    BY <2>3, <2>4, <2>7 DEF After
  <2> QED BY <2>8, <2>9, <2>10 DEF After
<1> QED BY <1>5, <1>6, <1>7, <1>8, <1>9 DEF Main

LEMMA ShiftInv ==
  ASSUME Inv, NEW time \in Shifts, Shift(time), ~ overran'
  PROVE  (Main(file, groups, current, pos, guessed) /\ Reader)'
<1> DEFINE d == time - groups[1].pcr_offset
<1>1. /\ current.group # 0 /\ UNCHANGED <<file, readVars, current, history>> /\ ~ overran
      /\ Moved(groups', groups, d)
  BY DEF Shift, history, Moved
<1>2. /\ file' = file /\ mode' = mode /\ pos' = pos /\ seen' = seen /\ current' = current
      /\ guessed' = guessed
  BY <1>1 DEF readVars, history
<1>3. /\ file \in Files /\ Main(file, groups, current, pos, guessed) /\ Reader /\ FileOK(file)
      /\ time \in Nat
  BY <1>1, FilesAre, Numbers DEF Inv
<1>4. Shaped(file, groups) /\ Windows(file, groups, current) /\ groups \in Seq(Groups)
  BY <1>3 DEF Main, Shaped
<1>5. groups # <<>> /\ 1 \in 1 .. Len(groups)
  <2>1. current.group \in 1 .. Len(groups)
    BY <1>1, <1>4, WindowIs
  <2> QED BY <1>4, <2>1, EmptySeq, LenProperties
<1>6. groups[1].pcr_offset \in Int
  BY <1>3, <1>4, <1>5, ShapedGroup
<1>7. d \in Int /\ groups[1].pcr_offset + d \in Nat
  BY <1>3, <1>6
<1> HIDE DEF d
<1>8. Main(file, groups', current, pos, guessed)
  BY <1>1, <1>3, <1>5, <1>7, ShiftMain
<1>9. Fronted(file, groups, pos)'
  BY <1>2, <1>8 DEF Main, Fronted
<1>10. Main(file, groups, current, pos, guessed)'
  BY <1>2, <1>8, <1>9 DEF Main
<1>11. groups' # <<>>
  <2>1. groups' \in Seq(Groups)
    BY <1>8 DEF Main, Shaped
  <2>2. current.group \in 1 .. Len(groups')
    BY <1>1, <1>8, WindowIs DEF Main
  <2> QED BY <2>1, <2>2, EmptySeq
<1>12. Reader'
  BY <1>2, <1>3, <1>11 DEF Reader
<1> QED BY <1>10, <1>12

LEMMA QueryInv ==
  ASSUME Inv, QueryDuration, ~ overran'
  PROVE  (Main(file, groups, current, pos, guessed) /\ Reader)'
<1> DEFINE r == Reevaluated(groups, current)
<1>1. /\ groups' = r /\ guessed' = (guessed \/ Wraps(groups')) /\ Len(groups) > 1
      /\ UNCHANGED <<file, readVars, current, overran>>
  BY DEF QueryDuration
<1>2. /\ file' = file /\ mode' = mode /\ pos' = pos /\ seen' = seen /\ current' = current
      /\ ~ overran
  BY <1>1 DEF readVars
<1>3. /\ file \in Files /\ Main(file, groups, current, pos, guessed) /\ Reader /\ FileOK(file)
  BY <1>2, FilesAre DEF Inv
<1>4. Shaped(file, groups) /\ Windows(file, groups, current) /\ groups \in Seq(Groups)
  BY <1>3 DEF Main, Shaped
<1>5. Typed(current)
  BY <1>4, TypedIs
<1>6. Done(r, groups, current, Len(groups))
  BY <1>4, <1>5, ReevaluatedIs
<1> HIDE DEF r
<1>7. Main(file, r, current, pos, guessed \/ Wraps(r))
  BY <1>3, <1>6, ReevaluatedMain
<1>8. guessed \/ Wraps(r) => guessed'
  BY <1>1
<1>9. Timed(file, r, guessed')
  <2>1. SUFFICES ASSUME NEW k \in 2 .. Len(r) PROVE After(file, r[k - 1], r[k], guessed')
    BY DEF Timed
  <2>2. After(file, r[k - 1], r[k], guessed \/ Wraps(r))
    BY <1>7 DEF Main, Timed
  <2> QED BY <1>8, <2>2, Zenon DEF After
<1>10. Fronted(file, groups, pos)'
  BY <1>1, <1>2, <1>7 DEF Main, Fronted
<1>11. Main(file, groups, current, pos, guessed)'
  BY <1>1, <1>2, <1>7, <1>9, <1>10 DEF Main
<1>12. groups' # <<>>
  <2>1. Len(r) = Len(groups) /\ r \in Seq(Groups)
    BY <1>6 DEF Done, SameObs
  <2> QED BY <1>1, <2>1, EmptySeq
<1>13. Reader'
  BY <1>2, <1>3, <1>12 DEF Reader
<1> QED BY <1>11, <1>13

LEMMA NextInv == Inv /\ [Next]_vars => Inv'
<1> SUFFICES ASSUME Inv, [Next]_vars PROVE Inv'
  OBVIOUS
<1>1. CASE UNCHANGED vars
  <2>1. /\ file' = file /\ mode' = mode /\ pos' = pos /\ seen' = seen /\ chunk' = chunk
        /\ groups' = groups /\ current' = current /\ overran' = overran /\ guessed' = guessed
    BY <1>1 DEF vars, readVars, history
  <2>2. Fronted(file, groups, pos) => Fronted(file, groups, pos)'
    BY <2>1 DEF Fronted
  <2>3. Main(file, groups, current, pos, guessed) => Main(file, groups, current, pos, guessed)'
    BY <2>1, <2>2 DEF Main
  <2>4. Reader => Reader'
    BY <2>1 DEF Reader
  <2> QED BY <2>1, <2>3, <2>4 DEF Inv
<1>2. ASSUME NEW k \in 0 .. Len(file) - 1, HardFlush(k) PROVE Inv'
  BY <1>2, FlushInv
<1>3. ASSUME file' \in Files, chunk' \in Nat, overran' \in BOOLEAN, guessed' \in BOOLEAN,
             ~ overran' => (Main(file, groups, current, pos, guessed) /\ Reader)'
      PROVE  Inv'
  BY <1>3 DEF Inv
<1>4. ASSUME UNCHANGED file, chunk' \in {chunk, chunk + 1, 1}, overran' \in BOOLEAN, guessed' \in BOOLEAN
      PROVE  /\ file' \in Files /\ chunk' \in Nat /\ overran' \in BOOLEAN /\ guessed' \in BOOLEAN
  BY <1>4 DEF Inv
<1>5. overran \in BOOLEAN /\ guessed \in BOOLEAN
  BY DEF Inv
<1>6. ASSUME Read, mode' = mode PROVE UNCHANGED file /\ overran' \in BOOLEAN /\ guessed' \in BOOLEAN
  BY <1>5, <1>6 DEF Read
<1>7. CASE ScanHead
  <2>1. /\ mode = "head" /\ Read /\ seen' = seen + 1 /\ mode' = mode /\ chunk' = chunk
    BY <1>7 DEF ScanHead
  <2>2. ASSUME ~ overran' PROVE (Main(file, groups, current, pos, guessed) /\ Reader)'
    <3>1. /\ Main(file, groups, current, pos, guessed)'
          /\ pos' \in 0 .. Len(file) /\ pos' = pos + 1 /\ groups' # <<>>
      BY <2>1, <2>2, ReadInv
    <3>2. Reader /\ file' = file
      BY <2>1, <2>2 DEF Inv, Read
    <3>3. Reader'
      BY <2>1, <3>1, <3>2 DEF Reader
    <3> QED BY <3>1, <3>3
  <2> QED BY <1>3, <1>4, <1>6, <2>1, <2>2
<1>8. CASE ScanTail
  <2>1. /\ mode = "tail" /\ Read /\ mode' = mode /\ chunk' = chunk
    BY <1>8 DEF ScanTail
  <2>2. ASSUME ~ overran' PROVE (Main(file, groups, current, pos, guessed) /\ Reader)'
    <3>1. /\ Main(file, groups, current, pos, guessed)'
          /\ pos' \in 0 .. Len(file) /\ pos' = pos + 1 /\ groups' # <<>>
      BY <2>1, <2>2, ReadInv
    <3>2. Reader /\ file' = file
      BY <2>1, <2>2 DEF Inv, Read
    <3>3. Reader'
      BY <2>1, <3>1, <3>2 DEF Reader
    <3> QED BY <3>1, <3>3
  <2> QED BY <1>3, <1>4, <1>6, <2>1, <2>2
<1>9. CASE Stream
  <2>1. /\ mode \in {"streaming", "pushing"} /\ Read /\ mode' = mode /\ chunk' = chunk
    BY <1>9 DEF Stream
  <2>2. ASSUME ~ overran' PROVE (Main(file, groups, current, pos, guessed) /\ Reader)'
    <3>1. /\ Main(file, groups, current, pos, guessed)'
          /\ pos' \in 0 .. Len(file) /\ pos' = pos + 1 /\ (mode # "pushing" => groups' # <<>>)
      BY <2>1, <2>2, ReadInv
    <3>2. Reader /\ file' = file
      BY <2>1, <2>2 DEF Inv, Read
    <3>3. Reader'
      BY <2>1, <3>1, <3>2 DEF Reader
    <3> QED BY <3>1, <3>3
  <2> QED BY <1>3, <1>4, <1>6, <2>1, <2>2
<1>10. CASE EndHead
  <2>1. UNCHANGED <<file, history>> /\ chunk' \in {chunk, chunk + 1, 1}
    BY <1>10 DEF EndHead
  <2>2. ~ overran' => (Main(file, groups, current, pos, guessed) /\ Reader)'
    BY <1>10, CloseEndHead
  <2> QED BY <1>3, <1>4, <1>5, <2>1, <2>2 DEF history
<1>11. CASE NextChunk
  <2>1. UNCHANGED <<file, history>> /\ chunk' \in {chunk, chunk + 1, 1}
    BY <1>11 DEF NextChunk
  <2>2. ~ overran' => (Main(file, groups, current, pos, guessed) /\ Reader)'
    BY <1>11, CloseNextChunk
  <2> QED BY <1>3, <1>4, <1>5, <2>1, <2>2 DEF history
<1>12. CASE EndScan
  <2>1. UNCHANGED <<file, history>> /\ chunk' \in {chunk, chunk + 1, 1}
    BY <1>12 DEF EndScan
  <2>2. ~ overran' => (Main(file, groups, current, pos, guessed) /\ Reader)'
    BY <1>12, CloseEndScan
  <2> QED BY <1>3, <1>4, <1>5, <2>1, <2>2 DEF history
<1>13. ASSUME NEW q \in Times, PullSeek(q) PROVE Inv'
  <2>1. UNCHANGED <<file, history>> /\ chunk' \in {chunk, chunk + 1, 1}
    BY <1>13 DEF PullSeek
  <2>2. ~ overran' => (Main(file, groups, current, pos, guessed) /\ Reader)'
    BY <1>13, ClosePullSeek
  <2> QED BY <1>3, <1>4, <1>5, <2>1, <2>2 DEF history
<1>14. ASSUME NEW q \in Times, PushSeek(q) PROVE Inv'
  <2>1. UNCHANGED <<file, history>> /\ chunk' \in {chunk, chunk + 1, 1}
    BY <1>14 DEF PushSeek
  <2>2. ~ overran' => (Main(file, groups, current, pos, guessed) /\ Reader)'
    BY <1>14, ClosePushSeek
  <2> QED BY <1>3, <1>4, <1>5, <2>1, <2>2 DEF history
<1>15. ASSUME NEW time \in Shifts, Shift(time) PROVE Inv'
  <2>1. UNCHANGED <<file, history>> /\ chunk' \in {chunk, chunk + 1, 1}
    BY <1>15 DEF Shift, readVars
  <2>2. ~ overran' => (Main(file, groups, current, pos, guessed) /\ Reader)'
    BY <1>15, ShiftInv
  <2> QED BY <1>3, <1>4, <1>5, <2>1, <2>2 DEF history
<1>16. CASE QueryDuration
  <2>1. UNCHANGED <<file, overran>> /\ chunk' \in {chunk, chunk + 1, 1}
        /\ guessed' \in BOOLEAN
    BY <1>5, <1>16 DEF QueryDuration, readVars
  <2>2. ~ overran' => (Main(file, groups, current, pos, guessed) /\ Reader)'
    BY <1>16, QueryInv
  <2> QED BY <1>3, <1>4, <1>5, <2>1, <2>2
<1>17. CASE EndOfStream
  <2>1. /\ file' = file /\ mode' = mode /\ pos' = pos /\ seen' = seen /\ chunk' = chunk
        /\ groups' = groups /\ current' = current /\ overran' = overran /\ guessed' = guessed
    BY <1>17 DEF EndOfStream, history
  <2>2. Fronted(file, groups, pos) => Fronted(file, groups, pos)'
    BY <2>1 DEF Fronted
  <2>3. Main(file, groups, current, pos, guessed) => Main(file, groups, current, pos, guessed)'
    BY <2>1, <2>2 DEF Main
  <2>4. Reader => Reader'
    BY <2>1 DEF Reader
  <2> QED BY <2>1, <2>3, <2>4 DEF Inv
<1> QED BY <1>1, <1>2, <1>7, <1>8, <1>9, <1>10, <1>11, <1>12, <1>13, <1>14, <1>15, <1>16, <1>17 DEF Next

\* The invariant: what the groups, the window and the reader have to do with the file and with
\* each other, and what every stream time has to do with the one before it (record_pcr,
\* _reevaluate_group_pcr_offset, _close_current_group, mpegts_base_scan).
THEOREM GroupsAreKept == Spec => []Inv
<1> QED BY InitInv, NextInv, PTL DEF Spec
-----------------------------------------------------------------------------
(* What follows *)

LEMMA NoWindow ==
  ASSUME NEW f, NEW gs
  PROVE  Windows(f, gs, NoCurrent) /\ NoCurrent.group = 0 /\ Typed(NoCurrent)
<1>1. <<>> \in Seq(Obs) /\ Zero \in Obs /\ 0 \in Nat
  BY EmptySeq DEF Zero, Obs
<1>2. NoCurrent \in Currents /\ NoCurrent.group = 0
  BY <1>1 DEF NoCurrent, Currents
<1> QED BY <1>1, <1>2 DEF Windows, Typed

\* The end of a group is a PCR of the file.
LEMMA EndSeen ==
  ASSUME NEW f, FileOK(f), NEW gs, Shaped(f, gs), NEW c, Windows(f, gs, c), NEW i \in 1 .. Len(gs)
  PROVE  /\ EndOf(gs, c, i).time \in Int /\ Delta(gs[i]) \in Int /\ gs[i].pcr_offset \in Int
         /\ gs[i].pcr_offset <= EndOf(gs, c, i).time
         /\ Entry(f, EndOf(gs, c, i).time - Delta(gs[i]), Ends(gs, c, i))
         /\ gs[i].first_offset <= Ends(gs, c, i) /\ gs[i].first_offset \in Nat /\ Ends(gs, c, i) \in Nat
<1> DEFINE v == IF c.group = i THEN Last(c.pending) ELSE Last(gs[i].values)
<1>1. /\ gs[i] \in Groups /\ gs[i].first_offset \in Nat /\ gs[i].pcr_offset \in Int
      /\ gs[i].first_pcr \in Nat
  BY ShapedGroup
<1>2. Last(gs[i].values).pcr \in Nat /\ Last(gs[i].values).offset \in Nat
      /\ Seen(f, gs[i], Last(gs[i].values))
  BY <1>1, GroupFields, ShapedGroup
<1>3. v.pcr \in Nat /\ v.offset \in Nat /\ Seen(f, gs[i], v)
  <2>1. CASE c.group = i
    <3>1. c.group # 0
      BY <2>1
    <3> QED BY <2>1, <3>1, WindowIs
  <2>2. CASE c.group # i
    BY <1>2, <2>2
  <2> QED BY <2>1, <2>2
<1>4. EndOf(gs, c, i) = [offset |-> gs[i].first_offset + v.offset, time |-> gs[i].pcr_offset + v.pcr]
  BY DEF EndOf
<1> HIDE DEF v
<1>5. EndOf(gs, c, i).time = gs[i].pcr_offset + v.pcr /\ Ends(gs, c, i) = gs[i].first_offset + v.offset
  BY <1>4 DEF Ends
<1>6. Entry(f, gs[i].first_pcr + v.pcr, gs[i].first_offset + v.offset)
  BY <1>3 DEF Seen
<1>7. Delta(gs[i]) = gs[i].pcr_offset - gs[i].first_pcr
  BY DEF Delta
<1>8. EndOf(gs, c, i).time - Delta(gs[i]) = gs[i].first_pcr + v.pcr
  BY <1>1, <1>3, <1>5, <1>7
<1>9. Entry(f, EndOf(gs, c, i).time - Delta(gs[i]), Ends(gs, c, i))
  BY <1>5, <1>6, <1>8
<1>10. /\ gs[i].pcr_offset + v.pcr \in Int /\ gs[i].pcr_offset <= gs[i].pcr_offset + v.pcr
       /\ gs[i].first_offset + v.offset \in Nat /\ gs[i].first_offset <= gs[i].first_offset + v.offset
  BY SMTT(30), <1>1, <1>3
<1>11. Delta(gs[i]) \in Int
  BY <1>1, <1>7
<1> QED BY <1>1, <1>5, <1>9, <1>10, <1>11

Ris(f, o) == \A i, j \in 1 .. Len(f) : i < j /\ f[j].offset <= o => f[i].pcr < f[j].pcr

LEMMA RisAsc ==
  ASSUME NEW f, FileOK(f), NEW o, Ris(f, o)
  PROVE  Asc(f, o)
<1>1. SUFFICES ASSUME NEW i \in 1 .. Len(f), NEW j \in 1 .. Len(f), i < j, f[j].offset <= o
               PROVE  f[i].pcr <= f[j].pcr
  BY DEF Asc
<1>2. f[i].pcr < f[j].pcr
  BY <1>1 DEF Ris
<1>3. f[i].pcr \in Nat /\ f[j].pcr \in Nat
  BY InFile
<1> QED BY <1>2, <1>3

LEMMA RisTwo ==
  ASSUME NEW f, FileOK(f), NEW o \in Int, Ris(f, o),
         NEW a, NEW b, NEW x, NEW y, Entry(f, a, x), Entry(f, b, y), x < y, y <= o
  PROVE  a < b
<1>1. PICK i \in 1 .. Len(f) : f[i].pcr = a /\ f[i].offset = x
  BY DEF Entry
<1>2. PICK j \in 1 .. Len(f) : f[j].pcr = b /\ f[j].offset = y
  BY DEF Entry
<1>3. i < j
  BY <1>1, <1>2, InFile
<1> QED BY <1>1, <1>2, <1>3 DEF Ris

\* As long as the PCRs do not go back, a PCR before a group is not later than the group.
LEMMA ChainIs ==
  ASSUME NEW f, FileOK(f), NEW gs, Shaped(f, gs), NEW guess, Timed(f, gs, guess),
         NEW k \in 2 .. Len(gs), Asc(f, gs[k].first_offset),
         NEW a, NEW o, Entry(f, a, o), gs[k - 1].first_offset <= o, o < gs[k].first_offset
  PROVE  /\ Delta(gs[k - 1]) + a <= gs[k].pcr_offset
         /\ Ris(f, gs[k].first_offset) => Delta(gs[k - 1]) + a < gs[k].pcr_offset
<1>1. k \in 1 .. Len(gs) /\ k - 1 \in 1 .. Len(gs)
  <2>1. Len(gs) \in Nat
    BY LenProperties DEF Shaped
  <2> QED BY <2>1
<1>2. /\ gs[k].pcr_offset \in Int /\ gs[k].first_pcr \in Nat /\ gs[k].first_offset \in Nat
      /\ Delta(gs[k]) \in Int /\ gs[k].pcr_offset = Delta(gs[k]) + gs[k].first_pcr
      /\ Entry(f, gs[k].first_pcr, gs[k].first_offset) /\ Delta(gs[k - 1]) \in Int
  BY <1>1, ShapedGroup
<1>3. a \in Nat /\ o \in Nat
  BY EntryIs
<1>4. After(f, gs[k - 1], gs[k], guess)
  BY DEF Timed
<1>5. CASE ~ Est(gs[k])
  <2>1. PICK j \in 1 .. Len(f) : f[j].pcr = a /\ f[j].offset = o
    BY DEF Entry
  <2>2. Delta(gs[k - 1]) + f[j].pcr < gs[k].pcr_offset
    BY <1>4, <1>5, <2>1 DEF After
  <2>3. Delta(gs[k - 1]) + a < gs[k].pcr_offset
    BY <2>1, <2>2
  <2>4. Delta(gs[k - 1]) + a <= gs[k].pcr_offset
    BY <1>2, <1>3, <2>3
  <2> QED BY <2>3, <2>4
<1>6. CASE Est(gs[k])
  <2>1. Delta(gs[k - 1]) <= Delta(gs[k])
    BY <1>4, <1>6 DEF After
  <2>2. gs[k].first_offset \in Int /\ o <= gs[k].first_offset /\ gs[k].first_offset <= gs[k].first_offset
    BY <1>2, <1>3
  <2>3. a <= gs[k].first_pcr
    BY <1>2, <2>2, AscTwo
  <2>4. Ris(f, gs[k].first_offset) => a < gs[k].first_pcr
    BY <1>2, <2>2, RisTwo
  <2>5. Delta(gs[k - 1]) + a <= gs[k].pcr_offset
    BY <1>2, <1>3, <2>1, <2>3
  <2>6. a < gs[k].first_pcr => Delta(gs[k - 1]) + a < gs[k].pcr_offset
    BY <1>2, <1>3, <2>1
  <2> QED BY <2>4, <2>5, <2>6
<1> QED BY <1>5, <1>6

\* Groups further on start further on.
LEMMA FirstsClimb ==
  ASSUME NEW f, FileOK(f), NEW gs, Shaped(f, gs), Firsts(gs),
         NEW a \in 1 .. Len(gs), NEW b \in 1 .. Len(gs), a <= b
  PROVE  gs[a].first_offset <= gs[b].first_offset
<1> DEFINE x == [j \in 1 .. Len(gs) |-> gs[j].first_offset]
<1>1. Len(gs) \in Nat /\ \A j \in 1 .. Len(gs) : gs[j].first_offset \in Nat
  BY LenProperties, ShapedGroup DEF Shaped
<1>2. \A j \in a .. b : x[j] \in Int
  BY <1>1
<1>3. ASSUME NEW j \in a .. b, j < b PROVE x[j] <= x[j + 1]
  <2>1. j \in 1 .. Len(gs) - 1 /\ j \in 1 .. Len(gs) /\ j + 1 \in 1 .. Len(gs)
    BY <1>1, <1>3
  <2>2. gs[j].first_offset < gs[j + 1].first_offset
    BY <2>1 DEF Firsts
  <2>3. x[j] = gs[j].first_offset /\ x[j + 1] = gs[j + 1].first_offset
    BY <2>1
  <2> HIDE DEF x
  <2> QED BY <1>1, <2>1, <2>2, <2>3
<1>4. x[a] = gs[a].first_offset /\ x[b] = gs[b].first_offset /\ a \in Nat /\ b \in Nat
  BY <1>1
<1> HIDE DEF x
<1>5. x[a] <= x[b]
  BY <1>2, <1>3, <1>4, Climbs
<1> QED BY <1>4, <1>5

\* As long as the PCRs do not go back the groups are in the order of time.
LEMMA TimesClimb ==
  ASSUME NEW f, FileOK(f), NEW gs, Shaped(f, gs), Firsts(gs), NEW guess, Timed(f, gs, guess),
         NEW a \in 1 .. Len(gs), NEW b \in 1 .. Len(gs), a <= b, Asc(f, gs[b].first_offset)
  PROVE  gs[a].pcr_offset <= gs[b].pcr_offset
<1> DEFINE x == [j \in 1 .. Len(gs) |-> gs[j].pcr_offset]
<1>1. /\ Len(gs) \in Nat
      /\ \A j \in 1 .. Len(gs) : gs[j].pcr_offset \in Int /\ gs[j].first_offset \in Nat
  BY LenProperties, ShapedGroup DEF Shaped
<1>2. \A j \in a .. b : x[j] \in Int
  BY <1>1
<1>3. ASSUME NEW j \in a .. b, j < b PROVE x[j] <= x[j + 1]
  <2>1. /\ j \in 1 .. Len(gs) - 1 /\ j \in 1 .. Len(gs) /\ j + 1 \in 1 .. Len(gs) /\ j + 1 <= b
        /\ j + 1 \in 2 .. Len(gs) /\ (j + 1) - 1 = j
    BY <1>1, <1>3
  <2>2. gs[j].first_offset < gs[j + 1].first_offset /\ gs[j].first_offset <= gs[j].first_offset
    BY <1>1, <2>1 DEF Firsts
  <2>3. x[j] = gs[j].pcr_offset /\ x[j + 1] = gs[j + 1].pcr_offset
    BY <2>1
  <2>4. gs[j + 1].first_offset <= gs[b].first_offset
    BY <2>1, FirstsClimb
  <2>5. Asc(f, gs[j + 1].first_offset)
    BY <1>1, <2>1, <2>4, AscDown
  <2>6. Entry(f, gs[j].first_pcr, gs[j].first_offset) /\ gs[j].pcr_offset = Delta(gs[j]) + gs[j].first_pcr
    BY <2>1, ShapedGroup
  <2>7. Delta(gs[(j + 1) - 1]) + gs[j].first_pcr <= gs[j + 1].pcr_offset
    BY <2>1, <2>2, <2>5, <2>6, ChainIs
  <2> HIDE DEF x
  <2> QED BY <2>1, <2>3, <2>6, <2>7
<1>4. x[a] = gs[a].pcr_offset /\ x[b] = gs[b].pcr_offset /\ a \in Nat /\ b \in Nat
  BY <1>1
<1> HIDE DEF x
<1>5. x[a] <= x[b]
  BY <1>2, <1>3, <1>4, Climbs
<1> QED BY <1>4, <1>5

\* A group ends before the next one starts, and before all the others behind it.
LEMMA EndsBefore ==
  ASSUME NEW f, FileOK(f), NEW gs, Shaped(f, gs), NEW c, Windows(f, gs, c), Ordered(gs, c),
         NEW guess, Timed(f, gs, guess),
         NEW i \in 1 .. Len(gs), NEW k \in 1 .. Len(gs), i < k, Asc(f, gs[k].first_offset)
  PROVE  /\ EndOf(gs, c, i).time <= gs[k].pcr_offset
         /\ Ris(f, gs[k].first_offset) => EndOf(gs, c, i).time < gs[k].pcr_offset
<1>1. /\ Len(gs) \in Nat /\ gs \in Seq(Groups)
      /\ \A j \in 1 .. Len(gs) : gs[j].pcr_offset \in Int /\ gs[j].first_offset \in Nat
  BY LenProperties, ShapedGroup DEF Shaped
<1>2. Firsts(gs)
  BY <1>1, OrderedSpaced, SpacedFirsts
<1>3. /\ i \in 1 .. Len(gs) - 1 /\ i + 1 \in 1 .. Len(gs) /\ i + 1 \in 2 .. Len(gs)
      /\ (i + 1) - 1 = i /\ i + 1 <= k
  BY <1>1
<1>4. /\ EndOf(gs, c, i).time \in Int /\ Delta(gs[i]) \in Int
      /\ Entry(f, EndOf(gs, c, i).time - Delta(gs[i]), Ends(gs, c, i))
      /\ gs[i].first_offset <= Ends(gs, c, i)
  BY EndSeen
<1>5. Ends(gs, c, i) < gs[i + 1].first_offset
  BY <1>3 DEF Ordered
<1>6. gs[i + 1].first_offset <= gs[k].first_offset
  BY <1>2, <1>3, FirstsClimb
<1>7. Asc(f, gs[i + 1].first_offset)
  BY <1>1, <1>3, <1>6, AscDown
<1>8. Ris(f, gs[k].first_offset) => Ris(f, gs[i + 1].first_offset)
  <2>1. SUFFICES ASSUME Ris(f, gs[k].first_offset), NEW l \in 1 .. Len(f), NEW m \in 1 .. Len(f),
                        l < m, f[m].offset <= gs[i + 1].first_offset
                 PROVE  f[l].pcr < f[m].pcr
    BY DEF Ris
  <2>2. f[m].offset \in Nat /\ gs[i + 1].first_offset \in Nat /\ gs[k].first_offset \in Nat
    BY <1>1, <1>3, InFile
  <2>3. f[m].offset <= gs[k].first_offset
    BY <1>6, <2>1, <2>2
  <2> QED BY <2>1, <2>3 DEF Ris
<1>9. /\ Delta(gs[(i + 1) - 1]) + (EndOf(gs, c, i).time - Delta(gs[i])) <= gs[i + 1].pcr_offset
      /\ Ris(f, gs[i + 1].first_offset) =>
           Delta(gs[(i + 1) - 1]) + (EndOf(gs, c, i).time - Delta(gs[i])) < gs[i + 1].pcr_offset
  BY <1>3, <1>4, <1>5, <1>7, ChainIs
<1>10. Delta(gs[(i + 1) - 1]) + (EndOf(gs, c, i).time - Delta(gs[i])) = EndOf(gs, c, i).time
  BY <1>3, <1>4
<1>11. gs[i + 1].pcr_offset <= gs[k].pcr_offset
  BY <1>2, <1>3, TimesClimb
<1>12. gs[i + 1].pcr_offset \in Int /\ gs[k].pcr_offset \in Int
  BY <1>1, <1>3
<1>13. EndOf(gs, c, i).time <= gs[k].pcr_offset
  BY <1>4, <1>9, <1>10, <1>11, <1>12
<1>14. Ris(f, gs[k].first_offset) => EndOf(gs, c, i).time < gs[k].pcr_offset
  <2>1. SUFFICES ASSUME Ris(f, gs[k].first_offset) PROVE EndOf(gs, c, i).time < gs[k].pcr_offset
    OBVIOUS
  <2>2. EndOf(gs, c, i).time < gs[i + 1].pcr_offset
    BY <1>8, <1>9, <1>10, <2>1
  <2> QED BY <1>4, <1>11, <1>12, <2>2
<1> QED BY <1>13, <1>14

\* What is known of the groups with their estimates brought up to date.
LEMMA BroughtUp ==
  ASSUME Inv, ~ overran
  PROVE  /\ FileOK(file) /\ Main(file, groups, current, pos, guessed)
         /\ Done(Reevaluated(groups, current), groups, current, Len(groups))
         /\ Main(file, Reevaluated(groups, current), current, pos,
                  guessed \/ Wraps(Reevaluated(groups, current)))
         /\ groups \in Seq(Groups) /\ Spaced(groups) /\ Len(groups) \in Nat
<1> DEFINE r == Reevaluated(groups, current)
<1>1. FileOK(file) /\ Main(file, groups, current, pos, guessed)
  BY FilesAre DEF Inv
<1>2. /\ Shaped(file, groups) /\ Windows(file, groups, current) /\ Ordered(groups, current)
      /\ groups \in Seq(Groups)
  BY <1>1 DEF Main, Shaped
<1>3. Typed(current) /\ Spaced(groups) /\ Len(groups) \in Nat
  BY <1>1, <1>2, TypedIs, OrderedSpaced, LenProperties
<1>4. Done(r, groups, current, Len(groups))
  BY <1>2, <1>3, ReevaluatedIs
<1> HIDE DEF r
<1>5. Main(file, r, current, pos, guessed \/ Wraps(r))
  BY <1>1, <1>4, ReevaluatedMain
<1> QED BY <1>1, <1>2, <1>3, <1>4, <1>5 DEF r

\* The line through the start of the file and the last point covers the times up to that point.
LEMMA ScaleUp ==
  ASSUME NEW s \in Nat, NEW t \in Nat, NEW o \in Nat \ {0}, o <= s
  PROVE  t <= Scale(s, t, o)
<1>1. t * o <= s * t /\ s * t \in Nat
  <2>1. o * t <= s * t /\ s * t \in Nat
    BY TimesUp
  <2>2. o * t = t * o
    OBVIOUS
  <2> QED BY <2>1, <2>2
<1>2. t <= (s * t) \div o
  BY <1>1, DivAtLeast
<1>3. Scale(s, t, o) = (s * t) \div o
  BY ScaleIs
<1> QED BY <1>2, <1>3

LEMMA CoversDuration ==
  ASSUME Inv
  PROVE  DurationCovers
<1> DEFINE r == Reevaluated(groups, current)
           n == Len(r)
<1>1. SUFFICES ASSUME n > 1, ~ overran, Ascending(Last(r).first_offset), NEW i \in 1 .. n
               PROVE  EndOf(r, IF i < n THEN current ELSE NoCurrent, i).time <= Duration(r, current, Size)
  BY DEF DurationCovers
<1>2. FileOK(file) /\ Main(file, r, current, pos, guessed \/ Wraps(r))
  BY <1>1, BroughtUp
<1> HIDE DEF r
<1>3. /\ Shaped(file, r) /\ Windows(file, r, current) /\ Ordered(r, current) /\ Fronted(file, r, pos)
      /\ Timed(file, r, guessed \/ Wraps(r)) /\ r \in Seq(Groups) /\ n \in Nat
      /\ n \in 1 .. n /\ 1 \in 1 .. n /\ r # <<>>
  <2>1. /\ Shaped(file, r) /\ Windows(file, r, current) /\ Ordered(r, current) /\ Fronted(file, r, pos)
        /\ Timed(file, r, guessed \/ Wraps(r)) /\ r \in Seq(Groups)
    BY <1>2 DEF Main, Shaped
  <2>2. n \in Nat
    BY <2>1, LenProperties
  <2>3. n \in 1 .. n /\ 1 \in 1 .. n
    BY <1>1, <2>2
  <2> QED BY <1>1, <2>1, <2>2, <2>3, EmptySeq
<1>4. Spaced(r) /\ Windows(file, r, NoCurrent) /\ Ordered(r, NoCurrent) /\ Firsts(r)
  <2>1. Spaced(r)
    BY <1>2, <1>3, OrderedSpaced
  <2> QED BY <1>3, <2>1, NoWindow, SpacedOrdered, SpacedFirsts
<1>5. Asc(file, r[n].first_offset)
  BY <1>1 DEF Asc, Ascending, Last
<1> DEFINE e == EndOf(r, NoCurrent, n)
<1>6. /\ e.time \in Int /\ r[n].pcr_offset <= e.time /\ r[n].pcr_offset \in Int
      /\ r[n].first_offset <= e.offset /\ r[n].first_offset \in Nat /\ e.offset \in Nat
      /\ Entry(file, e.time - Delta(r[n]), e.offset)
  BY <1>2, <1>3, <1>4, EndSeen DEF Ends
<1>7. Duration(r, current, Size) = Scale(Size, e.time, e.offset)
  BY <1>1 DEF Duration
<1>8. e.time \in Nat
  <2>1. r[1].pcr_offset \in Nat
    BY <1>3 DEF Fronted
  <2>2. r[1].pcr_offset <= r[n].pcr_offset
    BY <1>2, <1>3, <1>4, <1>5, TimesClimb
  <2> HIDE DEF e
  <2> QED BY <1>6, <2>1, <2>2
<1>9. e.offset \in Nat \ {0}
  <2>1. 1 \in 1 .. n - 1 /\ 1 + 1 \in 1 .. n /\ 1 + 1 <= n
    BY <1>1, <1>3
  <2>2. r[1].first_offset < r[1 + 1].first_offset
    BY <1>4, <2>1 DEF Firsts
  <2>3. r[1 + 1].first_offset <= r[n].first_offset
    BY <1>2, <1>3, <1>4, <2>1, FirstsClimb
  <2>4. r[1].first_offset \in Nat /\ r[1 + 1].first_offset \in Nat
    BY <1>2, <1>3, <2>1, ShapedGroup
  <2> HIDE DEF e
  <2> QED BY <1>6, <2>2, <2>3, <2>4
<1>10. Size \in Nat /\ e.offset <= Size
  <2>1. PICK j \in 1 .. Len(file) : file[j].offset = e.offset
    BY <1>6 DEF Entry
  <2>2. Len(file) \in 1 .. Len(file) /\ j <= Len(file)
    BY <1>2 DEF FileOK
  <2>3. file[j].offset <= file[Len(file)].offset
    BY <1>2, <2>2, InFile
  <2>4. file[j].offset \in Nat /\ file[Len(file)].offset \in Nat
    BY <1>2, <2>2, InFile
  <2>5. Size = file[Len(file)].offset + Trailer
    BY DEF Size, Last
  <2> HIDE DEF e, Size
  <2> QED BY <2>1, <2>3, <2>4, <2>5, Numbers
<1> HIDE DEF e, Size
<1>11. e.time <= Duration(r, current, Size)
  BY <1>7, <1>8, <1>9, <1>10, ScaleUp
<1> DEFINE k == EndOf(r, IF i < n THEN current ELSE NoCurrent, i)
<1>12. k.time \in Int /\ k.time <= e.time
  <2>1. CASE i = n
    <3>1. ~(i < n) /\ k = e
      BY <1>3, <2>1 DEF e
    <3> QED BY <1>6, <3>1
  <2>2. CASE i # n
    <3>1. i < n
      BY <1>3, <2>2
    <3>2. EndOf(r, current, i).time \in Int
      BY <1>2, <1>3, <1>4, EndSeen
    <3>3. EndOf(r, current, i).time <= r[n].pcr_offset
      BY <1>2, <1>3, <1>4, <1>5, <3>1, EndsBefore
    <3> QED BY <1>6, <3>1, <3>2, <3>3
  <2> QED BY <2>1, <2>2
<1>13. Duration(r, current, Size) \in Int
  <2>1. Size \in Int /\ e.time \in Int /\ e.offset \in Int
    BY <1>8, <1>9, <1>10
  <2>2. Scale(Size, e.time, e.offset) \in Nat
    BY <2>1, ScaleType
  <2> QED BY <1>7, <2>2
<1> QED BY <1>8, <1>11, <1>12, <1>13

\* With PCRs that rise no time is in two groups, and the search stops at the one that has it.
LEMMA OneHasIt ==
  ASSUME NEW f, FileOK(f), NEW gs, Shaped(f, gs), gs # <<>>, NEW c, Windows(f, gs, c), Ordered(gs, c),
         NEW guess, Timed(f, gs, guess), Ris(f, gs[Len(gs)].first_offset),
         NEW i \in 1 .. Len(gs), NEW q \in Int,
         gs[i].pcr_offset <= q, q <= EndOf(gs, c, i).time
  PROVE  /\ \A k \in 1 .. Len(gs) :
              gs[k].pcr_offset <= q /\ q <= EndOf(gs, c, k).time => k = i
         /\ c.group # i /\ i < Len(gs) => Stop(gs, q) = i
<1>1. /\ gs \in Seq(Groups) /\ Len(gs) \in Nat /\ Len(gs) \in 1 .. Len(gs)
      /\ \A k \in 1 .. Len(gs) : /\ gs[k].pcr_offset \in Int /\ gs[k].first_offset \in Nat
                                 /\ EndOf(gs, c, k).time \in Int
  <2>1. gs \in Seq(Groups) /\ Len(gs) \in Nat
    BY LenProperties DEF Shaped
  <2> QED BY <2>1, ShapedGroup, EndSeen
<1>2. Spaced(gs) /\ Firsts(gs)
  BY <1>1, OrderedSpaced, SpacedFirsts
<1>3. ASSUME NEW k \in 1 .. Len(gs) PROVE Ris(f, gs[k].first_offset) /\ Asc(f, gs[k].first_offset)
  <2>1. gs[k].first_offset <= gs[Len(gs)].first_offset
    BY <1>1, <1>2, FirstsClimb
  <2>2. Ris(f, gs[k].first_offset)
    <3>1. SUFFICES ASSUME NEW l \in 1 .. Len(f), NEW m \in 1 .. Len(f),
                          l < m, f[m].offset <= gs[k].first_offset
                   PROVE  f[l].pcr < f[m].pcr
      BY DEF Ris
    <3>2. f[m].offset \in Nat /\ gs[Len(gs)].first_offset \in Nat /\ gs[k].first_offset \in Nat
      BY <1>1, InFile
    <3>3. f[m].offset <= gs[Len(gs)].first_offset
      BY <2>1, <3>1, <3>2
    <3> QED BY <3>1, <3>3 DEF Ris
  <2> QED BY <2>2, RisAsc
<1>4. ASSUME NEW a \in 1 .. Len(gs), NEW b \in 1 .. Len(gs), a < b
      PROVE  EndOf(gs, c, a).time < gs[b].pcr_offset
  <2>1. Ris(f, gs[b].first_offset) /\ Asc(f, gs[b].first_offset)
    BY <1>3
  <2> QED BY <1>4, <2>1, EndsBefore
<1>5. ASSUME NEW k \in 1 .. Len(gs), gs[k].pcr_offset <= q, q <= EndOf(gs, c, k).time
      PROVE  k = i
  <2>1. ~ (k < i)
    BY <1>1, <1>4, <1>5
  <2>2. ~ (i < k)
    BY <1>1, <1>4, <1>5
  <2> QED BY <1>1, <2>1, <2>2
<1>6. ASSUME c.group # i, i < Len(gs) PROVE Stop(gs, q) = i
  <2> DEFINE k == Stop(gs, q)
  <2>1. /\ k \in 1 .. Len(gs)
        /\ gs[k].pcr_offset > q \/ k = Len(gs) \/ EndTime(gs[k]) >= q
        /\ \A j \in 1 .. Len(gs) : j < k =>
              ~ (gs[j].pcr_offset > q) /\ j # Len(gs) /\ ~ (EndTime(gs[j]) >= q)
    BY <1>1, StopIs
  <2> HIDE DEF k
  <2>2. ~ (i < k)
    <3>1. EndOf(gs, c, i).time = EndTime(gs[i])
      BY <1>6 DEF EndOf, EndTime
    <3>2. EndTime(gs[i]) >= q
      BY <1>1, <3>1
    <3> QED BY <2>1, <3>2
  <2>3. ~ (k < i)
    <3>1. SUFFICES ASSUME k < i PROVE FALSE
      OBVIOUS
    <3>2. gs[k].pcr_offset <= EndOf(gs, c, k).time /\ EndOf(gs, c, k).time < gs[i].pcr_offset
      BY <1>4, <2>1, <3>1, EndSeen
    <3>3. ~ (gs[k].pcr_offset > q)
      BY <1>1, <2>1, <3>2
    <3>4. k # Len(gs)
      BY <1>1, <2>1, <3>1
    <3>5. EndTime(gs[k]) >= q
      BY <2>1, <3>3, <3>4
    <3>6. EndOf(gs, NoCurrent, k).time = EndTime(gs[k])
      <4>1. NoCurrent.group # k
        BY <2>1, NoWindow
      <4> QED BY <4>1 DEF EndOf, EndTime
    <3>7. EndOf(gs, NoCurrent, k).time < gs[i].pcr_offset
      <4>1. Windows(f, gs, NoCurrent) /\ Ordered(gs, NoCurrent)
        BY <1>1, <1>2, NoWindow, SpacedOrdered
      <4>2. Ris(f, gs[i].first_offset) /\ Asc(f, gs[i].first_offset)
        BY <1>3
      <4> QED BY <2>1, <3>1, <4>1, <4>2, EndsBefore
    <3>8. EndOf(gs, NoCurrent, k).time \in Int
      BY <2>1, NoWindow, EndSeen
    <3> QED BY <1>1, <3>5, <3>6, <3>7, <3>8
  <2>4. k \in Int /\ i \in Int
    BY <1>1, <2>1
  <2>5. k = i
    BY <2>2, <2>3, <2>4
  <2> QED BY <2>5 DEF k
<1> QED BY <1>5, <1>6

LEMMA SeekInside ==
  ASSUME Inv
  PROVE  LandsInside
<1>1. SUFFICES ASSUME ~ overran, groups # <<>>, Rising(Last(groups).first_offset),
                      NEW q \in Times, NEW i \in 1 .. Len(groups),
                      Within(q, i), i < Len(groups) \/ current.group = i
               PROVE  /\ groups[i].first_offset <= TsToOffset(groups, current, q)
                      /\ TsToOffset(groups, current, q) <= EndOf(groups, current, i).offset
  BY DEF LandsInside
<1>2. /\ FileOK(file) /\ Shaped(file, groups) /\ Windows(file, groups, current)
      /\ Ordered(groups, current) /\ Timed(file, groups, guessed)
      /\ groups \in Seq(Groups) /\ q \in Int /\ q \in Nat
  BY <1>1, BroughtUp, Numbers DEF Main
<1>3. Ris(file, groups[Len(groups)].first_offset)
  BY <1>1 DEF Ris, Rising, Last
<1>4. groups[i].pcr_offset <= q /\ q <= EndOf(groups, current, i).time
  BY <1>1 DEF Within
<1>5. /\ \A k \in 1 .. Len(groups) :
           groups[k].pcr_offset <= q /\ q <= EndOf(groups, current, k).time => k = i
      /\ current.group # i /\ i < Len(groups) => Stop(groups, q) = i
  BY <1>1, <1>2, <1>3, <1>4, OneHasIt
<1>6. TsToOffset(groups, current, q) = OnLine(q, StartOf(groups, i), EndOf(groups, current, i))
  <2>1. CASE InCurrent(groups, current, q)
    <3> DEFINE m == current.group
    <3>1. m # 0 /\ q - groups[m].pcr_offset \in 0 .. Last(current.pending).pcr
      BY <2>1 DEF InCurrent
    <3>2. m \in 1 .. Len(groups) /\ Last(current.pending).pcr \in Nat
      BY <1>2, <3>1, WindowIs
    <3>3. groups[m].pcr_offset \in Int
      BY <1>2, <3>2, ShapedGroup
    <3>4. EndOf(groups, current, m).time = groups[m].pcr_offset + Last(current.pending).pcr
      BY DEF EndOf
    <3>5. TsToOffset(groups, current, q) = OnLine(q, StartOf(groups, m), EndOf(groups, current, m))
      BY <2>1, TsToOffsetIs
    <3> HIDE DEF m
    <3>6. groups[m].pcr_offset <= q /\ q <= groups[m].pcr_offset + Last(current.pending).pcr
      BY <1>2, <3>1, <3>2, <3>3
    <3>7. m = i
      BY <1>5, <3>2, <3>4, <3>6
    <3> QED BY <3>5, <3>7
  <2>2. CASE ~ InCurrent(groups, current, q)
    <3>1. current.group # i
      <4>1. SUFFICES ASSUME current.group = i PROVE FALSE
        OBVIOUS
      <4>2. i # 0 /\ Last(current.pending).pcr \in Nat /\ groups[i].pcr_offset \in Int
        <5>1. i # 0 /\ groups[i].pcr_offset \in Int
          BY <1>2, ShapedGroup
        <5>2. current.group # 0
          BY <4>1, <5>1
        <5> QED BY <1>2, <5>1, <5>2, WindowIs
      <4>3. EndOf(groups, current, i).time = groups[i].pcr_offset + Last(current.pending).pcr
        BY <4>1 DEF EndOf
      <4>4. q - groups[i].pcr_offset \in 0 .. Last(current.pending).pcr
        BY <1>2, <1>4, <4>2, <4>3
      <4> QED BY <2>2, <4>1, <4>2, <4>4 DEF InCurrent
    <3>2. Stop(groups, q) = i /\ i < Len(groups)
      BY <1>1, <1>5, <3>1
    <3>3. ~ Between(groups, q)
      <4>1. i # Len(groups) /\ ~ (groups[i].pcr_offset > q)
        <5>1. Len(groups) \in Nat /\ groups[i].pcr_offset \in Int
          BY <1>2, LenProperties, ShapedGroup
        <5> QED BY <1>2, <1>4, <3>2, <5>1
      <4> QED BY <3>2, <4>1 DEF Between
    <3>4. TsToOffset(groups, current, q)
            = OnLine(q, StartOf(groups, Stop(groups, q)), EndOf(groups, current, Stop(groups, q)))
      BY <2>2, <3>3, TsToOffsetIs
    <3> QED BY <3>2, <3>4
  <2> QED BY <2>1, <2>2
<1>7. /\ StartOf(groups, i) \in Points /\ EndOf(groups, current, i) \in Points
      /\ StartOf(groups, i).offset = groups[i].first_offset
      /\ StartOf(groups, i).time = groups[i].pcr_offset
      /\ EndOf(groups, current, i).offset = Ends(groups, current, i)
      /\ groups[i].first_offset <= Ends(groups, current, i)
  <2>1. FromTo(groups, current, i)
    BY <1>2, GroupPoints
  <2> QED BY <2>1 DEF FromTo
<1>8. /\ StartOf(groups, i).offset <= OnLine(q, StartOf(groups, i), EndOf(groups, current, i))
      /\ StartOf(groups, i).time <= q /\ q <= EndOf(groups, current, i).time
           /\ StartOf(groups, i).offset <= EndOf(groups, current, i).offset =>
         OnLine(q, StartOf(groups, i), EndOf(groups, current, i)) <= EndOf(groups, current, i).offset
  BY <1>2, <1>7, OnLineIs
<1> QED BY <1>4, <1>6, <1>7, <1>8

\* A reset goes back before the start of the group that was before it.
LEMMA Detected ==
  ASSUME FileOK(file), Detectable,
         NEW a, NEW x, NEW b, NEW y, NEW d, NEW z, Entry(file, a, x), Entry(file, b, y), Entry(file, d, z),
         x <= y, y < z, a <= d
  PROVE  b <= d
<1>1. PICK i \in 1 .. Len(file) : file[i].pcr = a /\ file[i].offset = x
  BY DEF Entry
<1>2. PICK j \in 1 .. Len(file) : file[j].pcr = b /\ file[j].offset = y
  BY DEF Entry
<1>3. PICK k \in 1 .. Len(file) : file[k].pcr = d /\ file[k].offset = z
  BY DEF Entry
<1>4. i <= j /\ j < k
  BY <1>1, <1>2, <1>3, InFile
<1>5. a \in Nat /\ b \in Nat /\ d \in Nat /\ Len(file) \in Nat
  BY EntryIs DEF FileOK
<1>6. i \in 1 .. j /\ k \in k .. Len(file)
  BY <1>4, <1>5
<1>7. SUFFICES ASSUME d < b PROVE FALSE
  BY <1>5
<1>8. file[k].pcr < file[j].pcr
  BY <1>2, <1>3, <1>7
<1>9. file[k].pcr < file[i].pcr
  BY <1>4, <1>6, <1>8 DEF Detectable
<1> QED BY <1>1, <1>3, <1>5, <1>9

\* At the bitrate of its observations a group has come to its end before the next one starts.
LEMMA FarEnough ==
  ASSUME NEW lo \in Nat \ {0}, NEW lp \in Nat \ {0}, lp <= Half * lo, NEW d \in Nat, lo <= d
  PROVE  /\ Scale(Second, lo, lp) \in Nat \ {0}
         /\ lp <= Scale(Second, d, Scale(Second, lo, lp))
<1> DEFINE rate == Scale(Second, lo, lp)
           a == Second * lo
<1>1. Second \in Nat /\ Half \in Nat /\ Half <= Second /\ lo \in Nat /\ lp \in Nat
  BY Numbers
<1>2. a \in Nat /\ Half * lo <= a /\ a <= Second * d /\ Second * d \in Nat /\ Half * lo \in Nat
  BY <1>1, TimesUp
<1>3. rate = a \div lp
  BY <1>1, ScaleIs
<1> HIDE DEF rate, a
<1>4. rate \in Nat /\ rate * lp <= a
  BY <1>2, <1>3, DivIs
<1>5. 1 <= rate
  <2>1. 1 * lp <= a /\ 1 \in Nat
    BY <1>1, <1>2
  <2> QED BY <1>2, <1>3, <2>1, DivAtLeast
<1>6. rate \in Nat \ {0}
  BY <1>4, <1>5
<1>7. lp * rate <= Second * d
  <2>1. lp * rate = rate * lp /\ rate * lp \in Nat
    BY <1>1, <1>4, TimesUp
  <2> QED BY <1>2, <1>4, <2>1
<1>8. lp <= (Second * d) \div rate
  BY <1>1, <1>2, <1>6, <1>7, DivAtLeast
<1>9. Scale(Second, d, rate) = (Second * d) \div rate
  BY <1>1, <1>6, ScaleIs
<1> QED BY <1>6, <1>8, <1>9 DEF rate

LEMMA TimesInOrder ==
  ASSUME Inv, ~ overran, Detectable, ~ guessed, ~ Wraps(Reevaluated(groups, current)),
         NEW i \in 1 .. Len(groups) - 1,
         \/ Est(Reevaluated(groups, current)[i + 1])
         \/ Ascending(Reevaluated(groups, current)[i + 1].first_offset - 1)
  PROVE  EndOf(Reevaluated(groups, current), current, i).time
           <= Reevaluated(groups, current)[i + 1].pcr_offset
<1> DEFINE r == Reevaluated(groups, current)
           k == i + 1
           t == EndOf(r, current, i).time
<1>1. /\ FileOK(file) /\ Main(file, groups, current, pos, guessed)
      /\ Done(r, groups, current, Len(groups)) /\ Main(file, r, current, pos, guessed \/ Wraps(r))
      /\ groups \in Seq(Groups) /\ Spaced(groups) /\ Len(groups) \in Nat
  BY BroughtUp
<1>2. ~ guessed /\ ~ Wraps(r) /\ (Est(r[k]) \/ Ascending(r[k].first_offset - 1))
  OBVIOUS
<1> HIDE DEF r
<1>3. /\ Shaped(file, r) /\ Windows(file, r, current) /\ Ordered(r, current)
      /\ Timed(file, r, guessed \/ Wraps(r)) /\ r \in Seq(Groups) /\ SameObs(r, groups)
      /\ Len(r) = Len(groups) /\ Windows(file, groups, current)
  BY <1>1 DEF Main, Shaped, Done, SameObs
<1>4. /\ i \in 1 .. Len(groups) /\ k \in 1 .. Len(groups) /\ k \in 2 .. Len(groups) /\ k - 1 = i
      /\ i \in 1 .. Len(r) /\ k \in 1 .. Len(r) /\ k \in 2 .. Len(r) /\ i \in 1 .. Len(r) - 1
      /\ k <= Len(groups)
  BY <1>1, <1>3
<1>5. /\ t \in Int /\ Delta(r[i]) \in Int /\ r[i].pcr_offset \in Int
      /\ Entry(file, t - Delta(r[i]), Ends(r, current, i))
      /\ r[i].first_offset <= Ends(r, current, i)
      /\ r[i].first_offset \in Nat /\ Ends(r, current, i) \in Nat
  BY <1>1, <1>3, <1>4, EndSeen
<1>6. Ends(r, current, i) < r[k].first_offset
  BY <1>3, <1>4 DEF Ordered
<1>7. /\ r[k].pcr_offset \in Int /\ r[k].first_pcr \in Nat /\ r[k].first_offset \in Nat
      /\ Entry(file, r[k].first_pcr, r[k].first_offset)
      /\ Entry(file, r[i].first_pcr, r[i].first_offset) /\ r[i].first_pcr \in Nat
      /\ r[i].pcr_offset = Delta(r[i]) + r[i].first_pcr
  BY <1>1, <1>3, <1>4, ShapedGroup
<1>8. After(file, r[i], r[k], guessed \/ Wraps(r))
  BY <1>3, <1>4 DEF Timed
<1>9. Clause(groups, current, r, k)
  BY <1>1, <1>4 DEF Done
<1>10. /\ r[k].first_pcr = groups[k].first_pcr /\ r[i].first_pcr = groups[i].first_pcr
       /\ r[k].first_offset = groups[k].first_offset /\ r[i].first_offset = groups[i].first_offset
       /\ r[i].values = groups[i].values
  BY <1>3, <1>4 DEF SameObs
<1>11. t - Delta(r[i]) \in Nat
  BY <1>1, <1>5, EntryIs
<1> HIDE DEF t, r
<1>12. CASE ~ Est(r[k])
  <2>1. Asc(file, r[k].first_offset - 1)
    BY <1>2, <1>12 DEF Asc, Ascending
  <2>2. PICK j \in 1 .. Len(file) : file[j].pcr = t - Delta(r[i]) /\ file[j].offset = Ends(r, current, i)
    BY <1>5 DEF Entry
  <2>3. Delta(r[i]) + file[j].pcr <= r[k].pcr_offset
    BY <1>2, <1>5, <1>6, <1>8, <1>12, <2>1, <2>2 DEF After
  <2>4. Delta(r[i]) + file[j].pcr = t
    BY <1>5, <2>2
  <2> QED BY <2>3, <2>4 DEF t, r
<1>13. CASE Est(r[k]) /\ groups[i].first_pcr <= groups[k].first_pcr
  <2>1. Est(groups[k])
    BY <1>9, <1>13 DEF Clause
  <2>2. r[k].pcr_offset = r[i].pcr_offset + groups[k].first_pcr - groups[i].first_pcr
    BY <1>4, <1>9, <1>13, <2>1 DEF Clause
  <2>3. t - Delta(r[i]) <= r[k].first_pcr
    BY <1>1, <1>5, <1>6, <1>7, <1>10, <1>13, Detected
  <2>4. t <= r[k].pcr_offset
    <3>1. /\ r[k].pcr_offset = (Delta(r[i]) + r[i].first_pcr) + r[k].first_pcr - r[i].first_pcr
          /\ t \in Int /\ Delta(r[i]) \in Int /\ r[i].first_pcr \in Nat /\ r[k].first_pcr \in Nat
      BY <1>5, <1>7, <1>10, <2>2
    <3> QED BY <2>3, <3>1
  <2> QED BY <2>4 DEF t, r
<1>14. CASE Est(r[k]) /\ ~ (groups[i].first_pcr <= groups[k].first_pcr)
  <2> DEFINE l == Latest(groups, current, i)
  <2>1. Est(groups[k])
    BY <1>9, <1>14 DEF Clause
  <2>2. groups[k].first_pcr < groups[i].first_pcr
    BY <1>7, <1>10, <1>14
  <2>3. "wrapover" \notin r[i].flags
    BY <1>2, <1>4 DEF Wraps
  <2>4. PICK rate \in Nat, full \in Nat :
          /\ l.offset # 0 => rate = Scale(Second, l.offset, l.pcr)
          /\ rate # 0 => full = Scale(Second, groups[k].first_offset - groups[i].first_offset, rate)
          /\ r[k].pcr_offset = r[i].pcr_offset + full + Tenth
    BY <1>4, <1>9, <2>1, <2>2, <2>3 DEF Clause
  <2> DEFINE v == IF current.group = i THEN Last(current.pending) ELSE Last(groups[i].values)
  <2>5. t = r[i].pcr_offset + v.pcr /\ Ends(r, current, i) = r[i].first_offset + v.offset
    BY <1>10 DEF t, EndOf, Ends
  <2>6. v.pcr \in Nat /\ v.offset \in Nat /\ v.pcr <= Half * v.offset
    <3>1. CASE current.group = i
      <4>1. current.group # 0
        BY <3>1
      <4>2. /\ Last(current.pending).pcr \in Nat /\ Last(current.pending).offset \in Nat
            /\ Seen(file, groups[current.group], Last(current.pending))
        BY <1>3, <4>1, WindowIs
      <4> QED BY <3>1, <4>2 DEF Seen
    <3>2. CASE current.group # i
      <4>1. groups[i] \in Groups /\ Seen(file, groups[i], Last(groups[i].values))
        BY <1>1, <1>4, ShapedGroup DEF Main
      <4> QED BY <3>2, <4>1, GroupFields DEF Seen
    <3> QED BY <3>1, <3>2
  <2>7. v.offset # 0 => l = v
    BY DEF Latest
  <2> HIDE DEF v, l
  <2>8. v.pcr <= full
    <3>1. CASE v.pcr = 0
      BY <3>1
    <3>2. CASE v.pcr # 0
      <4>1. v.offset # 0
        <5>1. v.offset = 0 => Half * v.offset = 0
          BY Numbers
        <5> QED BY <2>6, <3>2, <5>1
      <4> DEFINE d == groups[k].first_offset - groups[i].first_offset
      <4>2. d \in Nat /\ v.offset <= d
        <5>1. /\ groups[i].first_offset + v.offset < groups[k].first_offset
              /\ groups[i].first_offset \in Nat /\ groups[k].first_offset \in Nat /\ v.offset \in Nat
          BY <1>5, <1>6, <1>7, <1>10, <2>5, <2>6
        <5> QED BY <5>1
      <4>3. rate = Scale(Second, v.offset, v.pcr) /\ (rate # 0 => full = Scale(Second, d, rate))
        BY <2>4, <2>7, <4>1
      <4> HIDE DEF d
      <4>4. v.offset \in Nat \ {0} /\ v.pcr \in Nat \ {0}
        BY <2>6, <3>2, <4>1
      <4>5. Scale(Second, v.offset, v.pcr) \in Nat \ {0}
            /\ v.pcr <= Scale(Second, d, Scale(Second, v.offset, v.pcr))
        BY <2>6, <4>2, <4>4, FarEnough
      <4> QED BY <4>3, <4>5
    <3> QED BY <3>1, <3>2
  <2>9. t <= r[k].pcr_offset
    <3>1. /\ t = r[i].pcr_offset + v.pcr /\ r[k].pcr_offset = r[i].pcr_offset + full + Tenth
          /\ r[i].pcr_offset \in Int /\ v.pcr \in Nat /\ full \in Nat /\ Tenth \in Nat
      BY <1>5, <2>4, <2>5, <2>6, Numbers
    <3> QED BY <2>8, <3>1
  <2> QED BY <2>9 DEF t, r
<1> QED BY <1>12, <1>13, <1>14 DEF r, t

LEMMA OrderIs ==
  ASSUME Inv
  PROVE  InOrder
<1> DEFINE r == Reevaluated(groups, current)
<1>1. SUFFICES ASSUME ~ overran, NEW i \in 1 .. Len(groups) - 1
               PROVE  /\ EndOf(r, current, i).offset < r[i + 1].first_offset
                      /\ /\ Detectable /\ ~ guessed /\ ~ Wraps(r)
                         /\ "estimated" \in r[i + 1].flags \/ Ascending(r[i + 1].first_offset - 1)
                         => EndOf(r, current, i).time <= r[i + 1].pcr_offset
  BY DEF InOrder
<1>2. EndOf(r, current, i).offset < r[i + 1].first_offset
  <2>1. Main(file, r, current, pos, guessed \/ Wraps(r)) /\ Done(r, groups, current, Len(groups))
    BY <1>1, BroughtUp
  <2> HIDE DEF r
  <2>2. Ordered(r, current) /\ Len(r) = Len(groups)
    BY <2>1 DEF Main, Done, SameObs
  <2> QED BY <2>2 DEF Ordered, Ends
<1>3. ASSUME Detectable, ~ guessed, ~ Wraps(r),
             "estimated" \in r[i + 1].flags \/ Ascending(r[i + 1].first_offset - 1)
      PROVE  EndOf(r, current, i).time <= r[i + 1].pcr_offset
  BY <1>1, <1>3, TimesInOrder DEF Est
<1> QED BY <1>2, <1>3

\* A byte in a group, or right behind it, is taken to be in that group.
LEMMA GroupAtIs ==
  ASSUME NEW f, FileOK(f), NEW gs, Shaped(f, gs), Spaced(gs), NEW a \in 1 .. Len(gs), NEW o \in Nat,
         gs[a].first_offset <= o, o <= EndOffset(gs[a]), \A i \in 1 .. Len(f) : f[i].offset # o + 1
  PROVE  GroupAt(gs, o + 1) = a
<1> DEFINE upto == {i \in 1 .. Len(gs) : \A j \in 1 .. i : gs[j].first_offset <= o + 1}
           ins == {i \in upto : EndOffset(gs[i]) > o + 1}
<1>1. gs \in Seq(Groups) /\ Len(gs) \in Nat /\ Firsts(gs)
  BY LenProperties, SpacedFirsts DEF Shaped
<1>2. ASSUME NEW i \in 1 .. Len(gs)
      PROVE  /\ gs[i].first_offset \in Nat /\ EndOffset(gs[i]) \in Nat
             /\ gs[i].first_offset <= EndOffset(gs[i])
             /\ Entry(f, gs[i].first_pcr, gs[i].first_offset)
  <2>1. gs[i] \in Groups /\ gs[i].first_offset \in Nat /\ Entry(f, gs[i].first_pcr, gs[i].first_offset)
    BY ShapedGroup
  <2>2. Last(gs[i].values).offset \in Nat
    BY <2>1, GroupFields
  <2> QED BY <2>1, <2>2 DEF EndOffset
<1>3. ASSUME NEW i \in 1 .. Len(gs), i <= a PROVE gs[i].first_offset <= o + 1
  <2>1. gs[i].first_offset <= gs[a].first_offset
    BY <1>1, <1>3, FirstsClimb
  <2> QED BY <1>2, <2>1
<1>4. ASSUME NEW i \in 1 .. Len(gs), a < i PROVE gs[i].first_offset > o + 1
  <2>1. a \in 1 .. Len(gs) - 1 /\ a + 1 \in 1 .. Len(gs) /\ a + 1 <= i
    BY <1>1, <1>4
  <2>2. EndOffset(gs[a]) < gs[a + 1].first_offset
    BY <2>1 DEF Spaced
  <2>3. gs[a + 1].first_offset <= gs[i].first_offset
    BY <1>1, <2>1, FirstsClimb
  <2>4. gs[i].first_offset # o + 1
    BY <1>2 DEF Entry
  <2>5. /\ gs[i].first_offset \in Nat /\ gs[a + 1].first_offset \in Nat /\ EndOffset(gs[a]) \in Nat
    BY <1>2, <2>1
  <2> QED BY <2>2, <2>3, <2>4, <2>5
<1>5. upto = 1 .. a
  <2>1. ASSUME NEW i \in upto PROVE i \in 1 .. a
    <3>1. i \in 1 .. Len(gs) /\ i \in 1 .. i
      BY <1>1
    <3>2. gs[i].first_offset <= o + 1
      BY <3>1
    <3>3. ~ (a < i)
      BY <1>2, <1>4, <3>1, <3>2
    <3> QED BY <1>1, <3>1, <3>3
  <2>2. ASSUME NEW i \in 1 .. a PROVE i \in upto
    <3>1. i \in 1 .. Len(gs) /\ \A j \in 1 .. i : j \in 1 .. Len(gs) /\ j <= a
      BY <1>1
    <3> QED BY <1>3, <3>1
  <2> QED BY <2>1, <2>2
<1>6. \A i \in ins : i = a
  <2>1. SUFFICES ASSUME NEW i \in ins, i # a PROVE FALSE
    OBVIOUS
  <2>2. i \in 1 .. a /\ EndOffset(gs[i]) > o + 1
    BY <1>5
  <2> HIDE DEF ins, upto
  <2>3. /\ i \in 1 .. Len(gs) - 1 /\ i \in 1 .. Len(gs) /\ i + 1 \in 1 .. Len(gs) /\ i + 1 <= a
    BY <1>1, <2>1, <2>2
  <2>4. EndOffset(gs[i]) < gs[i + 1].first_offset
    BY <2>3 DEF Spaced
  <2>5. gs[i + 1].first_offset <= gs[a].first_offset
    BY <1>1, <2>3, FirstsClimb
  <2>6. EndOffset(gs[i]) \in Nat /\ gs[i + 1].first_offset \in Nat /\ gs[a].first_offset \in Nat
    BY <1>2, <2>3
  <2> QED BY <2>2, <2>4, <2>5, <2>6
<1>7. GroupAt(gs, o + 1) = IF ins # {} THEN LeastOf(ins) ELSE Cardinality(upto)
  BY DEF GroupAt
<1>8. ins # {} => LeastOf(ins) = a
  <2>1. ins \in SUBSET Nat
    BY <1>1
  <2> HIDE DEF ins
  <2> QED BY <1>6, <2>1, LeastExists
<1>9. Cardinality(upto) = a
  <2>1. 1 \in Int /\ a \in Int /\ ~ (1 > a)
    BY <1>1
  <2>2. Cardinality(1 .. a) = IF 1 > a THEN 0 ELSE a - 1 + 1
    BY <2>1, FS_Interval
  <2> HIDE DEF upto
  <2> QED BY <1>5, <2>1, <2>2
<1> HIDE DEF ins, upto
<1> QED BY <1>7, <1>8, <1>9

\* What a PTS becomes in a group it is not before.
LEMMA PtsIs ==
  ASSUME NEW f, FileOK(f), NEW gs, Shaped(f, gs), NEW a \in 1 .. Len(gs), NEW pts \in Nat, NEW o,
         GroupAt(gs, o) = a, gs[a].first_pcr <= pts
  PROVE  \/ PtsToTs(gs, NoCurrent, pts, o) = NoTime
         \/ PtsToTs(gs, NoCurrent, pts, o) = Delta(gs[a]) + pts
<1>1. NoCurrent.group = 0
  BY NoWindow
<1>2. gs[a].first_pcr \in Nat /\ gs[a].pcr_offset \in Int
  BY ShapedGroup
<1> DEFINE first == gs[a].first_pcr
           known == a # 0 /\ (NoCurrent.group # 0 \/ "reset" \notin gs[a].flags)
<1>3. PtsToTs(gs, NoCurrent, pts, o)
        = IF ~ known THEN NoTime
          ELSE CASE pts >= first -> pts - first + gs[a].pcr_offset
                 [] first - pts > Second -> pts + PcrMax - first + gs[a].pcr_offset
                 [] OTHER -> NoTime
  BY <1>1 DEF PtsToTs
<1>4. pts >= first /\ ~ (first - pts > Second)
  BY <1>2, Numbers
<1>5. known => PtsToTs(gs, NoCurrent, pts, o) = pts - first + gs[a].pcr_offset
  <2> HIDE DEF known, first
  <2> QED BY <1>3, <1>4, Zenon
<1>6. ~ known => PtsToTs(gs, NoCurrent, pts, o) = NoTime
  <2> HIDE DEF known, first
  <2> QED BY <1>3, Zenon
<1>7. pts - first + gs[a].pcr_offset = Delta(gs[a]) + pts
  BY <1>2 DEF Delta
<1> HIDE DEF known, first
<1> QED BY <1>5, <1>6, <1>7

\* The groups when the window is closed.
LEMMA ClosedUp ==
  ASSUME Inv, ~ overran, NEW r, r = Closed(groups, current)
  PROVE  /\ FileOK(file) /\ Shaped(file, r) /\ Spaced(r) /\ Firsts(r)
         /\ Timed(file, r, guessed) /\ (r # <<>> => r[1].pcr_offset \in Nat)
         /\ Len(r) = Len(groups) /\ r \in Seq(Groups)
         /\ \A k \in 1 .. Len(groups) : /\ r[k].first_offset = groups[k].first_offset
                                        /\ EndOffset(r[k]) = Ends(groups, current, k)
<1>1. /\ FileOK(file) /\ Main(file, groups, current, pos, guessed)
      /\ groups \in Seq(Groups) /\ Len(groups) \in Nat
  BY BroughtUp
<1>2. /\ Shaped(file, groups) /\ Windows(file, groups, current) /\ Ordered(groups, current)
  BY <1>1 DEF Main
<1>3. /\ Shaped(file, r) /\ Timed(file, r, guessed) /\ Fronted(file, r, pos) /\ Same(r, groups)
  BY <1>1, ClosedMain
<1>4. /\ Spaced(r) /\ \A k \in 1 .. Len(groups) : EndOffset(r[k]) = Ends(groups, current, k)
  BY <1>1, <1>2, ClosedIs
<1>5. r \in Seq(Groups) /\ Len(r) = Len(groups)
  BY <1>3 DEF Shaped, Same
<1>6. Firsts(r)
  BY <1>4, <1>5, SpacedFirsts
<1>7. \A k \in 1 .. Len(groups) : r[k].first_offset = groups[k].first_offset
  BY <1>1, <1>3, <1>5 DEF Same
<1>8. r # <<>> => r[1].pcr_offset \in Nat
  BY <1>3 DEF Fronted
<1> QED BY <1>1, <1>3, <1>4, <1>5, <1>6, <1>7, <1>8

\* PCRs i and j of the file are in groups a and b.
InGroups(f, gs, guess, a, b, i, j) ==
  /\ FileOK(f) /\ Shaped(f, gs) /\ Firsts(gs) /\ Spaced(gs) /\ Timed(f, gs, guess)
  /\ gs[1].pcr_offset \in Nat
  /\ a \in 1 .. Len(gs) /\ b \in 1 .. Len(gs) /\ i \in 1 .. Len(f) /\ j \in 1 .. Len(f)
  /\ i < j /\ Asc(f, f[j].offset)
  /\ gs[a].first_offset <= f[i].offset /\ f[i].offset <= EndOffset(gs[a])
  /\ gs[b].first_offset <= f[j].offset /\ f[j].offset <= EndOffset(gs[b])

\* The stream times of two PTSs, in groups a and b.
LEMMA TwoTimes ==
  ASSUME NEW f, NEW gs, NEW guess, NEW a, NEW b, NEW i, NEW j, InGroups(f, gs, guess, a, b, i, j)
  PROVE  /\ Delta(gs[a]) + f[i].pcr <= Delta(gs[b]) + f[j].pcr /\ 0 <= Delta(gs[b]) + f[j].pcr
         /\ gs[a].first_pcr <= f[i].pcr /\ gs[b].first_pcr <= f[j].pcr
<1>1. /\ FileOK(f) /\ Shaped(f, gs) /\ Firsts(gs) /\ Spaced(gs) /\ Timed(f, gs, guess)
      /\ gs[1].pcr_offset \in Nat
  BY DEF InGroups
<1>2. /\ a \in 1 .. Len(gs) /\ b \in 1 .. Len(gs) /\ i \in 1 .. Len(f) /\ j \in 1 .. Len(f)
      /\ i < j /\ Asc(f, f[j].offset)
  BY DEF InGroups
<1>3. /\ gs[a].first_offset <= f[i].offset /\ f[i].offset <= EndOffset(gs[a])
      /\ gs[b].first_offset <= f[j].offset /\ f[j].offset <= EndOffset(gs[b])
  BY DEF InGroups
<1>4. /\ f[i].pcr \in Nat /\ f[j].pcr \in Nat /\ f[i].offset \in Nat /\ f[j].offset \in Nat
      /\ f[i].offset < f[j].offset
  BY <1>1, <1>2, InFile
<1>5. f[j].offset \in Int /\ f[i].offset <= f[j].offset /\ f[j].offset <= f[j].offset
  BY <1>4
<1>6. gs \in Seq(Groups) /\ Len(gs) \in Nat
  BY <1>1, LenProperties DEF Shaped
<1>7. 1 \in 1 .. Len(gs) /\ 1 <= b /\ a \in Nat /\ b \in Nat
  BY <1>2, <1>6
<1>8. /\ Entry(f, f[i].pcr, f[i].offset) /\ Entry(f, f[j].pcr, f[j].offset)
  BY <1>2 DEF Entry
<1>9. ASSUME NEW k \in 1 .. Len(gs)
      PROVE  /\ gs[k].first_pcr \in Nat /\ gs[k].first_offset \in Nat /\ gs[k].pcr_offset \in Int
             /\ Delta(gs[k]) \in Int /\ gs[k].pcr_offset = Delta(gs[k]) + gs[k].first_pcr
             /\ Entry(f, gs[k].first_pcr, gs[k].first_offset) /\ EndOffset(gs[k]) \in Nat
  <2>1. /\ gs[k] \in Groups /\ gs[k].first_pcr \in Nat /\ gs[k].first_offset \in Nat
        /\ gs[k].pcr_offset \in Int
        /\ Delta(gs[k]) \in Int /\ gs[k].pcr_offset = Delta(gs[k]) + gs[k].first_pcr
        /\ Entry(f, gs[k].first_pcr, gs[k].first_offset)
    BY <1>1, ShapedGroup
  <2>2. Last(gs[k].values).offset \in Nat
    BY <2>1, GroupFields
  <2>3. EndOffset(gs[k]) = gs[k].first_offset + Last(gs[k].values).offset
    BY DEF EndOffset
  <2>4. EndOffset(gs[k]) \in Nat
    BY <2>1, <2>2, <2>3
  <2> QED BY <2>1, <2>4
<1>10. gs[a].first_pcr <= f[i].pcr
  <2>1. Entry(f, gs[a].first_pcr, gs[a].first_offset)
    BY <1>2, <1>9
  <2> QED BY <1>1, <1>2, <1>3, <1>5, <1>8, <2>1, AscTwo
<1>11. gs[b].first_pcr <= f[j].pcr
  <2>1. Entry(f, gs[b].first_pcr, gs[b].first_offset)
    BY <1>2, <1>9
  <2> QED BY <1>1, <1>2, <1>3, <1>5, <1>8, <2>1, AscTwo
<1>12. f[i].pcr <= f[j].pcr
  BY <1>2, <1>5 DEF Asc
<1>13. Asc(f, gs[b].first_offset)
  <2>1. gs[b].first_offset \in Int
    BY <1>2, <1>9
  <2> QED BY <1>1, <1>2, <1>3, <1>5, <2>1, AscDown
<1>14. /\ Delta(gs[a]) \in Int /\ Delta(gs[b]) \in Int /\ gs[b].pcr_offset \in Int
       /\ gs[b].pcr_offset = Delta(gs[b]) + gs[b].first_pcr /\ gs[b].first_pcr \in Nat
  BY <1>2, <1>9
<1>15. gs[b].pcr_offset <= Delta(gs[b]) + f[j].pcr
  BY <1>4, <1>11, <1>14
<1>16. Delta(gs[a]) + f[i].pcr \in Int /\ Delta(gs[b]) + f[j].pcr \in Int
  BY <1>4, <1>14
<1>17. 0 <= Delta(gs[b]) + f[j].pcr
  <2>1. gs[1].pcr_offset <= gs[b].pcr_offset
    BY <1>1, <1>2, <1>7, <1>13, TimesClimb
  <2>2. 0 <= gs[1].pcr_offset /\ gs[1].pcr_offset \in Int
    BY <1>1
  <2>3. 0 <= gs[b].pcr_offset
    BY <1>14, <2>1, <2>2
  <2> QED BY <1>14, <1>15, <1>16, <2>3
<1>18. a <= b
  <2>1. SUFFICES ASSUME b < a PROVE FALSE
    BY <1>7
  <2>2. b \in 1 .. Len(gs) - 1 /\ b + 1 \in 1 .. Len(gs) /\ b + 1 <= a
    BY <1>2, <1>6, <2>1
  <2>3. EndOffset(gs[b]) < gs[b + 1].first_offset
    BY <1>1, <2>2 DEF Spaced
  <2>4. gs[b + 1].first_offset <= gs[a].first_offset
    BY <1>1, <1>2, <2>2, FirstsClimb
  <2>5. EndOffset(gs[b]) \in Nat /\ gs[b + 1].first_offset \in Nat /\ gs[a].first_offset \in Nat
    BY <1>2, <1>9, <2>2
  <2>6. EndOffset(gs[b]) < gs[a].first_offset
    BY <2>3, <2>4, <2>5
  <2>7. gs[a].first_offset < f[j].offset
    BY <1>3, <1>4, <2>5
  <2> QED BY <1>3, <1>4, <2>5, <2>6, <2>7
<1>19. Delta(gs[a]) + f[i].pcr <= Delta(gs[b]) + f[j].pcr
  <2>1. CASE a = b
    BY <1>4, <1>12, <1>14, <2>1
  <2>2. CASE a # b
    <3>1. /\ a + 1 \in 1 .. Len(gs) /\ a + 1 \in 2 .. Len(gs) /\ (a + 1) - 1 = a /\ a + 1 <= b
          /\ a \in 1 .. Len(gs) - 1
      BY <1>2, <1>6, <1>18, <2>2
    <3>2. EndOffset(gs[a]) < gs[a + 1].first_offset
      BY <1>1, <3>1 DEF Spaced
    <3>3. EndOffset(gs[a]) \in Nat /\ gs[a + 1].first_offset \in Nat /\ gs[a + 1].pcr_offset \in Int
      <4>1. EndOffset(gs[a]) \in Nat
        BY <1>2, <1>9
      <4>2. gs[a + 1].first_offset \in Nat /\ gs[a + 1].pcr_offset \in Int
        BY <1>9, <3>1
      <4> QED BY <4>1, <4>2
    <3>4. f[i].offset < gs[a + 1].first_offset
      BY <1>3, <1>4, <3>2, <3>3
    <3>5. gs[a + 1].first_offset <= gs[b].first_offset
      BY <1>1, <1>2, <3>1, FirstsClimb
    <3>6. Asc(f, gs[a + 1].first_offset)
      <4>1. gs[b].first_offset \in Int /\ gs[a + 1].first_offset \in Int
        BY <1>2, <1>9, <3>1
      <4> QED BY <1>1, <1>13, <3>5, <4>1, AscDown
    <3>7. Delta(gs[(a + 1) - 1]) + f[i].pcr <= gs[a + 1].pcr_offset
      BY <1>1, <1>3, <1>8, <3>1, <3>4, <3>6, ChainIs
    <3>8. gs[a + 1].pcr_offset <= gs[b].pcr_offset
      BY <1>1, <1>2, <1>13, <3>1, TimesClimb
    <3>9. Delta(gs[a]) + f[i].pcr <= gs[a + 1].pcr_offset
      BY <3>1, <3>7
    <3>10. Delta(gs[a]) + f[i].pcr <= gs[b].pcr_offset
      BY <1>14, <1>16, <3>3, <3>8, <3>9
    <3> QED BY <1>14, <1>15, <1>16, <3>10
  <2> QED BY <2>1, <2>2
<1> QED BY <1>10, <1>11, <1>17, <1>19

LEMMA Forward ==
  ASSUME Inv
  PROVE  TimesForward
<1> DEFINE r == Closed(groups, current)
           T(i) == PtsToTs(r, NoCurrent, file[i].pcr, file[i].offset + 1)
           D == {i \in 1 .. Len(file) : Observed(file[i])}
           ts == [i \in D |-> T(i)]
<1>1. SUFFICES ASSUME ~ overran, NEW i \in D, NEW j \in D, i < j, Ascending(file[j].offset),
                      ts[j] # NoTime
               PROVE  ts[i] <= ts[j]
  BY DEF TimesForward
<1>2. ts[i] = T(i) /\ ts[j] = T(j)
  OBVIOUS
<1>3. /\ FileOK(file) /\ Shaped(file, r) /\ Spaced(r) /\ Firsts(r)
      /\ Timed(file, r, guessed) /\ (r # <<>> => r[1].pcr_offset \in Nat)
      /\ Len(r) = Len(groups) /\ r \in Seq(Groups)
      /\ \A k \in 1 .. Len(groups) : /\ r[k].first_offset = groups[k].first_offset
                                     /\ EndOffset(r[k]) = Ends(groups, current, k)
  BY <1>1, ClosedUp
<1> HIDE DEF r
<1>4. i \in 1 .. Len(file) /\ j \in 1 .. Len(file) /\ Observed(file[i]) /\ Observed(file[j])
  OBVIOUS
<1>5. ASSUME NEW k \in 1 .. Len(file), Observed(file[k])
      PROVE  /\ \A l \in 1 .. Len(file) : file[l].offset # file[k].offset + 1
             /\ \E a \in 1 .. Len(r) : r[a].first_offset <= file[k].offset /\ file[k].offset <= EndOffset(r[a])
  <2>1. PICK a \in 1 .. Len(groups) :
          groups[a].first_offset <= file[k].offset /\ file[k].offset <= EndOf(groups, current, a).offset
    BY <1>5 DEF Observed
  <2>2. r[a].first_offset <= file[k].offset /\ file[k].offset <= EndOffset(r[a])
    BY <1>3, <2>1 DEF Ends
  <2> QED BY <1>3, <1>5, <2>2 DEF Observed
<1>6. PICK a \in 1 .. Len(r) : r[a].first_offset <= file[i].offset /\ file[i].offset <= EndOffset(r[a])
  BY <1>4, <1>5
<1>7. PICK b \in 1 .. Len(r) : r[b].first_offset <= file[j].offset /\ file[j].offset <= EndOffset(r[b])
  BY <1>4, <1>5
<1>8. /\ file[i].pcr \in Nat /\ file[j].pcr \in Nat /\ file[i].offset \in Nat /\ file[j].offset \in Nat
  BY <1>3, <1>4, InFile
<1>9. GroupAt(r, file[i].offset + 1) = a /\ GroupAt(r, file[j].offset + 1) = b
  <2>1. GroupAt(r, file[i].offset + 1) = a
    BY <1>3, <1>4, <1>5, <1>6, <1>8, GroupAtIs
  <2>2. GroupAt(r, file[j].offset + 1) = b
    BY <1>3, <1>4, <1>5, <1>7, <1>8, GroupAtIs
  <2> QED BY <2>1, <2>2
<1>10. r[1].pcr_offset \in Nat
  <2>1. r # <<>>
    BY <1>3, <1>6, EmptySeq
  <2> QED BY <1>3, <2>1
<1>11. Asc(file, file[j].offset)
  BY <1>1 DEF Asc, Ascending
<1>12. /\ Delta(r[a]) + file[i].pcr <= Delta(r[b]) + file[j].pcr /\ 0 <= Delta(r[b]) + file[j].pcr
       /\ r[a].first_pcr <= file[i].pcr /\ r[b].first_pcr <= file[j].pcr
  <2>1. InGroups(file, r, guessed, a, b, i, j)
    BY <1>1, <1>3, <1>4, <1>6, <1>7, <1>10, <1>11 DEF InGroups
  <2> QED BY <2>1, TwoTimes
<1>13. T(i) = NoTime \/ T(i) = Delta(r[a]) + file[i].pcr
  BY <1>3, <1>8, <1>9, <1>12, PtsIs
<1>14. T(j) = NoTime \/ T(j) = Delta(r[b]) + file[j].pcr
  BY <1>3, <1>8, <1>9, <1>12, PtsIs
<1>15. Delta(r[a]) \in Int /\ Delta(r[b]) \in Int
  BY <1>3, ShapedGroup
<1> DEFINE x == T(i)
           y == T(j)
<1>16. y # NoTime /\ y = Delta(r[b]) + file[j].pcr /\ (x = NoTime \/ x = Delta(r[a]) + file[i].pcr)
  BY <1>1, <1>2, <1>13, <1>14
<1>17. SUFFICES x <= y
  BY <1>2
<1> HIDE DEF x, y
<1> QED BY <1>8, <1>12, <1>15, <1>16 DEF NoTime
-----------------------------------------------------------------------------
\* The groups are in the order of the file and do not overlap, and with their estimates brought up
\* to date each one ends before the next one starts, a reset notwithstanding (_set_current_group,
\* _reevaluate_group_pcr_offset).
THEOREM GroupsInOrder == Spec => []InOrder
<1> QED BY GroupsAreKept, OrderIs, PTL

\* A time in a group is sought in that group (mpegts_packetizer_ts_to_offset).
THEOREM SeeksLandInside == Spec => []LandsInside
<1> QED BY GroupsAreKept, SeekInside, PTL

\* In whatever order the file has been observed, the times of its PTSs do not go back, with the
\* estimates as they stand (mpegts_packetizer_pts_to_ts).
THEOREM TimesGoForward == Spec => []TimesForward
<1> QED BY GroupsAreKept, Forward, PTL

\* What has been observed, up to the window of the last group, which the code leaves out, lies
\* within the duration (mpegts_packetizer_offset_to_ts).
THEOREM DurationCoversAll == Spec => []DurationCovers
<1> QED BY GroupsAreKept, CoversDuration, PTL
====
