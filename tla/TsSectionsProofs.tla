-------------------------- MODULE TsSectionsProofs --------------------------
(***************************************************************************)
(* Proofs about TsSections, for any sections, packets and faults: what the *)
(* packetizer reports is whole (Intact) and not reported twice (Fresh),    *)
(* what is complete is reported (NothingLost), and the type invariant.     *)
(*                                                                         *)
(* Wholeness rests on what a packet is made of: from any cell on, the      *)
(* cells of its section follow until the packet or the section ends, and   *)
(* what the multiplexer has left goes on where the packet stops.  That     *)
(* nothing is lost follows from where each section that is due is, ahead   *)
(* in the packet or in section_data.                                       *)
(***************************************************************************)
EXTENDS TsSections, FiniteSetTheorems, SequenceTheorems, TLAPS

Cell == Sections \X Nat

Size(s) == fields[s].length

LEMMA Sizes ==
  /\ Payload \in Nat /\ Payload > 1 /\ CcModulus \in Nat /\ CcModulus > 1 /\ MaxFaults \in Nat
  /\ ShortHeader \in Nat /\ LongHeader \in Nat /\ ShortHeader >= 1 /\ LongHeader >= 1
  /\ \A s \in Sections : Size(s) \in Nat /\ Size(s) >= 1
<1>1. /\ LongHeader \in Nat /\ ShortHeader \in Nat /\ ShortHeader >= 1 /\ LongHeader >= 1
      /\ Payload \in Nat /\ CcModulus \in Nat /\ MaxFaults \in Nat /\ Payload > 1 /\ CcModulus > 1
  BY SectionAssumption
<1>2. ASSUME NEW s \in Sections PROVE Size(s) \in Nat /\ Size(s) >= 1
  <2>1. Size(s) \in LongHeader .. 4096 \/ Size(s) \in ShortHeader .. 4096
    BY SectionAssumption DEF Size
  <2> QED BY <1>1, <2>1
<1> QED BY <1>1, <1>2

LEMMA CellsAre ==
  ASSUME NEW s \in Sections
  PROVE  /\ Cells(s) \in Seq(Cell) /\ Len(Cells(s)) = Size(s)
         /\ \A i \in 1 .. Size(s) : Cells(s)[i] = <<s, i>>
<1>1. Size(s) \in Nat
  BY Sizes
<1> QED BY <1>1 DEF Cells, Cell, Size

LEMMA CellsDiffer == \A s, t \in Sections : Cells(s) = Cells(t) => s = t
<1> TAKE s, t \in Sections
<1> HAVE Cells(s) = Cells(t)
<1>1. 1 \in 1 .. Size(s) /\ 1 \in 1 .. Size(t)
  BY Sizes
<1>2. Cells(s)[1] = <<s, 1>> /\ Cells(t)[1] = <<t, 1>>
  BY <1>1, CellsAre
<1> QED BY <1>2
-----------------------------------------------------------------------------
(* What is in a packet *)

Numbered(q) == \A i \in 1 .. Len(q) : q[i] = Stuffing \/ (q[i] \in Cell /\ q[i][2] \in 1 .. Size(q[i][1]))

\* The cells of a section are side by side.
Runs(q) ==
  \A i, k \in 1 .. Len(q) :
    i <= k /\ q[i] # Stuffing /\ q[i][2] + (k - i) <= Size(q[i][1])
      => q[k] # Stuffing /\ q[k] = <<q[i][1], q[i][2] + (k - i)>>

\* After the last cell of a section comes the first of another, or stuffing.
Ends(q) ==
  \A i, k \in 1 .. Len(q) :
    k = i + 1 /\ q[i] # Stuffing /\ q[i][2] = Size(q[i][1]) => q[k] = Stuffing \/ q[k][2] = 1

Ordered(q) == Numbered(q) /\ Runs(q) /\ Ends(q)

\* rest is what comes after q.
Continues(q, rest) ==
  LET e == q[Len(q)] IN
  IF e = Stuffing THEN rest = <<>>
  ELSE Len(rest) = Size(e[1]) - e[2] /\ \A i \in 1 .. Len(rest) : rest[i] = <<e[1], e[2] + i>>

\* Three sections one after the other; of the first the cells from k0 on are missing.
Laid(z, s0, k0, n0, s1, n1, s2, n2) ==
  /\ z \in Seq(Cell) /\ Len(z) = n0 + n1 + n2
  /\ n0 = 0 \/ (s0 \in Sections /\ k0 \in Nat \ {0} /\ n0 = Size(s0) - k0)
  /\ n1 = 0 \/ (s1 \in Sections /\ n1 = Size(s1))
  /\ n2 = 0 \/ (s2 \in Sections /\ n2 = Size(s2) /\ n1 # 0)
  /\ \A i \in 1 .. n0 + n1 + n2 :
       z[i] = IF i <= n0 THEN <<s0, k0 + i>>
              ELSE IF i <= n0 + n1 THEN <<s1, i - n0>> ELSE <<s2, i - n0 - n1>>

LEMMA CellIsNoStuffing == \A c \in Cell : c # Stuffing
BY SectionAssumption DEF Cell

\* Cell i of q is of section s, which would have begun after b and ends with h.
Within(q, i, N, s, b, h) ==
  /\ i - b >= 1 /\ i <= h /\ h <= N /\ Size(s) = h - b
  /\ \A k \in 1 .. Len(q) : i <= k /\ k <= h => q[k] = <<s, k - b>>
  /\ h + 1 \in 1 .. Len(q) /\ h + 1 <= N => q[h + 1][2] = 1

LEMMA CutIsOrdered ==
  ASSUME NEW z, NEW s0, NEW k0, NEW n0 \in Nat, NEW s1, NEW n1 \in Nat, NEW s2, NEW n2 \in Nat,
         Laid(z, s0, k0, n0, s1, n1, s2, n2),
         NEW R \in Nat \ {0}, NEW q, Len(q) = R,
         \A i \in 1 .. R : q[i] = IF i <= Len(z) THEN z[i] ELSE Stuffing
  PROVE  Ordered(q)
<1> DEFINE N == n0 + n1 + n2
           At(i) == IF i <= n0 THEN <<s0, k0 + i>>
                    ELSE IF i <= n0 + n1 THEN <<s1, i - n0>> ELSE <<s2, i - n0 - n1>>
<1>1. N \in Nat /\ Len(z) = N /\ \A i \in 1 .. N : z[i] = At(i) /\ z[i] \in Cell
  BY DEF Laid
<1>2. \A i \in 1 .. R : (q[i] # Stuffing <=> i <= N) /\ (i <= N => q[i] = At(i) /\ q[i] \in Cell)
  <2> TAKE i \in 1 .. R
  <2>1. CASE i <= N
    BY <1>1, <2>1, CellIsNoStuffing
  <2>2. CASE ~(i <= N)
    BY <1>1, <2>2
  <2> QED BY <2>1, <2>2
<1>3. \A s \in Sections : Size(s) \in Nat
  BY Sizes
<1>4. ASSUME NEW i \in 1 .. R, i <= N
      PROVE  \E s \in Sections, b \in Int, h \in Int : Within(q, i, N, s, b, h)
  <2>1. \A k \in 1 .. R : k <= N => q[k] = At(k)
    BY <1>2
  <2>2. CASE i <= n0
    <3>1. s0 \in Sections /\ k0 \in Nat \ {0} /\ n0 = Size(s0) - k0
      BY <2>2 DEF Laid
    <3>2. \A k \in 1 .. R : i <= k /\ k <= n0 => q[k] = <<s0, k - (0 - k0)>>
      BY <2>1, <3>1
    <3>3. n0 + 1 \in 1 .. R /\ n0 + 1 <= N => q[n0 + 1][2] = 1
      BY <2>1 DEF Laid
    <3>4. 0 - k0 \in Int /\ i - (0 - k0) >= 1 /\ n0 <= N /\ Size(s0) = n0 - (0 - k0)
      BY <1>3, <3>1
    <3>5. Within(q, i, N, s0, 0 - k0, n0)
      BY <2>2, <3>1, <3>2, <3>3, <3>4 DEF Within
    <3> QED BY <3>1, <3>4, <3>5
  <2>3. CASE i > n0 /\ i <= n0 + n1
    <3>1. s1 \in Sections /\ n1 = Size(s1)
      BY <2>3 DEF Laid
    <3>2. \A k \in 1 .. R : i <= k /\ k <= n0 + n1 => q[k] = <<s1, k - n0>>
      BY <2>1, <2>3
    <3>3. n0 + n1 + 1 \in 1 .. R /\ n0 + n1 + 1 <= N => q[n0 + n1 + 1][2] = 1
      BY <2>1, <2>3
    <3>4. n0 + n1 \in Int /\ i - n0 >= 1 /\ n0 + n1 <= N /\ Size(s1) = n0 + n1 - n0
      BY <2>3, <3>1
    <3>5. Within(q, i, N, s1, n0, n0 + n1)
      <4> DEFINE h == n0 + n1
      <4>1. i <= h /\ i - n0 >= 1 /\ h <= N /\ Size(s1) = h - n0
        BY <2>3, <3>4
      <4>2. \A k \in 1 .. Len(q) : i <= k /\ k <= h => q[k] = <<s1, k - n0>>
        BY <3>2
      <4>3. h + 1 \in 1 .. Len(q) /\ h + 1 <= N => q[h + 1][2] = 1
        BY <3>3
      <4> HIDE DEF h
      <4>4. Within(q, i, N, s1, n0, h)
        BY <4>1, <4>2, <4>3 DEF Within
      <4> QED BY <4>4 DEF h
    <3>6. n0 \in Int
      OBVIOUS
    <3> QED BY <3>1, <3>4, <3>5, <3>6
  <2>4. CASE i > n0 + n1
    <3>1. s2 \in Sections /\ n2 = Size(s2)
      BY <1>4, <2>4 DEF Laid
    <3>2. \A k \in 1 .. R : i <= k /\ k <= N => q[k] = <<s2, k - (n0 + n1)>>
      BY <2>1, <2>4
    <3>3. n0 + n1 \in Int /\ N \in Int /\ i - (n0 + n1) >= 1 /\ Size(s2) = N - (n0 + n1)
      BY <2>4, <3>1
    <3>4. ~(N + 1 <= N)
      BY <1>1
    <3>5. Within(q, i, N, s2, n0 + n1, N)
      BY <1>4, <3>1, <3>2, <3>3, <3>4 DEF Within
    <3> QED BY <3>1, <3>3, <3>5
  <2> QED BY <2>2, <2>3, <2>4
<1> HIDE DEF At, N
<1>5. Numbered(q)
  <2> SUFFICES ASSUME NEW i \in 1 .. R, q[i] # Stuffing
               PROVE  q[i] \in Cell /\ q[i][2] \in 1 .. Size(q[i][1])
    BY DEF Numbered
  <2>1. i <= N /\ q[i] \in Cell
    BY <1>2
  <2>2. PICK s \in Sections, b \in Int, h \in Int : Within(q, i, N, s, b, h)
    BY <1>4, <2>1
  <2>3. q[i] = <<s, i - b>> /\ i - b >= 1 /\ i - b <= Size(s)
    BY <2>2 DEF Within
  <2> QED BY <2>1, <2>3
<1>6. Runs(q)
  <2> SUFFICES ASSUME NEW i \in 1 .. R, NEW k \in 1 .. R, i <= k, q[i] # Stuffing,
                      q[i][2] + (k - i) <= Size(q[i][1])
               PROVE  q[k] # Stuffing /\ q[k] = <<q[i][1], q[i][2] + (k - i)>>
    BY DEF Runs
  <2>1. i <= N
    BY <1>2
  <2>2. PICK s \in Sections, b \in Int, h \in Int : Within(q, i, N, s, b, h)
    BY <1>4, <2>1
  <2>3. q[i] = <<s, i - b>> /\ Size(s) = h - b /\ h <= N
    BY <2>2 DEF Within
  <2>4. k <= h
    BY <2>3
  <2>5. q[k] = <<s, k - b>> /\ q[i][2] + (k - i) = k - b
    BY <2>2, <2>3, <2>4 DEF Within
  <2>6. k <= N
    BY <1>1, <2>3, <2>4
  <2>7. q[k] # Stuffing
    BY <1>2, <2>6
  <2> QED BY <2>3, <2>5, <2>7
<1>7. Ends(q)
  <2> SUFFICES ASSUME NEW i \in 1 .. R, NEW k \in 1 .. R, k = i + 1, q[i] # Stuffing,
                      q[i][2] = Size(q[i][1]), q[k] # Stuffing
               PROVE  q[k][2] = 1
    BY DEF Ends
  <2>1. i <= N /\ k <= N
    BY <1>2
  <2>2. PICK s \in Sections, b \in Int, h \in Int : Within(q, i, N, s, b, h)
    BY <1>4, <2>1
  <2>3. q[i] = <<s, i - b>> /\ Size(s) = h - b
    BY <2>2 DEF Within
  <2>4. i = h
    BY <2>3
  <2> QED BY <2>1, <2>2, <2>4 DEF Within
<1> QED BY <1>5, <1>6, <1>7 DEF Ordered

\* When the last of them begins in q.
LEMMA CutContinues ==
  ASSUME NEW z, NEW s0, NEW k0, NEW n0 \in Nat, NEW s1, NEW n1 \in Nat, NEW s2, NEW n2 \in Nat,
         Laid(z, s0, k0, n0, s1, n1, s2, n2),
         NEW R \in Nat \ {0}, NEW q, Len(q) = R,
         \A i \in 1 .. R : q[i] = IF i <= Len(z) THEN z[i] ELSE Stuffing,
         n1 # 0 => n0 < R, n2 # 0 => n0 + n1 < R
  PROVE  Continues(q, SubSeq(z, R + 1, Len(z)))
<1> DEFINE N == n0 + n1 + n2
           rest == SubSeq(z, R + 1, N)
<1>1. N \in Nat /\ Len(z) = N /\ z \in Seq(Cell) /\ R \in 1 .. R
  BY DEF Laid
<1>2. CASE R > N
  <2>1. q[Len(q)] = Stuffing
    BY <1>1, <1>2
  <2>2. rest = <<>>
    BY <1>1, <1>2
  <2> QED BY <1>1, <2>1, <2>2 DEF Continues
<1>3. CASE R <= N
  <2>1. rest \in Seq(Cell) /\ Len(rest) = N - R /\ \A i \in 1 .. N - R : rest[i] = z[R + i]
    BY <1>1, <1>3
  <2>2. q[Len(q)] = z[R] /\ z[R] # Stuffing
    <3>1. q[R] = z[R] /\ z[R] \in Cell
      BY <1>1, <1>3
    <3> QED BY <3>1, CellIsNoStuffing
  <2>3. \E s \in Sections, o \in Int : N - R = Size(s) - (R - o) /\ \A i \in 0 .. N - R : z[R + i] = <<s, R - o + i>>
    <3>1. CASE n1 = 0
      <4>1. s0 \in Sections /\ n0 = Size(s0) - k0 /\ k0 \in Nat /\ n2 = 0
        BY <1>3, <3>1 DEF Laid
      <4>2. \A i \in 0 .. N - R : z[R + i] = <<s0, R - (0 - k0) + i>>
        BY <1>3, <3>1, <4>1 DEF Laid
      <4>3. N - R = Size(s0) - (R - (0 - k0)) /\ 0 - k0 \in Int
        BY <3>1, <4>1, Sizes
      <4> QED BY <4>1, <4>2, <4>3
    <3>2. CASE n1 # 0 /\ n2 = 0
      <4>1. s1 \in Sections /\ n1 = Size(s1)
        BY <3>2 DEF Laid
      <4>2. ASSUME NEW i \in 0 .. N - R PROVE z[R + i] = <<s1, R - n0 + i>>
        <5>1. R + i \in 1 .. N /\ ~(R + i <= n0) /\ R + i <= n0 + n1 /\ R + i - n0 = R - n0 + i
          BY <1>3, <3>2
        <5>2. z[R + i] = <<s1, R + i - n0>>
          BY <5>1 DEF Laid
        <5> QED BY <5>1, <5>2
      <4>3. N - R = Size(s1) - (R - n0) /\ n0 \in Int
        BY <3>2, <4>1, Sizes
      <4> QED BY <4>1, <4>2, <4>3
    <3>3. CASE n2 # 0
      <4>1. s2 \in Sections /\ n2 = Size(s2) /\ n1 # 0
        BY <3>3 DEF Laid
      <4>2. \A i \in 0 .. N - R : z[R + i] = <<s2, R - (n0 + n1) + i>>
        BY <1>3, <3>3, <4>1 DEF Laid
      <4>3. N - R = Size(s2) - (R - (n0 + n1)) /\ n0 + n1 \in Int
        BY <3>3, <4>1, Sizes
      <4> QED BY <4>1, <4>2, <4>3
    <3> QED BY <3>1, <3>2, <3>3
  <2>4. PICK s \in Sections, o \in Int :
          N - R = Size(s) - (R - o) /\ \A i \in 0 .. N - R : z[R + i] = <<s, R - o + i>>
    BY <2>3
  <2>5. z[R] = <<s, R - o>>
    <3>1. 0 \in 0 .. N - R /\ R + 0 = R /\ R - o + 0 = R - o
      BY <1>1, <1>3
    <3>2. z[R + 0] = <<s, R - o + 0>>
      BY <2>4, <3>1
    <3> QED BY <3>1, <3>2
  <2>6. \A i \in 1 .. N - R : rest[i] = <<s, R - o + i>>
    BY <1>1, <1>3, <2>1, <2>4
  <2> HIDE DEF rest
  <2>7. Continues(q, rest)
    BY <2>1, <2>2, <2>4, <2>5, <2>6 DEF Continues
  <2> QED BY <1>1, <2>7 DEF rest
<1> QED BY <1>1, <1>2, <1>3
-----------------------------------------------------------------------------
(* What the multiplexer sends *)

Byte == Cell \cup {Stuffing}

\* q is what is missing of s after k cells.
Missing(q, s, k) ==
  /\ k \in Nat \ {0} /\ k < Size(s)
  /\ Len(q) = Size(s) - k /\ \A i \in 1 .. Len(q) : q[i] = <<s, k + i>>

LeftOK == left \in Seq(Cell) /\ (left = <<>> \/ \E s \in Sections, k \in Nat : Missing(left, s, k))

\* What Packet(new) holds of the section before, of new[1] and of new[2].
Shape(new, s0, k0, n0, s1, n1, s2, n2) ==
  /\ Laid(Sent(new), s0, k0, n0, s1, n1, s2, n2)
  /\ n0 \in Nat /\ n1 \in Nat /\ n2 \in Nat
  /\ n0 = Len(left) /\ \A i \in 1 .. n0 : left[i] = <<s0, k0 + i>>
  /\ new = <<>> => n1 = 0 /\ n2 = 0
  /\ new # <<>> => n1 # 0 /\ Size(new[Len(new)]) = IF n2 = 0 THEN n1 ELSE n2

LEMMA Joined ==
  ASSUME NEW a \in Seq(Cell), NEW b \in Seq(Cell), NEW c \in Seq(Cell)
  PROVE  /\ a \o b \o c \in Seq(Cell) /\ Len(a \o b \o c) = Len(a) + Len(b) + Len(c)
         /\ \A i \in 1 .. Len(a) + Len(b) + Len(c) :
              (a \o b \o c)[i] = IF i <= Len(a) THEN a[i]
                                 ELSE IF i <= Len(a) + Len(b) THEN b[i - Len(a)]
                                 ELSE c[i - Len(a) - Len(b)]
OBVIOUS

LEMMA JoinedIsLaid ==
  ASSUME NEW a \in Seq(Cell), NEW b \in Seq(Cell), NEW c \in Seq(Cell),
         NEW s0, NEW k0, NEW s1, NEW s2,
         Len(a) = 0 \/ (s0 \in Sections /\ k0 \in Nat \ {0} /\ Len(a) = Size(s0) - k0),
         Len(b) = 0 \/ (s1 \in Sections /\ Len(b) = Size(s1)),
         Len(c) = 0 \/ (s2 \in Sections /\ Len(c) = Size(s2) /\ Len(b) # 0),
         \A i \in 1 .. Len(a) : a[i] = <<s0, k0 + i>>,
         \A i \in 1 .. Len(b) : b[i] = <<s1, i>>,
         \A i \in 1 .. Len(c) : c[i] = <<s2, i>>
  PROVE  Laid(a \o b \o c, s0, k0, Len(a), s1, Len(b), s2, Len(c))
<1> DEFINE z == a \o b \o c
<1>1. /\ z \in Seq(Cell) /\ Len(z) = Len(a) + Len(b) + Len(c)
      /\ \A i \in 1 .. Len(a) + Len(b) + Len(c) :
           z[i] = IF i <= Len(a) THEN a[i]
                  ELSE IF i <= Len(a) + Len(b) THEN b[i - Len(a)] ELSE c[i - Len(a) - Len(b)]
  BY Joined
<1> HIDE DEF z
<1>2. Len(a) \in Nat /\ Len(b) \in Nat /\ Len(c) \in Nat
  OBVIOUS
<1>3. ASSUME NEW i \in 1 .. Len(a) + Len(b) + Len(c)
      PROVE  z[i] = IF i <= Len(a) THEN <<s0, k0 + i>>
                    ELSE IF i <= Len(a) + Len(b) THEN <<s1, i - Len(a)>>
                    ELSE <<s2, i - Len(a) - Len(b)>>
  <2>1. CASE i <= Len(a)
    <3>1. i \in 1 .. Len(a)
      BY <1>2, <2>1
    <3>2. z[i] = a[i]
      BY <1>1, <2>1
    <3>3. z[i] = <<s0, k0 + i>>
      BY <3>1, <3>2
    <3> QED BY <2>1, <3>3
  <2>2. CASE ~(i <= Len(a)) /\ i <= Len(a) + Len(b)
    <3>1. i - Len(a) \in 1 .. Len(b)
      BY <1>2, <2>2
    <3>2. z[i] = b[i - Len(a)]
      BY <1>1, <2>2
    <3>3. z[i] = <<s1, i - Len(a)>>
      BY <3>1, <3>2
    <3> QED BY <2>2, <3>3
  <2>3. CASE ~(i <= Len(a)) /\ ~(i <= Len(a) + Len(b))
    <3>1. i - Len(a) - Len(b) \in 1 .. Len(c)
      BY <1>2, <2>3
    <3>2. z[i] = c[i - Len(a) - Len(b)]
      BY <1>1, <2>3
    <3>3. z[i] = <<s2, i - Len(a) - Len(b)>>
      BY <3>1, <3>2
    <3> QED BY <2>3, <3>3
  <2> QED BY <2>1, <2>2, <2>3
<1>4. Laid(z, s0, k0, Len(a), s1, Len(b), s2, Len(c))
  BY <1>1, <1>3 DEF Laid
<1> QED BY <1>4 DEF z

LEMMA SentIsLaid ==
  ASSUME LeftOK, NEW new \in Starting
  PROVE  \E s0, k0, n0, s1, n1, s2, n2 : Shape(new, s0, k0, n0, s1, n1, s2, n2)
<1> DEFINE a == left
           b == IF new = <<>> THEN <<>> ELSE Cells(new[1])
           c == IF Len(new) < 2 THEN <<>> ELSE Cells(new[2])
<1>1. Sent(new) = a \o b \o c
  BY DEF Sent
<1>2. PICK s0, k0 : Len(left) = 0 \/ (/\ s0 \in Sections /\ k0 \in Nat \ {0} /\ Len(left) = Size(s0) - k0
                                      /\ \A i \in 1 .. Len(left) : left[i] = <<s0, k0 + i>>)
  BY DEF LeftOK, Missing
<1>3. left \in Seq(Cell) /\ Len(left) \in Nat
  BY DEF LeftOK
<1>4. CASE new = <<>>
  <2>1. b = <<>> /\ c = <<>>
    BY <1>4
  <2> HIDE DEF b, c
  <2>2. b \in Seq(Cell) /\ c \in Seq(Cell) /\ Len(b) = 0 /\ Len(c) = 0
    BY <2>1
  <2>5. /\ \A i \in 1 .. Len(b) : b[i] = <<s0, i>>
        /\ \A i \in 1 .. Len(c) : c[i] = <<s0, i>>
        /\ \A i \in 1 .. Len(left) : left[i] = <<s0, k0 + i>>
    BY <1>2, <1>3, <2>2
  <2>3. Laid(left \o b \o c, s0, k0, Len(left), s0, Len(b), s0, Len(c))
    BY <1>2, <1>3, <2>2, <2>5, JoinedIsLaid
  <2>4. Shape(new, s0, k0, Len(left), s0, 0, s0, 0)
    BY <1>1, <1>2, <1>3, <1>4, <2>2, <2>3 DEF Shape
  <2> QED BY <2>4
<1>5. CASE \E s \in Sections : new = <<s>>
  <2>1. PICK s \in Sections : new = <<s>>
    BY <1>5
  <2>2. b = Cells(s) /\ c = <<>> /\ new # <<>> /\ Len(new) = 1 /\ new[1] = s
    BY <2>1
  <2> HIDE DEF b, c
  <2>3. /\ b \in Seq(Cell) /\ c \in Seq(Cell) /\ Len(b) = Size(s) /\ Len(c) = 0
        /\ Size(s) \in Nat /\ Size(s) >= 1 /\ \A i \in 1 .. Size(s) : b[i] = <<s, i>>
    BY <2>2, CellsAre, Sizes
  <2>6. /\ \A i \in 1 .. Len(b) : b[i] = <<s, i>>
        /\ \A i \in 1 .. Len(c) : c[i] = <<s, i>>
        /\ \A i \in 1 .. Len(left) : left[i] = <<s0, k0 + i>>
    BY <1>2, <1>3, <2>3
  <2>4. Laid(left \o b \o c, s0, k0, Len(left), s, Len(b), s, Len(c))
    BY <1>2, <1>3, <2>3, <2>6, JoinedIsLaid
  <2>5. Shape(new, s0, k0, Len(left), s, Size(s), s, 0)
    BY <1>1, <1>2, <1>3, <2>2, <2>3, <2>4 DEF Shape
  <2> QED BY <2>5
<1>6. CASE \E s, t \in Sections : new = <<s, t>>
  <2>1. PICK s \in Sections, t \in Sections : new = <<s, t>>
    BY <1>6
  <2>2. b = Cells(s) /\ c = Cells(t) /\ new # <<>> /\ Len(new) = 2 /\ new[2] = t
    BY <2>1
  <2> HIDE DEF b, c
  <2>3. /\ b \in Seq(Cell) /\ c \in Seq(Cell) /\ Len(b) = Size(s) /\ Len(c) = Size(t)
        /\ Size(s) \in Nat /\ Size(s) >= 1 /\ \A i \in 1 .. Size(s) : b[i] = <<s, i>>
        /\ Size(t) \in Nat /\ Size(t) >= 1 /\ \A i \in 1 .. Size(t) : c[i] = <<t, i>>
    BY <2>2, CellsAre, Sizes
  <2>4. Laid(a \o b \o c, s0, k0, Len(left), s, Len(b), t, Len(c))
    BY <1>2, <1>3, <2>3, JoinedIsLaid
  <2>5. Shape(new, s0, k0, Len(left), s, Size(s), t, Size(t))
    BY <1>1, <1>2, <1>3, <2>2, <2>3, <2>4 DEF Shape
  <2> QED BY <2>5
<1> QED BY <1>4, <1>5, <1>6 DEF Starting

LEMMA Filled ==
  ASSUME NEW z \in Seq(Cell), NEW R \in 1 .. Payload
  PROVE  LET q == SubSeq(z \o Padding, 1, R) IN
         /\ q \in Seq(Byte) /\ Len(q) = R
         /\ \A i \in 1 .. R : q[i] = IF i <= Len(z) THEN z[i] ELSE Stuffing
<1> DEFINE pad == Padding
           q == SubSeq(z \o pad, 1, R)
<1>1. pad \in Seq(Byte) /\ Len(pad) = Payload /\ \A i \in 1 .. Payload : pad[i] = Stuffing
  BY Sizes DEF Padding, Byte
<1>2. z \in Seq(Byte) /\ Len(z) \in Nat
  BY DEF Byte
<1> HIDE DEF pad
<1>3. q \in Seq(Byte) /\ Len(q) = R /\ \A i \in 1 .. R : q[i] = (z \o pad)[i]
  BY <1>1, <1>2, Sizes
<1>4. ASSUME NEW i \in 1 .. R PROVE (z \o pad)[i] = IF i <= Len(z) THEN z[i] ELSE Stuffing
  BY <1>1, <1>2, Sizes
<1> QED BY <1>3, <1>4 DEF pad

PacketOK(p) ==
  /\ p \in Packets /\ Len(p.cells) \in 1 .. Payload /\ Ordered(p.cells)
  /\ p.pusi => /\ p.pointer + 1 \in 1 .. Len(p.cells)
               /\ p.cells[p.pointer + 1] # Stuffing /\ p.cells[p.pointer + 1][2] = 1

\* What the next packet goes on with.
MissingAny(rest) == rest \in Seq(Cell) /\ (rest = <<>> \/ \E s \in Sections, k \in Nat : Missing(rest, s, k))

LEMMA RestIsMissing ==
  ASSUME NEW q \in Seq(Byte), Len(q) \in 1 .. Payload, Ordered(q),
         NEW rest \in Seq(Cell), Continues(q, rest)
  PROVE  MissingAny(rest)
<1> DEFINE e == q[Len(q)]
<1>1. Len(q) \in 1 .. Len(q)
  BY Sizes
<1>2. CASE e = Stuffing
  BY <1>2 DEF Continues, MissingAny
<1>3. CASE e # Stuffing
  <2>1. e \in Cell /\ e[2] \in 1 .. Size(e[1])
    BY <1>1, <1>3 DEF Ordered, Numbered
  <2>2. Len(rest) = Size(e[1]) - e[2] /\ \A i \in 1 .. Len(rest) : rest[i] = <<e[1], e[2] + i>>
    BY <1>3 DEF Continues
  <2>3. e[1] \in Sections /\ e[2] \in Nat /\ Size(e[1]) \in Nat
    BY <2>1, Sizes DEF Cell
  <2> HIDE DEF e
  <2>4. CASE rest = <<>>
    BY <2>4 DEF MissingAny
  <2>5. CASE rest # <<>>
    <3>1. Len(rest) > 0
      BY <2>5
    <3>2. Missing(rest, e[1], e[2])
      BY <2>1, <2>2, <2>3, <3>1 DEF Missing
    <3> QED BY <2>3, <3>2 DEF MissingAny
  <2> QED BY <2>4, <2>5
<1> QED BY <1>2, <1>3

LEMMA PacketIsWell ==
  ASSUME LeftOK, next_cc \in 0 .. CcModulus - 1, NEW new \in Starting, Fits(new),
         NEW rest, rest = SubSeq(Sent(new), Room(new) + 1, Len(Sent(new)))
  PROVE  /\ PacketOK(Packet(new)) /\ Packet(new).cc = next_cc
         /\ Continues(Packet(new).cells, rest) /\ MissingAny(rest)
         /\ left # <<>> => Packet(new).cells[1] = left[1]
<1> DEFINE q == Packet(new).cells
           R == Room(new)
           z == Sent(new)
<1>1. PICK s0, k0, n0, s1, n1, s2, n2 : Shape(new, s0, k0, n0, s1, n1, s2, n2)
  BY SentIsLaid
<1>2. /\ Laid(z, s0, k0, n0, s1, n1, s2, n2) /\ n0 \in Nat /\ n1 \in Nat /\ n2 \in Nat
      /\ n0 = Len(left) /\ \A i \in 1 .. n0 : left[i] = <<s0, k0 + i>>
      /\ new = <<>> => n1 = 0 /\ n2 = 0
      /\ new # <<>> => n1 # 0 /\ Size(new[Len(new)]) = IF n2 = 0 THEN n1 ELSE n2
  BY <1>1 DEF Shape
<1>3. z \in Seq(Cell) /\ Len(z) = n0 + n1 + n2
  BY <1>2 DEF Laid
<1>4. R \in 1 .. Payload /\ R \in Nat \ {0}
  BY Sizes DEF Room
<1>5. q = SubSeq(z \o Padding, 1, R)
  BY DEF Packet
<1> HIDE DEF q, R, z
<1>6. q \in Seq(Byte) /\ Len(q) = R /\ \A i \in 1 .. R : q[i] = IF i <= Len(z) THEN z[i] ELSE Stuffing
  BY <1>3, <1>4, <1>5, Filled
<1>7. (n1 # 0 => n0 < R) /\ (n2 # 0 => n0 + n1 < R)
  <2>1. CASE new = <<>>
    BY <1>2, <2>1
  <2>2. CASE new # <<>>
    <3>1. Len(z) - Size(new[Len(new)]) < R
      BY <2>2 DEF Fits, Size, z, R
    <3>2. CASE n2 = 0
      <4>1. Size(new[Len(new)]) = n1
        BY <1>2, <2>2, <3>2
      <4>2. n0 < R
        BY <1>2, <1>3, <1>4, <3>1, <3>2, <4>1
      <4> QED BY <3>2, <4>2
    <3>3. CASE n2 # 0
      <4>1. Size(new[Len(new)]) = n2
        BY <1>2, <2>2, <3>3
      <4>2. n0 + n1 < R
        BY <1>2, <1>3, <1>4, <3>1, <4>1
      <4> QED BY <1>2, <1>4, <4>2
    <3> QED BY <3>2, <3>3
  <2> QED BY <2>1, <2>2
<1>8. Packet(new).pusi = (new # <<>>) /\ Packet(new).pointer = n0 /\ Packet(new).cc = next_cc
  BY <1>2 DEF Packet
<1>9. Ordered(q)
  BY <1>2, <1>4, <1>6, CutIsOrdered
<1>10. Continues(q, SubSeq(z, R + 1, Len(z)))
  BY <1>2, <1>4, <1>6, <1>7, CutContinues
<1>11. rest = SubSeq(z, R + 1, Len(z))
  BY DEF z, R
<1>12. rest \in Seq(Cell)
  <2>1. R + 1 \in Int /\ Len(z) \in Int /\ \A i \in R + 1 .. Len(z) : z[i] \in Cell
    BY <1>3, <1>4
  <2>2. SubSeq(z, R + 1, Len(z)) \in Seq(Cell)
    BY <2>1, SubSeqProperties
  <2> QED BY <1>11, <2>2
<1>13. MissingAny(rest)
  BY <1>4, <1>6, <1>9, <1>10, <1>11, <1>12, RestIsMissing
<1>14. ASSUME new # <<>>
       PROVE  n0 + 1 \in 1 .. R /\ q[n0 + 1] # Stuffing /\ q[n0 + 1][2] = 1
  <2>1. n1 # 0 /\ n1 \in Nat /\ n0 + 1 \in 1 .. R /\ n0 + 1 \in 1 .. n0 + n1 + n2
    BY <1>2, <1>4, <1>7, <1>14
  <2>2. z[n0 + 1] = <<s1, n0 + 1 - n0>> /\ z[n0 + 1] \in Cell
    BY <1>2, <1>3, <2>1 DEF Laid
  <2>3. q[n0 + 1] = z[n0 + 1] /\ n0 + 1 - n0 = 1
    BY <1>2, <1>3, <1>6, <2>1
  <2> QED BY <2>1, <2>2, <2>3, CellIsNoStuffing
<1>15. ASSUME left # <<>> PROVE q[1] = left[1]
  <2>1. n0 > 0 /\ 1 \in 1 .. R
    BY <1>2, <1>4, <1>15 DEF LeftOK
  <2>2. z[1] = <<s0, k0 + 1>> /\ left[1] = <<s0, k0 + 1>>
    BY <1>2, <2>1 DEF Laid
  <2> QED BY <1>2, <1>3, <1>6, <2>1, <2>2
<1>16. PacketOK(Packet(new))
  <2>1. Packet(new) = [pusi |-> (new # <<>>), pointer |-> n0, cc |-> next_cc, cells |-> q]
    BY <1>2 DEF Packet, q
  <2>2. Packet(new) \in Packets
    BY <1>2, <1>6, <2>1 DEF Packets, Byte, Cell
  <2>3. Packet(new).cells = q /\ Len(q) \in 1 .. Payload
    BY <1>4, <1>6 DEF q
  <2> QED BY <1>8, <1>9, <1>6, <1>14, <2>2, <2>3 DEF PacketOK
<1> QED BY <1>8, <1>10, <1>11, <1>13, <1>15, <1>16 DEF q
-----------------------------------------------------------------------------
(* The subtables *)

Made(t, h) ==
  /\ t.table_id = h.table_id /\ t.subtable_extension = h.subtable_extension
  /\ t.version_number = h.version_number /\ t.last_section_number = h.last_section_number

\* Each from the header of some section, and never two for one table.
SubtablesOK(subs) ==
  /\ subs \subseteq Subtables
  /\ \A t \in subs : \E s \in Sections : Made(t, Header(s))
  /\ \A t, u \in subs : t.table_id = u.table_id /\ t.subtable_extension = u.subtable_extension => t = u

\* s has been seen.
Knows(subs, s) == \E t \in subs : Made(t, Header(s)) /\ Header(s).section_number \in t.seen_section

LEMMA HeadersAre ==
  ASSUME NEW s \in Sections
  PROVE  /\ Header(s) \in Headers /\ Header(s).table_id = fields[s].table_id
         /\ Key(s) = [table_id |-> Header(s).table_id, extension |-> Header(s).subtable_extension]
BY DEF Header, Headers, Key

LEMMA KnownIsSeen ==
  ASSUME NEW st, NEW s \in Sections, Knows(st.subtables, s)
  PROVE  SeenBefore(st, Header(s))
BY DEF Knows, Made, SeenBefore, Subtable

LEMMA NewSubtable ==
  ASSUME NEW h \in Headers
  PROVE  [table_id |-> h.table_id, subtable_extension |-> h.subtable_extension,
          version_number |-> h.version_number, last_section_number |-> h.last_section_number,
          seen_section |-> {h.section_number}] \in Subtables
BY DEF Subtables

LEMMA SeenMore ==
  ASSUME NEW h \in Headers, NEW t \in Subtables
  PROVE  LET u == [t EXCEPT !.seen_section = @ \cup {h.section_number}] IN
         /\ u \in Subtables /\ u.seen_section = t.seen_section \cup {h.section_number}
         /\ u.table_id = t.table_id /\ u.subtable_extension = t.subtable_extension
         /\ u.version_number = t.version_number /\ u.last_section_number = t.last_section_number
BY DEF Subtables

\* What parse_section_header leaves in place of the subtable of the section.
LEMMA RecordedIs ==
  ASSUME NEW st, SubtablesOK(st.subtables), NEW s \in Sections
  PROVE  \E u \in Subtables :
           /\ Recorded(st, Header(s)) = (st.subtables \ Subtable(st, Header(s))) \cup {u}
           /\ u.table_id = Header(s).table_id /\ u.subtable_extension = Header(s).subtable_extension
           /\ u.version_number = Header(s).version_number /\ Header(s).section_number \in u.seen_section
           /\ \/ u.last_section_number = Header(s).last_section_number
              \/ \E t \in Subtable(st, Header(s)) :
                   t.version_number = u.version_number /\ t.last_section_number = u.last_section_number
           /\ \A t \in Subtable(st, Header(s)) : t.version_number = Header(s).version_number =>
                /\ t.seen_section \subseteq u.seen_section
                /\ t.last_section_number = u.last_section_number
<1> DEFINE h == Header(s)
           same == {t \in Subtable(st, h) : t.version_number = h.version_number}
           fresh == [table_id |-> h.table_id, subtable_extension |-> h.subtable_extension,
                     version_number |-> h.version_number, last_section_number |-> h.last_section_number,
                     seen_section |-> {h.section_number}]
           old == CHOOSE t \in same : TRUE
           more == [old EXCEPT !.seen_section = @ \cup {h.section_number}]
<1>1. Recorded(st, h) = (st.subtables \ Subtable(st, h)) \cup {IF same = {} THEN fresh ELSE more}
  BY DEF Recorded
<1>2. h \in Headers
  BY HeadersAre
<1>3. CASE same = {}
  <2>1. fresh \in Subtables
    BY <1>2, NewSubtable
  <2>2. /\ fresh.table_id = h.table_id /\ fresh.subtable_extension = h.subtable_extension
        /\ fresh.version_number = h.version_number /\ h.section_number \in fresh.seen_section
        /\ fresh.last_section_number = h.last_section_number
    OBVIOUS
  <2>3. \A t \in Subtable(st, h) : t.version_number # h.version_number
    BY <1>3
  <2>4. Recorded(st, h) = (st.subtables \ Subtable(st, h)) \cup {fresh}
    BY <1>1, <1>3
  <2> HIDE DEF h, fresh
  <2> QED BY <2>1, <2>2, <2>3, <2>4 DEF h
<1>4. CASE same # {}
  <2>1. old \in same
    BY <1>4
  <2>2. old \in Subtables /\ old \in st.subtables /\ old \in Subtable(st, h)
    BY <2>1 DEF SubtablesOK, Subtable
  <2>3. old.table_id = h.table_id /\ old.subtable_extension = h.subtable_extension /\ old.version_number = h.version_number
    BY <2>1 DEF Subtable
  <2>4. Recorded(st, h) = (st.subtables \ Subtable(st, h)) \cup {more}
    BY <1>1, <1>4
  <2>5. \A t \in Subtable(st, h) : t = old
    BY <2>2, <2>3 DEF SubtablesOK, Subtable
  <2> HIDE DEF h, old
  <2>6. /\ more \in Subtables /\ more.seen_section = old.seen_section \cup {h.section_number}
        /\ more.table_id = h.table_id /\ more.subtable_extension = h.subtable_extension
        /\ more.version_number = h.version_number /\ more.last_section_number = old.last_section_number
    BY <1>2, <2>2, <2>3, SeenMore
  <2> HIDE DEF more
  <2>7. \E t \in Subtable(st, h) :
          t.version_number = more.version_number /\ t.last_section_number = more.last_section_number
    BY <2>2, <2>3, <2>6
  <2>8. h.section_number \in more.seen_section
    BY <2>6
  <2>9. \A t \in Subtable(st, h) : t.version_number = h.version_number =>
          t.seen_section \subseteq more.seen_section /\ t.last_section_number = more.last_section_number
    BY <2>5, <2>6
  <2> more \in Subtables
    BY <2>6
  <2> WITNESS more \in Subtables
  <2> QED BY <2>4, <2>6, <2>7, <2>8, <2>9 DEF h
<1> QED BY <1>3, <1>4

LEMMA RecordedIsOK ==
  ASSUME NEW st, SubtablesOK(st.subtables), NEW s \in Sections
  PROVE  SubtablesOK(Recorded(st, Header(s)))
<1> DEFINE h == Header(s)
           new == Recorded(st, h)
<1>1. PICK u \in Subtables :
        /\ new = (st.subtables \ Subtable(st, h)) \cup {u}
        /\ u.table_id = h.table_id /\ u.subtable_extension = h.subtable_extension
        /\ u.version_number = h.version_number
        /\ \/ u.last_section_number = h.last_section_number
           \/ \E t \in Subtable(st, h) :
                t.version_number = u.version_number /\ t.last_section_number = u.last_section_number
  BY RecordedIs
<1>2. Subtable(st, h) = {t \in st.subtables : t.table_id = h.table_id /\ t.subtable_extension = h.subtable_extension}
  BY DEF Subtable
<1>5. \E r \in Sections : Made(u, Header(r))
  <2>1. CASE u.last_section_number = h.last_section_number
    BY <1>1, <2>1 DEF Made
  <2>2. CASE u.last_section_number # h.last_section_number
    <3>1. PICK t \in Subtable(st, h) :
            t.version_number = u.version_number /\ t.last_section_number = u.last_section_number
      BY <1>1, <2>2
    <3>2. PICK r \in Sections : Made(t, Header(r))
      BY <1>2, <3>1 DEF SubtablesOK
    <3>3. Made(u, Header(r))
      BY <1>1, <1>2, <3>1, <3>2 DEF Made
    <3> QED BY <3>3
  <2> QED BY <2>1, <2>2
<1> HIDE DEF h, new
<1>3. new \subseteq Subtables
  BY <1>1 DEF SubtablesOK
<1>6. \A t \in new : \E r \in Sections : Made(t, Header(r))
  BY <1>1, <1>5 DEF SubtablesOK
<1>4. \A t, v \in new : t.table_id = v.table_id /\ t.subtable_extension = v.subtable_extension => t = v
  BY <1>1, <1>2 DEF SubtablesOK
<1> QED BY <1>3, <1>4, <1>6 DEF SubtablesOK, h, new

LEMMA RecordedKnows ==
  ASSUME NEW st, SubtablesOK(st.subtables), NEW s \in Sections, SteadyTables
  PROVE  /\ Knows(Recorded(st, Header(s)), s)
         /\ \A t \in Sections :
              /\ Knows(st.subtables, t) /\ (Key(t) = Key(s) => Version(t) = Version(s))
              => Knows(Recorded(st, Header(s)), t)
<1> DEFINE h == Header(s)
           new == Recorded(st, h)
<1>1. PICK u \in Subtables :
        /\ new = (st.subtables \ Subtable(st, h)) \cup {u}
        /\ u.table_id = h.table_id /\ u.subtable_extension = h.subtable_extension
        /\ u.version_number = h.version_number /\ h.section_number \in u.seen_section
        /\ \/ u.last_section_number = h.last_section_number
           \/ \E t \in Subtable(st, h) :
                t.version_number = u.version_number /\ t.last_section_number = u.last_section_number
        /\ \A t \in Subtable(st, h) : t.version_number = h.version_number =>
             /\ t.seen_section \subseteq u.seen_section
             /\ t.last_section_number = u.last_section_number
  BY RecordedIs
<1>2. Subtable(st, h) = {t \in st.subtables : t.table_id = h.table_id /\ t.subtable_extension = h.subtable_extension}
  BY DEF Subtable
<1>3. u.last_section_number = h.last_section_number
  <2> SUFFICES ASSUME NEW t \in Subtable(st, h),
                      t.version_number = u.version_number, t.last_section_number = u.last_section_number
               PROVE  u.last_section_number = h.last_section_number
    BY <1>1
  <2>1. PICK r \in Sections : Made(t, Header(r))
    BY <1>2 DEF SubtablesOK
  <2>2. Key(r) = Key(s) /\ Version(r) = Version(s)
    BY <1>1, <1>2, <2>1, HeadersAre DEF Made, Version
  <2>3. Header(r).last_section_number = h.last_section_number
    BY <2>2 DEF SteadyTables
  <2> QED BY <2>1, <2>3 DEF Made
<1>4. Knows(new, s)
  BY <1>1, <1>3 DEF Knows, Made
<1>5. ASSUME NEW t \in Sections, Knows(st.subtables, t), Key(t) = Key(s) => Version(t) = Version(s)
      PROVE  Knows(new, t)
  <2>1. PICK v \in st.subtables : Made(v, Header(t)) /\ Header(t).section_number \in v.seen_section
    BY <1>5 DEF Knows
  <2>2. CASE v \in Subtable(st, h)
    <3>1. Key(t) = Key(s)
      BY <1>2, <2>1, <2>2, HeadersAre DEF Made
    <3>2. v.version_number = h.version_number
      BY <1>5, <2>1, <3>1 DEF Version, Made
    <3>3. Made(u, Header(t)) /\ Header(t).section_number \in u.seen_section
      BY <1>1, <1>2, <2>1, <2>2, <3>2 DEF Made
    <3>4. u \in new
      BY <1>1
    <3> QED BY <3>3, <3>4 DEF Knows
  <2>3. CASE v \notin Subtable(st, h)
    <3>1. v \in new
      BY <1>1, <2>3
    <3> QED BY <2>1, <3>1 DEF Knows
  <2> QED BY <2>2, <2>3
<1> QED BY <1>4, <1>5
-----------------------------------------------------------------------------
(* The invariants *)

StreamOK(st) == st \in Streams /\ SubtablesOK(st.subtables)

RunOK(r) == r = [section |-> r.section, count |-> r.count] /\ r.section \in Sections

MuxTypes == LeftOK /\ next_cc \in 0 .. CcModulus - 1 /\ faults \in 0 .. MaxFaults

PushTypes ==
  /\ step \in {"idle", "accumulate", "section_start", "out"} /\ data \in 1 .. Payload + 1
  /\ sections \in Seq(Seq(Byte))
  /\ packet = None \/ PacketOK(packet)
  /\ stream = None \/ StreamOK(stream)

HistoryTypes ==
  published \subseteq Sections /\ finished \subseteq Sections /\ (run = None \/ RunOK(run))

Waits == step \in {"idle", "out"} /\ stream # None /\ stream.continuity_counter # Unset

Steps ==
  /\ step # "idle" => packet # None
  /\ step \in {"accumulate", "section_start"} => stream # None
  /\ step = "accumulate" => /\ data \in 1 .. Len(packet.cells)
                            /\ Len(stream.section_data) < stream.section_length
  /\ step = "section_start" => stream = Cleared(stream)
  /\ step \in {"idle", "out"} /\ stream # None =>
       (stream.continuity_counter # Unset <=> Len(stream.section_data) < stream.section_length)
  /\ Waits => stream.section_data # <<>> /\ packet # None

\* The section that is accumulated, by its first cell.
First == IF stream.section_data # <<>> THEN stream.section_data[1] ELSE packet.cells[data]

Heads == step = "accumulate" \/ Waits => First \in Cell /\ stream.header = Header(First[1])

\* A long section that was published is known, and the one that is accumulated was not.
Unseen ==
  SteadyTables =>
    /\ stream = None => published = {}
    /\ stream # None => \A s \in published : fields[s].long => Knows(stream.subtables, s)
    /\ step = "accumulate" \/ Waits => (fields[First[1]].long => First[1] \notin published)

\* The multiplexer is n packets past the last one that arrived.
Behind(n) ==
  /\ next_cc = packet.cc + 1 + n \/ next_cc = packet.cc + 1 + n - CcModulus
  /\ n = 0 => Continues(packet.cells, left)

\* While the counter cannot have come round, section_data is the beginning of a section, and the
\* packet goes on with it at data or has just stopped there.
Assembled ==
  LET s == First[1]
      k == Len(stream.section_data)
  IN
  /\ packet # None => \E n \in 0 .. faults : Behind(n)
  /\ step = "accumulate" \/ Waits =>
       stream.section_length = Size(s) /\ \A i \in 1 .. k : stream.section_data[i] = <<s, i>>
  /\ step = "accumulate" => packet.cells[data] = <<s, k + 1>>
  /\ Waits => packet.cc = stream.continuity_counter /\ packet.cells[Len(packet.cells)] = <<s, k>>
  /\ Intact
-----------------------------------------------------------------------------
(* What the actions are made of *)

LEMMA StreamsAre ==
  ASSUME NEW st, StreamOK(st)
  PROVE  /\ st # None /\ st.continuity_counter \in 0 .. CcModulus /\ st.section_length \in Nat
         /\ st.section_data \in Seq(Byte) /\ st.header \in Headers \cup {None}
         /\ SubtablesOK(st.subtables)
BY NoneAssumption DEF StreamOK, Streams, Byte, Cell

LEMMA NewStreamIsOK == StreamOK(NewStream)
<1>1. NewStream.subtables = {} /\ SubtablesOK({})
  BY DEF NewStream, SubtablesOK
<1>2. Unset \in 0 .. CcModulus /\ <<>> \in Seq((Sections \X Nat) \cup {Stuffing}) /\ {} \in SUBSET Subtables
  BY Sizes DEF Unset
<1>3. NewStream \in Streams
  BY <1>2 DEF NewStream, Streams
<1> QED BY <1>1, <1>3 DEF StreamOK

LEMMA ClearedIsOK ==
  ASSUME NEW st, SubtablesOK(st.subtables)
  PROVE  /\ StreamOK(Cleared(st)) /\ Cleared(st).continuity_counter = Unset
         /\ Cleared(st).section_length = 0 /\ Cleared(st).section_data = <<>>
         /\ Cleared(st).subtables = st.subtables /\ Cleared(Cleared(st)) = Cleared(st)
<1>1. Cleared(st) = [continuity_counter |-> Unset, section_length |-> 0, section_data |-> <<>>,
                     header |-> None, subtables |-> st.subtables]
  BY DEF Cleared, NewStream
<1>2. Unset \in 0 .. CcModulus /\ <<>> \in Seq((Sections \X Nat) \cup {Stuffing}) /\ st.subtables \in SUBSET Subtables
  BY Sizes DEF Unset, SubtablesOK
<1>3. Cleared(st) \in Streams
  BY <1>1, <1>2 DEF Streams
<1>4. Cleared(st).subtables = st.subtables
  BY <1>1
<1>5. Cleared(Cleared(st)) = Cleared(st)
  BY <1>4 DEF Cleared
<1> QED BY <1>1, <1>3, <1>4, <1>5 DEF StreamOK

LEMMA PacketsAre ==
  ASSUME NEW p, PacketOK(p)
  PROVE  /\ p # None /\ p.cells \in Seq(Byte) /\ Len(p.cells) \in 1 .. Payload
         /\ p.pusi \in BOOLEAN /\ p.pointer \in Nat /\ p.cc \in 0 .. CcModulus - 1
         /\ \A i \in 1 .. Len(p.cells) : p.cells[i] # Stuffing => p.cells[i] \in Cell /\ p.cells[i][1] \in Sections
BY NoneAssumption DEF PacketOK, Packets, Byte, Cell

LEMMA WholeIsTyped ==
  ASSUME HistoryTypes, NEW p, PacketOK(p), NEW gap \in BOOLEAN
  PROVE  Whole(p, gap) \subseteq Sections /\ (GoesOn(p, gap) = None \/ RunOK(GoesOn(p, gap)))
<1>1. \A i \in Begun(p) : p.cells[i][1] \in Sections
  BY PacketsAre DEF Begun
<1>2. run # None => run.section \in Sections
  BY DEF HistoryTypes, RunOK
<1>3. Whole(p, gap) \subseteq Sections
  BY <1>1, <1>2 DEF Whole, Ended
<1>4. GoesOn(p, gap) = None \/ RunOK(GoesOn(p, gap))
  <2> DEFINE open == {i \in Begun(p) : Found(p, i) /\ In(p, i) < fields[p.cells[i][1]].length}
             i0 == CHOOSE j \in open : TRUE
             first == [section |-> p.cells[i0][1], count |-> In(p, i0)]
             more == [run EXCEPT !.count = @ + Continued(p)]
  <2>1. \/ open # {} /\ GoesOn(p, gap) = first
        \/ run # None /\ GoesOn(p, gap) = more
        \/ GoesOn(p, gap) = None
    BY DEF GoesOn
  <2>2. open # {} => first.section \in Sections
    <3>1. open # {} => i0 \in open
      OBVIOUS
    <3> QED BY <1>1, <3>1
  <2>3. RunOK(first) <=> first.section \in Sections
    BY DEF RunOK
  <2>4. run # None => RunOK(more)
    <3> DEFINE c == run.count + Continued(p)
    <3>1. ASSUME run # None PROVE more = [section |-> run.section, count |-> c]
      <4>1. run = [section |-> run.section, count |-> run.count]
        BY <3>1 DEF HistoryTypes, RunOK
      <4> QED BY <4>1
    <3> HIDE DEF c, more
    <3>2. ASSUME run # None PROVE RunOK(more)
      BY <1>2, <3>1, <3>2 DEF RunOK
    <3> QED BY <3>2
  <2> QED BY <2>1, <2>2, <2>3, <2>4
<1> QED BY <1>3, <1>4

Entered(p, st) ==
  /\ packet' = p /\ sections' = <<>>
  /\ \/ step' = "out" /\ data' = 1 /\ (stream' = Cleared(st) \/ (stream' = None /\ stream = None))
     \/ step' = "section_start" /\ data' = p.pointer + 1 /\ p.pusi /\ stream' = Cleared(st)
     \/ step' = "accumulate" /\ data' = 1 /\ stream # None /\ stream' = stream /\ Follows(stream, p)

LEMMA EnterIs ==
  ASSUME NEW p, PacketOK(p), Enter(p)
  PROVE  Entered(p, IF stream = None THEN NewStream ELSE stream)
<1> DEFINE st == IF stream = None THEN NewStream ELSE stream
           starts == p.pusi /\ (p.pointer = 0 \/ ~Follows(st, p))
<1>1. p.pusi \in BOOLEAN
  BY PacketsAre
<1>2. packet' = p /\ sections' = <<>> /\ data' = IF starts THEN p.pointer + 1 ELSE 1
  BY DEF Enter
<1>3. CASE stream = None /\ ~p.pusi
  <2>1. step' = "out" /\ stream' = None
    BY <1>3 DEF Enter
  <2> QED BY <1>2, <1>3, <2>1 DEF Entered
<1>4. CASE ~(stream = None /\ ~p.pusi)
  <2>1. /\ step' = IF starts THEN "section_start" ELSE IF Follows(st, p) THEN "accumulate" ELSE "out"
        /\ stream' = IF starts \/ ~Follows(st, p) THEN Cleared(st) ELSE st
    BY <1>4 DEF Enter
  <2>2. Follows(st, p) => stream # None
    BY DEF Follows, NewStream
  <2> HIDE DEF st
  <2>3. ASSUME starts PROVE Entered(p, st)
    BY <1>2, <2>1, <2>3 DEF Entered
  <2>4. ASSUME ~starts, Follows(st, p) PROVE Entered(p, st)
    <3>1. st = stream
      BY <2>2, <2>4 DEF st
    <3> QED BY <1>2, <2>1, <2>2, <2>4, <3>1 DEF Entered
  <2>5. ASSUME ~starts, ~Follows(st, p) PROVE Entered(p, st)
    <3>1. step' = "out" /\ stream' = Cleared(st)
      BY <2>1, <2>5
    <3>2. data' = 1 /\ packet' = p /\ sections' = <<>>
      BY <1>2, <2>5
    <3> HIDE DEF starts
    <3> QED BY <3>1, <3>2 DEF Entered
  <2>6. Entered(p, st)
    BY <2>3, <2>4, <2>5
  <2> QED BY <2>6 DEF st
<1> QED BY <1>3, <1>4

\* accumulate_data takes r bytes.
Reads(r, all) ==
  /\ r = Least(stream.section_length - Len(stream.section_data), Len(packet.cells) - data + 1)
  /\ all = stream.section_data \o SubSeq(packet.cells, data, data + r - 1)

LEMMA ReadsIs ==
  ASSUME PushTypes, Steps, Heads, step = "accumulate", NEW r, NEW all, Reads(r, all)
  PROVE  /\ r \in Nat /\ r >= 1 /\ data + r \in 1 .. Len(packet.cells) + 1
         /\ all \in Seq(Byte) /\ Len(all) = Len(stream.section_data) + r
         /\ Len(all) <= stream.section_length
         /\ Len(all) < stream.section_length => data + r = Len(packet.cells) + 1
         /\ all[1] = First /\ all # <<>>
         /\ \A i \in 1 .. Len(stream.section_data) : all[i] = stream.section_data[i]
         /\ \A i \in 1 .. r : all[Len(stream.section_data) + i] = packet.cells[data + i - 1]
<1> DEFINE sd == stream.section_data
           length == stream.section_length
           cells == packet.cells
<1>1. PacketOK(packet) /\ StreamOK(stream)
  BY DEF PushTypes, Steps
<1>2. cells \in Seq(Byte) /\ Len(cells) \in Nat /\ sd \in Seq(Byte) /\ Len(sd) \in Nat /\ length \in Nat
  BY <1>1, PacketsAre, StreamsAre
<1>3. data \in 1 .. Len(cells) /\ Len(sd) < length
  BY DEF Steps
<1> HIDE DEF sd, length, cells
<1>4. r = Least(length - Len(sd), Len(cells) - data + 1) /\ all = sd \o SubSeq(cells, data, data + r - 1)
  BY DEF Reads, sd, length, cells
<1>5. /\ r \in Nat /\ r >= 1 /\ data + r <= Len(cells) + 1 /\ Len(sd) + r <= length
      /\ Len(sd) + r < length => data + r = Len(cells) + 1
  BY <1>2, <1>3, <1>4 DEF Least
<1> DEFINE part == SubSeq(cells, data, data + r - 1)
<1>6. part \in Seq(Byte) /\ Len(part) = r /\ \A i \in 1 .. r : part[i] = cells[data + i - 1]
  <2> DEFINE n == data + r - 1
  <2>1. data \in Int /\ n \in Int /\ \A i \in data .. n : cells[i] \in Byte
    BY <1>2, <1>3, <1>5
  <2>3. data <= n /\ n - data + 1 = r
    BY <1>3, <1>5
  <2> HIDE DEF n
  <2> DEFINE q == SubSeq(cells, data, n)
  <2>2. /\ q \in Seq(Byte) /\ Len(q) = IF data <= n THEN n - data + 1 ELSE 0
        /\ \A i \in 1 .. n - data + 1 : q[i] = cells[data + i - 1]
    BY <2>1, SubSeqProperties
  <2>4. part = q
    BY DEF n
  <2> HIDE DEF q, part
  <2> QED BY <2>2, <2>3, <2>4
<1>7. all = sd \o part
  BY <1>4
<1> HIDE DEF part
<1>8. all \in Seq(Byte) /\ Len(all) = Len(sd) + r
  <2>1. sd \o part \in Seq(Byte) /\ Len(sd \o part) = Len(sd) + Len(part)
    BY <1>2, <1>6, ConcatProperties
  <2> QED BY <1>6, <1>7, <2>1
<1>9. (\A i \in 1 .. Len(sd) : all[i] = sd[i]) /\ \A i \in 1 .. r : all[Len(sd) + i] = part[i]
  <2>1. \A i \in 1 .. Len(sd) + Len(part) : (sd \o part)[i] = IF i <= Len(sd) THEN sd[i] ELSE part[i - Len(sd)]
    BY <1>2, <1>6, ConcatProperties
  <2>2. \A i \in 1 .. Len(sd) + r : all[i] = IF i <= Len(sd) THEN sd[i] ELSE part[i - Len(sd)]
    BY <1>6, <1>7, <2>1
  <2>3. \A i \in 1 .. Len(sd) : all[i] = sd[i]
    BY <1>2, <1>5, <2>2
  <2>4. ASSUME NEW i \in 1 .. r PROVE all[Len(sd) + i] = part[i]
    <3>1. Len(sd) + i \in 1 .. Len(sd) + r /\ ~(Len(sd) + i <= Len(sd)) /\ Len(sd) + i - Len(sd) = i
      BY <1>2, <1>5
    <3> QED BY <2>2, <3>1
  <2> QED BY <2>3, <2>4
<1>10. all[1] = First /\ all # <<>>
  <2>1. CASE sd = <<>>
    <3>1. 1 \in 1 .. r /\ Len(sd) + 1 = 1 /\ data + 1 - 1 = data
      BY <1>3, <1>5, <2>1
    <3>2. all[1] = cells[data]
      BY <1>6, <1>9, <3>1
    <3> QED BY <1>5, <1>8, <2>1, <3>2 DEF First, sd, cells
  <2>2. CASE sd # <<>>
    <3>1. 1 \in 1 .. Len(sd)
      BY <1>2, <2>2
    <3>2. all[1] = sd[1]
      BY <1>9, <3>1
    <3> QED BY <1>5, <1>8, <2>2, <3>1, <3>2 DEF First, sd
  <2> QED BY <2>1, <2>2
<1>11. data + r \in 1 .. Len(cells) + 1
  BY <1>2, <1>3, <1>5
<1>12. \A i \in 1 .. r : all[Len(sd) + i] = cells[data + i - 1]
  BY <1>6, <1>9
<1> QED BY <1>5, <1>8, <1>9, <1>10, <1>11, <1>12 DEF sd, length, cells
-----------------------------------------------------------------------------
(* Types, Steps and Heads *)

LEMMA EnterKeeps ==
  ASSUME PushTypes, Steps, Heads, Idle, NEW p, PacketOK(p), Enter(p)
  PROVE  PushTypes' /\ Steps' /\ Heads'
<1> DEFINE st == IF stream = None THEN NewStream ELSE stream
<1>1. Entered(p, st)
  BY EnterIs
<1>2. packet' = p /\ sections' = <<>> /\ p # None /\ Len(p.cells) \in 1 .. Payload /\ p.pointer \in Nat
  BY <1>1, PacketsAre DEF Entered
<1>3. StreamOK(st)
  BY NewStreamIsOK DEF PushTypes
<1>4. SubtablesOK(st.subtables)
  BY <1>3 DEF StreamOK
<1> HIDE DEF st
<1>5. /\ StreamOK(Cleared(st)) /\ Cleared(st).continuity_counter = Unset /\ Cleared(st) # None
      /\ Cleared(st).section_length = 0 /\ Cleared(st).section_data = <<>>
      /\ Cleared(Cleared(st)) = Cleared(st)
  BY <1>4, ClearedIsOK, StreamsAre
<1>6. Payload \in Nat /\ <<>> \in Seq(Seq(Byte)) /\ 1 \in 1 .. Payload + 1
  BY Sizes
<1>7. CASE step' = "out" /\ data' = 1 /\ stream' = Cleared(st)
  BY <1>2, <1>5, <1>6, <1>7 DEF PushTypes, Steps, Heads, Waits
<1>8. CASE step' = "out" /\ data' = 1 /\ stream' = None
  BY <1>2, <1>6, <1>8 DEF PushTypes, Steps, Heads, Waits
<1>9. CASE step' = "section_start" /\ data' = p.pointer + 1 /\ p.pusi /\ stream' = Cleared(st)
  <2>1. data' \in 1 .. Payload + 1
    BY <1>2, <1>6, <1>9 DEF PacketOK
  <2> QED BY <1>2, <1>5, <1>6, <1>9, <2>1 DEF PushTypes, Steps, Heads, Waits
<1>10. CASE step' = "accumulate" /\ data' = 1 /\ stream # None /\ stream' = stream /\ Follows(stream, p)
  <2>1. stream.continuity_counter # Unset
    BY <1>10 DEF Follows
  <2>2. Waits
    BY <1>10, <2>1 DEF Waits, Idle
  <2>3. Len(stream.section_data) < stream.section_length /\ stream.section_data # <<>>
    BY <1>10, <2>1, <2>2 DEF Steps, Idle
  <2>4. First' = First /\ stream'.header = stream.header
    BY <1>10, <2>3 DEF First
  <2>5. First \in Cell /\ stream.header = Header(First[1])
    BY <2>2 DEF Heads
  <2>6. Heads'
    BY <2>4, <2>5 DEF Heads
  <2>7. 1 \in 1 .. Len(p.cells)
    BY <1>2, <1>6
  <2> QED BY <1>2, <1>6, <1>10, <2>3, <2>6, <2>7 DEF PushTypes, Steps, Waits
<1> QED BY <1>1, <1>7, <1>8, <1>9, <1>10 DEF Entered

LEMMA AdvanceKeeps ==
  ASSUME MuxTypes, NEW new \in Starting, Fits(new), Advance(new)
  PROVE  LeftOK' /\ next_cc' \in 0 .. CcModulus - 1
<1>1. /\ LeftOK /\ next_cc \in 0 .. CcModulus - 1 /\ next_cc \in Nat
  BY Sizes DEF MuxTypes
<1>2. left' = SubSeq(Sent(new), Room(new) + 1, Len(Sent(new))) /\ next_cc' = (next_cc + 1) % CcModulus
  BY DEF Advance
<1>3. MissingAny(left')
  BY <1>1, <1>2, PacketIsWell
<1>4. LeftOK'
  BY <1>3 DEF MissingAny, LeftOK
<1> QED BY <1>1, <1>2, <1>4, Sizes

LEMMA ArriveKeeps ==
  ASSUME MuxTypes, PushTypes, HistoryTypes, Steps, Heads, NEW new \in Starting, Arrive(new)
  PROVE  MuxTypes' /\ PushTypes' /\ HistoryTypes' /\ Steps' /\ Heads'
<1>1. Idle /\ Fits(new) /\ Advance(new) /\ Enter(Packet(new))
  BY DEF Arrive
<1>2. /\ finished' = Whole(Packet(new), FALSE) /\ run' = GoesOn(Packet(new), FALSE)
      /\ faults' = faults /\ published' = published
  BY DEF Arrive
<1>3. PacketOK(Packet(new))
  BY <1>1, PacketIsWell DEF MuxTypes
<1>4. PushTypes' /\ Steps' /\ Heads'
  BY <1>1, <1>3, EnterKeeps
<1>5. MuxTypes'
  BY <1>1, <1>2, AdvanceKeeps DEF MuxTypes
<1>6. Whole(Packet(new), FALSE) \subseteq Sections /\ (GoesOn(Packet(new), FALSE) = None \/ RunOK(GoesOn(Packet(new), FALSE)))
  BY <1>3, WholeIsTyped
<1>7. HistoryTypes'
  BY <1>2, <1>6 DEF HistoryTypes
<1> QED BY <1>4, <1>5, <1>7

LEMMA RepeatKeeps ==
  ASSUME MuxTypes, PushTypes, HistoryTypes, Steps, Heads, Repeat
  PROVE  MuxTypes' /\ PushTypes' /\ HistoryTypes' /\ Steps' /\ Heads'
<1>1. Idle /\ PacketOK(packet) /\ Enter(packet)
  BY DEF Repeat, PushTypes
<1>2. /\ finished' = Whole(packet, TRUE) /\ run' = GoesOn(packet, TRUE)
      /\ faults' = faults + 1 /\ faults < MaxFaults
      /\ left' = left /\ next_cc' = next_cc /\ published' = published
  BY DEF Repeat
<1>3. PushTypes' /\ Steps' /\ Heads'
  BY <1>1, EnterKeeps
<1>4. MuxTypes'
  BY <1>2, Sizes DEF MuxTypes, LeftOK
<1>5. Whole(packet, TRUE) \subseteq Sections /\ (GoesOn(packet, TRUE) = None \/ RunOK(GoesOn(packet, TRUE)))
  BY <1>1, WholeIsTyped
<1>6. HistoryTypes'
  BY <1>2, <1>5 DEF HistoryTypes
<1> QED BY <1>3, <1>4, <1>6

LEMMA LoseKeeps ==
  ASSUME MuxTypes, PushTypes, HistoryTypes, Steps, Heads, NEW new \in Starting, Lose(new)
  PROVE  MuxTypes' /\ PushTypes' /\ HistoryTypes' /\ Steps' /\ Heads'
<1>1. /\ Fits(new) /\ Advance(new) /\ faults' = faults + 1 /\ faults < MaxFaults /\ run' = None
      /\ step' = step /\ packet' = packet /\ data' = data /\ sections' = sections /\ stream' = stream
      /\ finished' = finished /\ published' = published
  BY DEF Lose
<1>2. MuxTypes'
  BY <1>1, AdvanceKeeps, Sizes DEF MuxTypes
<1>3. PushTypes' /\ HistoryTypes'
  BY <1>1 DEF PushTypes, HistoryTypes
<1>4. Steps' /\ Heads'
  BY <1>1 DEF Steps, Heads, Waits, First
<1> QED BY <1>2, <1>3, <1>4

\* The section of the first cell is published.
LEMMA ReportIs ==
  ASSUME PushTypes, HistoryTypes, NEW cells \in Seq(Byte), cells[1] \in Cell, Report(cells)
  PROVE  sections' \in Seq(Seq(Byte)) /\ sections' = Append(sections, cells) /\ published' \subseteq Sections
<1>1. cells[1][1] \in Sections
  BY DEF Cell
<1>2. sections' = Append(sections, cells) /\ published' \subseteq published \cup {cells[1][1]}
  BY DEF Report
<1>3. Append(sections, cells) \in Seq(Seq(Byte))
  BY DEF PushTypes
<1> QED BY <1>1, <1>2, <1>3 DEF HistoryTypes

AccumulateTo(r, all) ==
  \/ /\ Len(all) < stream.section_length /\ step' = "out"
     /\ stream' = [stream EXCEPT !.continuity_counter = packet.cc, !.section_data = all]
     /\ sections' = sections /\ published' = published
  \/ /\ Len(all) = stream.section_length /\ step' = "section_start"
     /\ stream' = [Cleared(stream) EXCEPT !.subtables = Recorded(stream, stream.header)]
     /\ Report(all)

LEMMA AccumulateIs ==
  ASSUME PushTypes, Steps, Heads, Accumulate
  PROVE  \E r, all : /\ Reads(r, all) /\ AccumulateTo(r, all) /\ data' = data + r
                     /\ packet' = packet /\ run' = run /\ finished' = finished
                     /\ left' = left /\ next_cc' = next_cc /\ faults' = faults
<1> DEFINE r == Least(stream.section_length - Len(stream.section_data), Len(packet.cells) - data + 1)
           all == stream.section_data \o SubSeq(packet.cells, data, data + r - 1)
<1>1. Reads(r, all) /\ step = "accumulate"
  BY DEF Reads, Accumulate
<1>2. StreamOK(stream)
  BY <1>1 DEF PushTypes, Steps
<1>3. Len(all) \in Nat /\ Len(all) <= stream.section_length /\ stream.section_length \in Nat
  <2> HIDE DEF r, all
  <2> QED BY <1>1, <1>2, ReadsIs, StreamsAre
<1>4. Len(all) < stream.section_length \/ Len(all) = stream.section_length
  <2> HIDE DEF r, all
  <2> QED BY <1>3
<1>5. /\ data' = data + r
      /\ packet' = packet /\ run' = run /\ finished' = finished
      /\ left' = left /\ next_cc' = next_cc /\ faults' = faults
  BY DEF Accumulate, muxVars
<1>6. IF Len(all) < stream.section_length
      THEN /\ stream' = [stream EXCEPT !.continuity_counter = packet.cc, !.section_data = all]
           /\ step' = "out" /\ sections' = sections /\ published' = published
      ELSE /\ stream' = [Cleared(stream) EXCEPT !.subtables = Recorded(stream, stream.header)]
           /\ Report(all) /\ step' = "section_start"
  BY DEF Accumulate
<1>7. AccumulateTo(r, all)
  <2> HIDE DEF r, all
  <2>1. CASE Len(all) < stream.section_length
    BY <1>6, <2>1 DEF AccumulateTo
  <2>2. CASE ~(Len(all) < stream.section_length)
    BY <1>4, <1>6, <2>2 DEF AccumulateTo
  <2> QED BY <2>1, <2>2
<1> HIDE DEF r, all
<1> QED BY <1>1, <1>5, <1>7

Partial(st, cc, cells) == [st EXCEPT !.continuity_counter = cc, !.section_data = cells]

LEMMA PartIsOK ==
  ASSUME NEW st, StreamOK(st), NEW cc \in 0 .. CcModulus, NEW cells \in Seq(Byte),
         NEW new, new = Partial(st, cc, cells)
  PROVE  /\ StreamOK(new) /\ new.continuity_counter = cc /\ new.section_data = cells
         /\ new.section_length = st.section_length /\ new.header = st.header
         /\ new.subtables = st.subtables
<1>1. st \in Streams /\ SubtablesOK(st.subtables)
  BY DEF StreamOK
<1>2. cells \in Seq((Sections \X Nat) \cup {Stuffing})
  BY DEF Byte, Cell
<1>3. new \in Streams /\ new.subtables = st.subtables
  BY <1>1, <1>2 DEF Streams, Partial
<1>4. StreamOK(new)
  BY <1>1, <1>3 DEF StreamOK
<1> QED BY <1>1, <1>2, <1>3, <1>4 DEF Streams, Partial

LEMMA RecordingIsOK ==
  ASSUME NEW st, StreamOK(st), NEW subs, SubtablesOK(subs)
  PROVE  LET new == [Cleared(st) EXCEPT !.subtables = subs] IN
         /\ StreamOK(new) /\ Cleared(new) = new /\ new.subtables = subs
<1> DEFINE new == [Cleared(st) EXCEPT !.subtables = subs]
<1>1. Cleared(st) = [continuity_counter |-> Unset, section_length |-> 0, section_data |-> <<>>,
                     header |-> None, subtables |-> st.subtables]
  BY DEF Cleared, NewStream
<1>2. new = [continuity_counter |-> Unset, section_length |-> 0, section_data |-> <<>>,
             header |-> None, subtables |-> subs]
  BY <1>1
<1>3. new.subtables = subs
  BY <1>2
<1>4. Cleared(new) = new
  BY <1>2, <1>3 DEF Cleared, NewStream
<1> HIDE DEF new
<1>5. StreamOK(Cleared(new))
  BY <1>3, ClearedIsOK
<1> QED BY <1>3, <1>4, <1>5 DEF new

LEMMA AccumulateKeeps ==
  ASSUME MuxTypes, PushTypes, HistoryTypes, Steps, Heads, Accumulate
  PROVE  MuxTypes' /\ PushTypes' /\ HistoryTypes' /\ Steps' /\ Heads'
<1>1. PICK r, all : /\ Reads(r, all) /\ AccumulateTo(r, all) /\ data' = data + r
                    /\ packet' = packet /\ run' = run /\ finished' = finished
                    /\ left' = left /\ next_cc' = next_cc /\ faults' = faults
  BY AccumulateIs
<1>2. step = "accumulate"
  BY DEF Accumulate
<1>3. PacketOK(packet) /\ StreamOK(stream) /\ packet # None /\ stream # None
  BY <1>2, NoneAssumption DEF PushTypes, Steps
<1>4. /\ data + r \in 1 .. Len(packet.cells) + 1 /\ all \in Seq(Byte) /\ all # <<>> /\ all[1] = First
  BY <1>1, <1>2, ReadsIs
<1>5. First \in Cell /\ stream.header = Header(First[1]) /\ First[1] \in Sections
  BY <1>2 DEF Heads, Cell
<1>6. data' \in 1 .. Payload + 1
  BY <1>1, <1>3, <1>4, Sizes, PacketsAre
<1>7. MuxTypes'
  BY <1>1 DEF MuxTypes, LeftOK
<1>8. CASE /\ Len(all) < stream.section_length /\ step' = "out"
           /\ stream' = [stream EXCEPT !.continuity_counter = packet.cc, !.section_data = all]
           /\ sections' = sections /\ published' = published
  <2>1. packet.cc \in 0 .. CcModulus /\ packet.cc # Unset
    BY <1>3, PacketsAre, Sizes DEF Unset
  <2>2. /\ StreamOK(stream') /\ stream'.continuity_counter = packet.cc /\ stream'.section_data = all
        /\ stream'.section_length = stream.section_length /\ stream'.header = stream.header
    <3>1. stream' = Partial(stream, packet.cc, all)
      BY <1>8 DEF Partial
    <3> QED BY <1>3, <1>4, <2>1, <3>1, PartIsOK
  <2>3. stream' # None
    BY <2>2, StreamsAre
  <2>4. PushTypes'
    BY <1>1, <1>3, <1>6, <1>8, <2>2 DEF PushTypes
  <2>5. HistoryTypes'
    BY <1>1, <1>8 DEF HistoryTypes
  <2>6. Steps'
    BY <1>1, <1>3, <1>4, <1>8, <2>1, <2>2, <2>3 DEF Steps, Waits
  <2>7. Heads'
    BY <1>4, <1>5, <2>2 DEF Heads, First
  <2> QED BY <1>7, <2>4, <2>5, <2>6, <2>7
<1>9. CASE /\ Len(all) = stream.section_length /\ step' = "section_start"
           /\ stream' = [Cleared(stream) EXCEPT !.subtables = Recorded(stream, stream.header)]
           /\ Report(all)
  <2>1. SubtablesOK(Recorded(stream, stream.header))
    BY <1>3, <1>5, StreamsAre, RecordedIsOK
  <2>2. StreamOK(stream') /\ Cleared(stream') = stream'
    BY <1>3, <1>9, <2>1, RecordingIsOK
  <2>3. stream' # None
    BY <2>2, StreamsAre
  <2>4. sections' \in Seq(Seq(Byte)) /\ published' \subseteq Sections
    BY <1>4, <1>5, <1>9, ReportIs
  <2>5. PushTypes'
    BY <1>1, <1>3, <1>6, <1>9, <2>2, <2>4 DEF PushTypes
  <2>6. HistoryTypes'
    BY <1>1, <2>4 DEF HistoryTypes
  <2>7. Steps' /\ Heads'
    BY <1>1, <1>3, <1>9, <2>2, <2>3 DEF Steps, Heads, Waits
  <2> QED BY <1>7, <2>5, <2>6, <2>7
<1> QED BY <1>1, <1>8, <1>9 DEF AccumulateTo

LEMMA StartsAt ==
  ASSUME PushTypes, Steps, Begins
  PROVE  /\ PacketOK(packet) /\ StreamOK(stream) /\ packet # None /\ stream # None
         /\ stream = Cleared(stream) /\ data \in 1 .. Len(packet.cells) /\ Rest \in Nat /\ Rest >= 1
         /\ packet.cells[data] \in Cell /\ Here \in Sections /\ packet.cells[data][1] = Here
<1>1. PacketOK(packet) /\ StreamOK(stream) /\ packet # None /\ stream # None /\ stream = Cleared(stream)
  BY NoneAssumption DEF Begins, Steps, PushTypes
<1>2. Len(packet.cells) \in Nat /\ data \in Nat /\ data >= 1
  BY <1>1, PacketsAre, Sizes DEF PushTypes
<1>3. ~(data > Len(packet.cells)) /\ packet.cells[data] # Stuffing
  BY DEF Begins, AtStuffing
<1>4. data \in 1 .. Len(packet.cells) /\ Rest \in Nat /\ Rest >= 1
  BY <1>2, <1>3 DEF Rest
<1>5. packet.cells[data] \in Cell /\ packet.cells[data][1] \in Sections
  BY <1>1, <1>3, <1>4, PacketsAre
<1> QED BY <1>1, <1>4, <1>5 DEF Here

LEMMA Skips ==
  ASSUME PushTypes, Steps, Begins
  PROVE  /\ Least(Size(Here), Rest) \in Nat /\ Least(Size(Here), Rest) >= 1
         /\ data + Least(Size(Here), Rest) \in 1 .. Payload + 1
         /\ Size(Here) <= Rest => Least(Size(Here), Rest) = Size(Here)
         /\ ~(Size(Here) <= Rest) => data + Least(Size(Here), Rest) = Len(packet.cells) + 1
<1>1. /\ Len(packet.cells) \in 1 .. Payload /\ data \in 1 .. Len(packet.cells)
      /\ Rest \in Nat /\ Rest >= 1 /\ Size(Here) \in Nat /\ Size(Here) >= 1 /\ Payload \in Nat
  BY StartsAt, PacketsAre, Sizes
<1>2. Rest = Len(packet.cells) - data + 1
  BY DEF Rest
<1> DEFINE n == Size(Here)
<1> HIDE DEF n
<1>3. /\ Least(n, Rest) = IF n < Rest THEN n ELSE Rest
  BY DEF Least
<1>4. n \in Nat /\ n >= 1
  BY <1>1 DEF n
<1>5. /\ Least(n, Rest) \in Nat /\ Least(n, Rest) >= 1
      /\ data + Least(n, Rest) \in 1 .. Payload + 1
      /\ n <= Rest => Least(n, Rest) = n
      /\ ~(n <= Rest) => data + Least(n, Rest) = Len(packet.cells) + 1
  BY <1>1, <1>2, <1>3, <1>4
<1> QED BY <1>5 DEF n

LEMMA ShortSectionIs ==
  ASSUME PushTypes, Steps, ShortSection
  PROVE  LET cells == SubSeq(packet.cells, data, data + Size(Here) - 1) IN
         /\ cells \in Seq(Byte) /\ Len(cells) = Size(Here) /\ cells[1] = packet.cells[data]
         /\ \A i \in 1 .. Size(Here) : cells[i] = packet.cells[data + i - 1]
         /\ Report(cells) /\ data' = data + Size(Here) /\ data' \in 1 .. Len(packet.cells)
         /\ step' = IF AtStuffing(data') THEN "out" ELSE "section_start"
<1> DEFINE n == data + Size(Here) - 1
           cells == SubSeq(packet.cells, data, n)
<1>1. Begins /\ Size(Here) < Rest
  BY DEF ShortSection, IsFast, Size
<1>2. /\ packet.cells \in Seq(Byte) /\ Len(packet.cells) \in Nat /\ data \in 1 .. Len(packet.cells)
      /\ Size(Here) \in Nat /\ Size(Here) >= 1
  BY <1>1, StartsAt, PacketsAre, Sizes
<1>3. Report(cells) /\ data' = data + Size(Here) /\ step' = IF AtStuffing(data') THEN "out" ELSE "section_start"
  BY DEF ShortSection, Size
<1>4. data + Size(Here) <= Len(packet.cells)
  BY <1>1, <1>2 DEF Rest
<1>5. data \in Int /\ n \in Int /\ data <= n /\ n - data + 1 = Size(Here) /\ \A i \in data .. n : packet.cells[i] \in Byte
  BY <1>2, <1>4
<1> HIDE DEF n
<1>6. /\ cells \in Seq(Byte) /\ Len(cells) = IF data <= n THEN n - data + 1 ELSE 0
      /\ \A i \in 1 .. n - data + 1 : cells[i] = packet.cells[data + i - 1]
  BY <1>5, SubSeqProperties
<1> HIDE DEF cells
<1>7. Len(cells) = Size(Here) /\ \A i \in 1 .. Size(Here) : cells[i] = packet.cells[data + i - 1]
  BY <1>5, <1>6
<1>8. 1 \in 1 .. Size(Here) /\ data + 1 - 1 = data
  BY <1>2
<1>9. cells[1] = packet.cells[data]
  BY <1>7, <1>8
<1>10. data' \in 1 .. Len(packet.cells)
  BY <1>2, <1>3, <1>4
<1> QED BY <1>3, <1>6, <1>7, <1>9, <1>10 DEF cells, n

\* In the middle of a packet only data, step and what is reported change.
LEMMA WithinPacketKeeps ==
  ASSUME MuxTypes, PushTypes, HistoryTypes, Steps, step = "section_start",
         step' \in {"section_start", "out"}, data' \in 1 .. Payload + 1,
         sections' \in Seq(Seq(Byte)), published' \subseteq Sections,
         stream' = Cleared(stream) \/ stream' = stream,
         UNCHANGED <<muxVars, packet, run, finished>>
  PROVE  MuxTypes' /\ PushTypes' /\ HistoryTypes' /\ Steps' /\ Heads'
<1>1. /\ left' = left /\ next_cc' = next_cc /\ faults' = faults
      /\ packet' = packet /\ run' = run /\ finished' = finished
  BY DEF muxVars
<1>2. stream = Cleared(stream) /\ stream' = stream /\ stream # None /\ packet # None
  BY DEF Steps
<1>3. StreamOK(stream)
  BY <1>2 DEF PushTypes
<1>4. stream.continuity_counter = Unset /\ stream.section_length = 0 /\ stream.section_data = <<>>
  BY <1>2, <1>3, StreamsAre, ClearedIsOK
<1>5. MuxTypes' /\ HistoryTypes'
  BY <1>1 DEF MuxTypes, LeftOK, HistoryTypes
<1>6. PushTypes'
  BY <1>1, <1>2 DEF PushTypes
<1>7. Steps' /\ Heads'
  BY <1>1, <1>2, <1>4 DEF Steps, Heads, Waits
<1> QED BY <1>5, <1>6, <1>7

LEMMA NothingMoreKeeps ==
  ASSUME MuxTypes, PushTypes, HistoryTypes, Steps, Heads, NothingMore
  PROVE  MuxTypes' /\ PushTypes' /\ HistoryTypes' /\ Steps' /\ Heads'
<1>1. /\ step = "section_start" /\ step' = "out" /\ data' = data /\ sections' = sections
      /\ stream' = Cleared(stream) /\ published' = published
      /\ UNCHANGED <<muxVars, packet, run, finished>>
  BY DEF NothingMore
<1>2. data' \in 1 .. Payload + 1 /\ sections' \in Seq(Seq(Byte)) /\ published' \subseteq Sections
  BY <1>1 DEF PushTypes, HistoryTypes
<1> QED BY <1>1, <1>2, WithinPacketKeeps

LEMMA LeaveKeeps ==
  ASSUME MuxTypes, PushTypes, HistoryTypes, Steps, Heads, Leave
  PROVE  MuxTypes' /\ PushTypes' /\ HistoryTypes' /\ Steps' /\ Heads'
<1>1. /\ step = "section_start" /\ step' = "out" /\ data' = data /\ sections' = sections
      /\ stream' = stream /\ published' = published
      /\ UNCHANGED <<muxVars, packet, run, finished>>
  BY DEF Leave, Begins
<1>2. data' \in 1 .. Payload + 1 /\ sections' \in Seq(Seq(Byte)) /\ published' \subseteq Sections
  BY <1>1 DEF PushTypes, HistoryTypes
<1> QED BY <1>1, <1>2, WithinPacketKeeps

LEMMA SkipSeenKeeps ==
  ASSUME MuxTypes, PushTypes, HistoryTypes, Steps, Heads, SkipSeen
  PROVE  MuxTypes' /\ PushTypes' /\ HistoryTypes' /\ Steps' /\ Heads'
<1>1. /\ Begins /\ step = "section_start" /\ step' \in {"section_start", "out"} /\ sections' = sections
      /\ data' = data + Least(Size(Here), Rest)
      /\ stream' = stream /\ published' = published
      /\ UNCHANGED <<muxVars, packet, run, finished>>
  BY DEF SkipSeen, Begins, Size
<1>2. data' \in 1 .. Payload + 1 /\ sections' \in Seq(Seq(Byte)) /\ published' \subseteq Sections
  BY <1>1, Skips DEF PushTypes, HistoryTypes
<1> QED BY <1>1, <1>2, WithinPacketKeeps

LEMMA ShortSectionKeeps ==
  ASSUME MuxTypes, PushTypes, HistoryTypes, Steps, Heads, ShortSection
  PROVE  MuxTypes' /\ PushTypes' /\ HistoryTypes' /\ Steps' /\ Heads'
<1> DEFINE cells == SubSeq(packet.cells, data, data + Size(Here) - 1)
<1>1. /\ Begins /\ step = "section_start" /\ stream' = stream
      /\ UNCHANGED <<muxVars, packet, run, finished>>
  BY DEF ShortSection, Begins
<1>2. /\ cells \in Seq(Byte) /\ cells[1] = packet.cells[data] /\ Report(cells)
      /\ data' \in 1 .. Len(packet.cells) /\ step' \in {"section_start", "out"}
  BY ShortSectionIs
<1>3. packet.cells[data] \in Cell /\ Len(packet.cells) \in 1 .. Payload
  BY <1>1, StartsAt, PacketsAre
<1> HIDE DEF cells
<1>4. sections' \in Seq(Seq(Byte)) /\ published' \subseteq Sections
  BY <1>2, <1>3, ReportIs
<1>5. data' \in 1 .. Payload + 1
  BY <1>2, <1>3, Sizes
<1> QED BY <1>1, <1>2, <1>4, <1>5, WithinPacketKeeps

Beginning(st, h, n) == [st EXCEPT !.header = h, !.section_length = n, !.section_data = <<>>]

LEMMA BeginningIsOK ==
  ASSUME NEW st, StreamOK(st), NEW h \in Headers, NEW n \in Nat, NEW new, new = Beginning(st, h, n)
  PROVE  /\ StreamOK(new) /\ new.header = h /\ new.section_length = n /\ new.section_data = <<>>
         /\ new.subtables = st.subtables
<1>1. st \in Streams /\ SubtablesOK(st.subtables)
  BY DEF StreamOK
<1>2. <<>> \in Seq((Sections \X Nat) \cup {Stuffing})
  OBVIOUS
<1>3. /\ new \in Streams /\ new.header = h /\ new.section_length = n /\ new.section_data = <<>>
      /\ new.subtables = st.subtables
  BY <1>1, <1>2 DEF Streams, Beginning
<1>4. StreamOK(new)
  BY <1>1, <1>3 DEF StreamOK
<1> QED BY <1>3, <1>4

LEMMA StartSectionKeeps ==
  ASSUME MuxTypes, PushTypes, HistoryTypes, Steps, Heads, StartSection
  PROVE  MuxTypes' /\ PushTypes' /\ HistoryTypes' /\ Steps' /\ Heads'
<1> DEFINE new == Beginning(stream, Header(Here), Size(Here))
<1>1. /\ Begins /\ step' = "accumulate" /\ stream' = new
      /\ left' = left /\ next_cc' = next_cc /\ faults' = faults
      /\ packet' = packet /\ data' = data /\ sections' = sections
      /\ run' = run /\ finished' = finished /\ published' = published
  BY DEF StartSection, muxVars, Size, Beginning
<1>2. /\ PacketOK(packet) /\ StreamOK(stream) /\ packet # None /\ data \in 1 .. Len(packet.cells)
      /\ packet.cells[data] \in Cell /\ Here \in Sections /\ packet.cells[data][1] = Here
  BY <1>1, StartsAt
<1>3. Header(Here) \in Headers /\ Size(Here) \in Nat /\ Size(Here) >= 1
  BY <1>2, HeadersAre, Sizes
<1>4. /\ StreamOK(new) /\ new.header = Header(Here) /\ new.section_length = Size(Here)
      /\ new.section_data = <<>>
  BY <1>2, <1>3, BeginningIsOK
<1> HIDE DEF new
<1>5. new # None
  BY <1>4, StreamsAre
<1>6. MuxTypes' /\ HistoryTypes'
  BY <1>1 DEF MuxTypes, LeftOK, HistoryTypes
<1>7. PushTypes'
  BY <1>1, <1>4 DEF PushTypes
<1>8. Steps'
  BY <1>1, <1>2, <1>3, <1>4, <1>5 DEF Steps, Waits
<1>9. Heads'
  BY <1>1, <1>2, <1>4 DEF Heads, First
<1> QED BY <1>6, <1>7, <1>8, <1>9

LEMMA OutKeeps ==
  ASSUME MuxTypes, PushTypes, HistoryTypes, Steps, Heads, Out
  PROVE  MuxTypes' /\ PushTypes' /\ HistoryTypes' /\ Steps' /\ Heads'
<1>1. /\ step = "out" /\ step' = "idle" /\ sections' = <<>> /\ data' = 1 /\ finished' = {}
      /\ left' = left /\ next_cc' = next_cc /\ faults' = faults
      /\ packet' = packet /\ stream' = stream /\ run' = run /\ published' = published
  BY DEF Out, muxVars
<1>2. MuxTypes' /\ HistoryTypes'
  BY <1>1 DEF MuxTypes, LeftOK, HistoryTypes
<1>3. PushTypes'
  BY <1>1, Sizes DEF PushTypes
<1>4. Steps'
  BY <1>1 DEF Steps, Waits
<1>5. Heads'
  BY <1>1 DEF Steps, Heads, Waits, First
<1> QED BY <1>2, <1>3, <1>4, <1>5

LEMMA FlushKeeps ==
  ASSUME MuxTypes, PushTypes, HistoryTypes, Steps, Heads, Flush
  PROVE  MuxTypes' /\ PushTypes' /\ HistoryTypes' /\ Steps' /\ Heads'
<1>1. /\ step = "idle" /\ step' = "idle" /\ stream # None /\ stream' = Cleared(stream) /\ run' = None
      /\ left' = left /\ next_cc' = next_cc /\ faults' = faults
      /\ packet' = packet /\ data' = data /\ sections' = sections
      /\ finished' = finished /\ published' = published
  BY DEF Flush, Idle, muxVars
<1>2. StreamOK(stream)
  BY <1>1 DEF PushTypes
<1>3. /\ StreamOK(stream') /\ stream'.continuity_counter = Unset
      /\ stream'.section_length = 0 /\ stream'.section_data = <<>>
  BY <1>1, <1>2, StreamsAre, ClearedIsOK
<1>4. MuxTypes' /\ HistoryTypes'
  BY <1>1 DEF MuxTypes, LeftOK, HistoryTypes
<1>5. PushTypes'
  BY <1>1, <1>3 DEF PushTypes
<1>6. Steps' /\ Heads'
  BY <1>1, <1>3 DEF Steps, Heads, Waits
<1> QED BY <1>4, <1>5, <1>6

LEMMA RemoveStreamKeeps ==
  ASSUME MuxTypes, PushTypes, HistoryTypes, Steps, Heads, RemoveStream
  PROVE  MuxTypes' /\ PushTypes' /\ HistoryTypes' /\ Steps' /\ Heads'
<1>1. /\ step = "idle" /\ step' = "idle" /\ stream' = None /\ run' = None /\ published' = {}
      /\ left' = left /\ next_cc' = next_cc /\ faults' = faults
      /\ packet' = packet /\ data' = data /\ sections' = sections /\ finished' = finished
  BY DEF RemoveStream, Idle, muxVars
<1>2. MuxTypes' /\ HistoryTypes'
  BY <1>1 DEF MuxTypes, LeftOK, HistoryTypes
<1>3. PushTypes'
  BY <1>1 DEF PushTypes
<1>4. Steps' /\ Heads'
  BY <1>1 DEF Steps, Heads, Waits
<1> QED BY <1>2, <1>3, <1>4

Typed == MuxTypes /\ PushTypes /\ HistoryTypes /\ Steps /\ Heads

LEMMA InitIsTyped == Init => Typed
<1> SUFFICES ASSUME Init PROVE Typed
  OBVIOUS
<1>1. left = <<>> /\ next_cc = 0 /\ faults = 0 /\ step = "idle" /\ packet = None /\ data = 1
  BY DEF Init
<1>2. sections = <<>> /\ stream = None /\ run = None /\ finished = {} /\ published = {}
  BY DEF Init
<1>3. left \in Seq(Cell) /\ sections \in Seq(Seq(Byte)) /\ 0 \in 0 .. CcModulus - 1 /\ 0 \in 0 .. MaxFaults
      /\ 1 \in 1 .. Payload + 1
  BY <1>1, <1>2, Sizes
<1>4. MuxTypes /\ PushTypes /\ HistoryTypes
  BY <1>1, <1>2, <1>3 DEF MuxTypes, LeftOK, PushTypes, HistoryTypes
<1>5. Steps /\ Heads
  BY <1>1, <1>2 DEF Steps, Heads, Waits
<1> QED BY <1>4, <1>5 DEF Typed

LEMMA NextKeepsTyped == Typed /\ [Next]_vars => Typed'
<1> SUFFICES ASSUME Typed, [Next]_vars PROVE Typed'
  OBVIOUS
<1>0. MuxTypes /\ PushTypes /\ HistoryTypes /\ Steps /\ Heads
  BY DEF Typed
<1>1. ASSUME NEW new \in Starting, Arrive(new) PROVE Typed'
  BY <1>0, <1>1, ArriveKeeps DEF Typed
<1>2. ASSUME NEW new \in Starting, Lose(new) PROVE Typed'
  BY <1>0, <1>2, LoseKeeps DEF Typed
<1>3. CASE Repeat
  BY <1>0, <1>3, RepeatKeeps DEF Typed
<1>4. CASE Accumulate
  BY <1>0, <1>4, AccumulateKeeps DEF Typed
<1>5. CASE NothingMore
  BY <1>0, <1>5, NothingMoreKeeps DEF Typed
<1>6. CASE ShortSection
  BY <1>0, <1>6, ShortSectionKeeps DEF Typed
<1>7. CASE Leave
  BY <1>0, <1>7, LeaveKeeps DEF Typed
<1>8. CASE SkipSeen
  BY <1>0, <1>8, SkipSeenKeeps DEF Typed
<1>9. CASE StartSection
  BY <1>0, <1>9, StartSectionKeeps DEF Typed
<1>10. CASE Out
  BY <1>0, <1>10, OutKeeps DEF Typed
<1>11. CASE Flush
  BY <1>0, <1>11, FlushKeeps DEF Typed
<1>12. CASE RemoveStream
  BY <1>0, <1>12, RemoveStreamKeeps DEF Typed
<1>13. CASE UNCHANGED vars
  <2>1. /\ left' = left /\ next_cc' = next_cc /\ faults' = faults /\ step' = step /\ packet' = packet
        /\ data' = data /\ sections' = sections /\ stream' = stream
        /\ run' = run /\ finished' = finished /\ published' = published
    BY <1>13 DEF vars, muxVars
  <2>2. MuxTypes' /\ PushTypes' /\ HistoryTypes'
    BY <1>0, <2>1 DEF MuxTypes, LeftOK, PushTypes, HistoryTypes
  <2>3. Steps' /\ Heads'
    BY <1>0, <2>1 DEF Steps, Heads, Waits, First
  <2> QED BY <2>2, <2>3 DEF Typed
<1> QED
  BY <1>1, <1>2, <1>3, <1>4, <1>5, <1>6, <1>7, <1>8, <1>9, <1>10, <1>11, <1>12, <1>13 DEF Next, Push

LEMMA TypedIsTypeOK == Typed => TypeOK
<1> SUFFICES ASSUME Typed PROVE TypeOK
  OBVIOUS
<1>1. MuxTypes /\ PushTypes /\ HistoryTypes /\ Steps
  BY DEF Typed
<1>2. ASSUME stream # None
      PROVE  /\ stream.subtables \subseteq Subtables
             /\ \A t, u \in stream.subtables :
                  t.table_id = u.table_id /\ t.subtable_extension = u.subtable_extension => t = u
  BY <1>1, <1>2 DEF PushTypes, StreamOK, SubtablesOK
<1>3. ASSUME stream # None, step = "idle"
      PROVE  stream.continuity_counter # Unset <=> Len(stream.section_data) < stream.section_length
  BY <1>1, <1>3 DEF Steps
<1> QED BY <1>1, <1>2, <1>3 DEF TypeOK, MuxTypes, PushTypes, HistoryTypes

LEMMA AlwaysTyped == Spec => []Typed
BY InitIsTyped, NextKeepsTyped, PTL DEF Spec

\* The types, and: the stream of a PID has a continuity counter exactly while it waits for the
\* rest of a section, and never two subtables for one table (push_section, accumulate_data).
THEOREM SectionTypes == Spec => []TypeOK
BY AlwaysTyped, TypedIsTypeOK, PTL
-----------------------------------------------------------------------------
(* What was published is known *)

LEMMA EnterKeepsUnseen ==
  ASSUME Typed, Unseen, SteadyTables, Idle, NEW p, PacketOK(p), Enter(p), published' = published
  PROVE  Unseen'
<1> DEFINE st == IF stream = None THEN NewStream ELSE stream
<1>1. Entered(p, st)
  BY EnterIs
<1>2. PushTypes /\ Steps
  BY DEF Typed
<1>3. StreamOK(st) /\ SubtablesOK(st.subtables)
  BY <1>2, NewStreamIsOK DEF PushTypes, StreamOK
<1>4. /\ stream = None => published = {}
      /\ stream # None => \A s \in published : fields[s].long => Knows(stream.subtables, s)
      /\ Waits => (fields[First[1]].long => First[1] \notin published)
  BY DEF Unseen
<1>5. \A s \in published : fields[s].long => Knows(st.subtables, s)
  BY <1>4
<1> HIDE DEF st
<1>6. CASE stream' = Cleared(st) /\ step' # "accumulate"
  <2>1. stream' # None /\ stream'.subtables = st.subtables /\ stream'.continuity_counter = Unset
    BY <1>3, <1>6, ClearedIsOK, StreamsAre
  <2>2. ~Waits'
    BY <2>1 DEF Waits
  <2> QED BY <1>5, <1>6, <2>1, <2>2 DEF Unseen
<1>7. CASE stream' = None /\ stream = None /\ step' = "out"
  BY <1>4, <1>7 DEF Unseen, Waits
<1>8. CASE step' = "accumulate" /\ data' = 1 /\ stream # None /\ stream' = stream /\ Follows(stream, p)
  <2>1. Waits
    BY <1>8 DEF Waits, Idle, Follows
  <2>2. stream.section_data # <<>>
    BY <1>2, <2>1 DEF Steps
  <2>3. First' = First
    BY <1>8, <2>2 DEF First
  <2> QED BY <1>4, <1>8, <2>1, <2>3 DEF Unseen
<1> QED BY <1>1, <1>6, <1>7, <1>8 DEF Entered

LEMMA AccumulateKeepsUnseen ==
  ASSUME Typed, Unseen, SteadyTables, Accumulate
  PROVE  Unseen'
<1>1. PICK r, all : /\ Reads(r, all) /\ AccumulateTo(r, all) /\ data' = data + r
                    /\ packet' = packet /\ run' = run /\ finished' = finished
                    /\ left' = left /\ next_cc' = next_cc /\ faults' = faults
  BY AccumulateIs DEF Typed
<1>2. step = "accumulate" /\ PushTypes /\ Steps /\ Heads
  BY DEF Accumulate, Typed
<1>3. PacketOK(packet) /\ StreamOK(stream) /\ stream # None /\ SubtablesOK(stream.subtables)
  BY <1>2, NoneAssumption DEF PushTypes, Steps, StreamOK
<1>4. all \in Seq(Byte) /\ all # <<>> /\ all[1] = First
  BY <1>1, <1>2, ReadsIs
<1>5. First \in Cell /\ stream.header = Header(First[1]) /\ First[1] \in Sections
  BY <1>2 DEF Heads, Cell
<1>6. /\ \A s \in published : fields[s].long => Knows(stream.subtables, s)
      /\ fields[First[1]].long => First[1] \notin published
  BY <1>2, <1>3 DEF Unseen
<1>7. CASE /\ Len(all) < stream.section_length /\ step' = "out"
           /\ stream' = [stream EXCEPT !.continuity_counter = packet.cc, !.section_data = all]
           /\ sections' = sections /\ published' = published
  <2>1. packet.cc \in 0 .. CcModulus
    BY <1>3, PacketsAre, Sizes
  <2>2. /\ StreamOK(stream') /\ stream'.section_data = all /\ stream'.subtables = stream.subtables
    <3>1. stream' = Partial(stream, packet.cc, all)
      BY <1>7 DEF Partial
    <3> QED BY <1>3, <1>4, <2>1, <3>1, PartIsOK
  <2>3. First' = First /\ stream' # None
    BY <1>4, <2>2, StreamsAre DEF First
  <2> QED BY <1>6, <1>7, <2>2, <2>3 DEF Unseen
<1>8. CASE /\ Len(all) = stream.section_length /\ step' = "section_start"
           /\ stream' = [Cleared(stream) EXCEPT !.subtables = Recorded(stream, stream.header)]
           /\ Report(all)
  <2> DEFINE s0 == First[1]
  <2>1. SubtablesOK(Recorded(stream, stream.header))
    BY <1>3, <1>5, RecordedIsOK
  <2>2. StreamOK(stream') /\ stream'.subtables = Recorded(stream, Header(s0))
    BY <1>3, <1>5, <1>8, <2>1, RecordingIsOK
  <2>3. stream' # None /\ ~Waits'
    BY <1>8, <2>2, StreamsAre DEF Waits
  <2>4. published' = {t \in published : Key(t) # Key(s0) \/ Version(t) = Version(s0)} \cup {s0}
    BY <1>4, <1>8 DEF Report
  <2>5. /\ Knows(Recorded(stream, Header(s0)), s0)
        /\ \A t \in Sections : Knows(stream.subtables, t) /\ (Key(t) = Key(s0) => Version(t) = Version(s0))
             => Knows(Recorded(stream, Header(s0)), t)
    BY <1>3, <1>5, RecordedKnows
  <2>6. published \subseteq Sections
    BY DEF Typed, HistoryTypes
  <2> HIDE DEF s0
  <2>7. \A t \in published' : fields[t].long => Knows(stream'.subtables, t)
    BY <1>6, <2>2, <2>4, <2>5, <2>6
  <2> QED BY <1>8, <2>3, <2>7 DEF Unseen
<1> QED BY <1>1, <1>7, <1>8 DEF AccumulateTo

LEMMA StartSectionKeepsUnseen ==
  ASSUME Typed, Unseen, SteadyTables, StartSection
  PROVE  Unseen'
<1> DEFINE new == Beginning(stream, Header(Here), Size(Here))
<1>1. /\ Begins /\ step' = "accumulate" /\ stream' = new /\ ~SeenBefore(stream, Header(Here))
      /\ packet' = packet /\ data' = data /\ published' = published
  BY DEF StartSection, Size, Beginning
<1>2. PushTypes /\ Steps
  BY DEF Typed
<1>3. StreamOK(stream) /\ stream # None /\ Here \in Sections /\ packet.cells[data][1] = Here
  BY <1>1, <1>2, StartsAt
<1>4. Header(Here) \in Headers /\ Size(Here) \in Nat
  BY <1>3, HeadersAre, Sizes
<1>5. StreamOK(new) /\ new.section_data = <<>> /\ new.subtables = stream.subtables
  BY <1>3, <1>4, BeginningIsOK
<1> HIDE DEF new
<1>6. stream' # None /\ First'[1] = Here
  BY <1>1, <1>3, <1>5, StreamsAre DEF First
<1>7. \A s \in published : fields[s].long => Knows(stream.subtables, s)
  BY <1>3 DEF Unseen
<1>8. fields[Here].long => Here \notin published
  BY <1>1, <1>3, <1>7, KnownIsSeen
<1>9. \A s \in published' : fields[s].long => Knows(stream'.subtables, s)
  BY <1>1, <1>5, <1>7
<1>10. fields[First'[1]].long => First'[1] \notin published'
  BY <1>1, <1>6, <1>8
<1> QED BY <1>6, <1>9, <1>10 DEF Unseen

\* Nothing long is published and the subtables stay.
LEMMA OthersKeepUnseen ==
  ASSUME Typed, Unseen, SteadyTables, stream # None, stream' # None,
         stream'.subtables = stream.subtables,
         \A s \in published' : fields[s].long => s \in published,
         step' # "accumulate", ~Waits'
  PROVE  Unseen'
<1>1. \A s \in published : fields[s].long => Knows(stream.subtables, s)
  BY DEF Unseen
<1> QED BY <1>1 DEF Unseen

LEMMA SectionStartKeepsUnseen ==
  ASSUME Typed, Unseen, SteadyTables, NothingMore \/ ShortSection \/ Leave \/ SkipSeen
  PROVE  Unseen'
<1>1. /\ step = "section_start" /\ step' \in {"section_start", "out"}
      /\ stream' = Cleared(stream) \/ stream' = stream
  BY DEF NothingMore, ShortSection, Leave, SkipSeen, Begins
<1>2. PushTypes /\ Steps
  BY DEF Typed
<1>3. stream # None /\ stream = Cleared(stream) /\ stream' = stream
  BY <1>1, <1>2 DEF Steps
<1>4. stream.continuity_counter = Unset
  BY <1>2, <1>3, StreamsAre, ClearedIsOK DEF PushTypes
<1>5. ~Waits' /\ step' # "accumulate"
  BY <1>1, <1>3, <1>4 DEF Waits
<1>6. \A s \in published' : fields[s].long => s \in published
  <2>1. CASE ShortSection
    <3> DEFINE cells == SubSeq(packet.cells, data, data + Size(Here) - 1)
    <3>1. Begins /\ IsFast(Here)
      BY <2>1 DEF ShortSection
    <3>2. Report(cells) /\ cells[1] = packet.cells[data]
      BY <1>2, <2>1, ShortSectionIs
    <3>3. cells[1][1] = Here /\ ~fields[Here].long
      BY <1>2, <3>1, <3>2, StartsAt DEF IsFast
    <3> HIDE DEF cells
    <3> QED BY <3>2, <3>3 DEF Report
  <2>2. CASE NothingMore \/ Leave \/ SkipSeen
    BY <2>2 DEF NothingMore, Leave, SkipSeen
  <2> QED BY <2>1, <2>2
<1> QED BY <1>3, <1>5, <1>6, OthersKeepUnseen

LEMMA NextKeepsUnseen == Typed /\ Unseen /\ [Next]_vars => Unseen'
<1> SUFFICES ASSUME Typed, Unseen, [Next]_vars, SteadyTables PROVE Unseen'
  BY DEF Unseen
<1>1. PushTypes /\ MuxTypes /\ Steps /\ Heads
  BY DEF Typed
<1>2. ASSUME NEW new \in Starting, Arrive(new) PROVE Unseen'
  <2>1. Idle /\ Fits(new) /\ Enter(Packet(new)) /\ published' = published
    BY <1>2 DEF Arrive
  <2>2. PacketOK(Packet(new))
    BY <1>1, <2>1, PacketIsWell DEF MuxTypes
  <2> QED BY <2>1, <2>2, EnterKeepsUnseen
<1>3. CASE Repeat
  <2>1. Idle /\ PacketOK(packet) /\ Enter(packet) /\ published' = published
    BY <1>1, <1>3 DEF Repeat, PushTypes
  <2> QED BY <2>1, EnterKeepsUnseen
<1>4. CASE Accumulate
  BY <1>4, AccumulateKeepsUnseen
<1>5. CASE NothingMore \/ ShortSection \/ Leave \/ SkipSeen
  BY <1>5, SectionStartKeepsUnseen
<1>6. CASE StartSection
  BY <1>6, StartSectionKeepsUnseen
<1>7. CASE Out
  <2>1. step = "out" /\ step' = "idle" /\ stream' = stream /\ published' = published
    BY <1>7 DEF Out
  <2>2. Waits' => Waits /\ stream.section_data # <<>>
    BY <1>1, <2>1 DEF Waits, Steps
  <2>3. Waits' => First' = First
    BY <2>1, <2>2 DEF First
  <2> QED BY <2>1, <2>2, <2>3 DEF Unseen
<1>8. CASE Flush
  <2>1. stream # None /\ stream' = Cleared(stream) /\ published' = published /\ step' = "idle"
    BY <1>8 DEF Flush, Idle
  <2>2. /\ stream' # None /\ stream'.subtables = stream.subtables /\ stream'.continuity_counter = Unset
    BY <1>1, <2>1, ClearedIsOK, StreamsAre DEF PushTypes
  <2>3. ~Waits'
    BY <2>2 DEF Waits
  <2> QED BY <2>1, <2>2, <2>3, OthersKeepUnseen
<1>9. CASE RemoveStream
  <2>1. stream' = None /\ published' = {} /\ step' = "idle"
    BY <1>9 DEF RemoveStream, Idle
  <2> QED BY <2>1 DEF Unseen, Waits
<1>10. CASE (\E new \in Starting : Lose(new)) \/ UNCHANGED vars
  <2>1. /\ step' = step /\ packet' = packet /\ data' = data /\ stream' = stream /\ published' = published
    BY <1>10 DEF Lose, vars
  <2> QED BY <2>1 DEF Unseen, Waits, First
<1> QED BY <1>2, <1>3, <1>4, <1>5, <1>6, <1>7, <1>8, <1>9, <1>10 DEF Next, Push

LEMMA NotAgain ==
  ASSUME Typed, Unseen, SteadyTables, [Next]_vars,
         NEW s \in Sections, fields[s].long, s \in published
  PROVE  sections' # Append(sections, Cells(s))
<1>1. PushTypes /\ Steps /\ Heads
  BY DEF Typed
<1>2. /\ Len(sections) \in Nat /\ Len(Append(sections, Cells(s))) = Len(sections) + 1
      /\ Append(sections, Cells(s))[Len(sections) + 1] = Cells(s)
  BY <1>1 DEF PushTypes
<1>3. CASE sections' = sections \/ sections' = <<>>
  BY <1>2, <1>3
<1>4. Cells(s)[1] = <<s, 1>>
  BY CellsAre, Sizes
<1>5. CASE Accumulate
  <2>1. PICK r, all : Reads(r, all) /\ AccumulateTo(r, all)
    BY <1>1, <1>5, AccumulateIs
  <2>2. step = "accumulate"
    BY <1>5 DEF Accumulate
  <2>3. all[1] = First
    BY <1>1, <2>1, <2>2, ReadsIs
  <2>4. First[1] # s
    BY <2>2 DEF Unseen
  <2>5. all # Cells(s)
    BY <1>4, <2>3, <2>4
  <2>6. sections' = sections \/ sections' = Append(sections, all)
    BY <2>1 DEF AccumulateTo, Report
  <2>7. CASE sections' = Append(sections, all)
    <3>1. Append(sections, all)[Len(sections) + 1] = all
      BY <1>1 DEF PushTypes
    <3> QED BY <1>2, <2>5, <2>7, <3>1
  <2> QED BY <1>3, <2>6, <2>7
<1>6. CASE ShortSection
  <2> DEFINE cells == SubSeq(packet.cells, data, data + Size(Here) - 1)
  <2>1. Begins /\ ~fields[Here].long
    BY <1>6 DEF ShortSection, IsFast
  <2>2. cells[1][1] = Here /\ Report(cells)
    BY <1>1, <1>6, <2>1, ShortSectionIs, StartsAt
  <2> HIDE DEF cells
  <2>3. cells # Cells(s) /\ sections' = Append(sections, cells)
    BY <1>4, <2>1, <2>2 DEF Report
  <2>4. Append(sections, cells)[Len(sections) + 1] = cells
    BY <1>1 DEF PushTypes
  <2> QED BY <1>2, <2>3, <2>4
<1>7. ASSUME ~Accumulate, ~ShortSection PROVE sections' = sections \/ sections' = <<>>
  <2>1. CASE (\E new \in Starting : Arrive(new)) \/ Repeat \/ Out
    BY <2>1 DEF Arrive, Repeat, Enter, Out
  <2>2. CASE \/ \E new \in Starting : Lose(new)
             \/ NothingMore \/ Leave \/ SkipSeen \/ StartSection \/ Flush \/ RemoveStream
             \/ UNCHANGED vars
    BY <2>2 DEF Lose, NothingMore, Leave, SkipSeen, StartSection, Flush, RemoveStream, vars
  <2> QED BY <1>7, <2>1, <2>2 DEF Next, Push
<1> QED BY <1>3, <1>5, <1>6, <1>7

\* push_section skips what was seen: a section of a table that is complete or under way is not
\* reported again until another version of its table was, through any losses, repeated packets
\* and flushes.
THEOREM ReportedOnce == Spec => Fresh
<1>1. Init => Typed /\ Unseen
  BY InitIsTyped DEF Init, Unseen, Waits
<1>2. (Typed /\ Unseen) /\ [Next]_vars => (Typed /\ Unseen)'
  BY NextKeepsTyped, NextKeepsUnseen
<1>3. (Typed /\ Unseen) /\ [Next]_vars
        => [SteadyTables => \A s \in Sections : fields[s].long /\ s \in published
                              => sections' # Append(sections, Cells(s))]_vars
  BY NotAgain
<1> QED BY <1>1, <1>2, <1>3, PTL DEF Spec, Fresh
-----------------------------------------------------------------------------
(* What is reported is whole *)

Follow(cc) == IF cc + 1 = CcModulus THEN 0 ELSE cc + 1

LEMMA NextCounter ==
  ASSUME NEW cc \in 0 .. CcModulus - 1
  PROVE  (cc + 1) % CcModulus = Follow(cc) /\ Follow(cc) # cc /\ Follow(cc) \in 0 .. CcModulus - 1
<1>1. CcModulus \in Nat /\ CcModulus > 1
  BY Sizes
<1>2. (cc + 1) % CcModulus = IF cc + 1 = CcModulus THEN 0 ELSE cc + 1
  BY <1>1
<1> QED BY <1>1, <1>2 DEF Follow

\* From a cell on, the cells of its section follow, and after them one that starts a section.
LEMMA RunsOn ==
  ASSUME NEW p, PacketOK(p), NEW i \in 1 .. Len(p.cells), NEW s \in Sections, NEW k \in Nat,
         p.cells[i] = <<s, k>>
  PROVE  /\ k \in 1 .. Size(s)
         /\ \A j \in 1 .. Len(p.cells) : i <= j /\ k + (j - i) <= Size(s) => p.cells[j] = <<s, k + (j - i)>>
         /\ \A j \in 1 .. Len(p.cells) : j = i + (Size(s) - k) + 1 => p.cells[j] = Stuffing \/ p.cells[j][2] = 1
<1> DEFINE q == p.cells
<1>1. q \in Seq(Byte) /\ Len(q) \in Nat /\ Numbered(q) /\ Runs(q) /\ Ends(q) /\ Size(s) \in Nat
  BY PacketsAre, Sizes DEF PacketOK, Ordered
<1>2. q[i] = <<s, k>> /\ q[i] # Stuffing /\ q[i][1] = s /\ q[i][2] = k
  BY CellIsNoStuffing DEF Cell
<1> HIDE DEF q
<1>3. i \in 1 .. Len(q)
  BY DEF q
<1>4. k \in 1 .. Size(s)
  BY <1>1, <1>2, <1>3 DEF Numbered
<1>5. ASSUME NEW j \in 1 .. Len(q), i <= j, k + (j - i) <= Size(s)
      PROVE  q[j] = <<s, k + (j - i)>> /\ q[j] # Stuffing
  BY <1>1, <1>2, <1>3, <1>5 DEF Runs
<1>6. ASSUME NEW j \in 1 .. Len(q), j = i + (Size(s) - k) + 1
      PROVE  q[j] = Stuffing \/ q[j][2] = 1
  <2> DEFINE e == i + (Size(s) - k)
  <2>1. e \in 1 .. Len(q) /\ i <= e /\ k + (e - i) = Size(s) /\ j = e + 1
    BY <1>1, <1>3, <1>4, <1>6
  <2> HIDE DEF e
  <2>2. q[e] = <<s, k + (e - i)>> /\ q[e] # Stuffing
    BY <1>1, <1>5, <2>1
  <2>3. q[e][1] = s /\ q[e][2] = Size(s)
    BY <2>1, <2>2
  <2> QED BY <1>1, <2>1, <2>2, <2>3 DEF Ends
<1> QED BY <1>4, <1>5, <1>6 DEF q

LEMMA IsWhole ==
  ASSUME NEW s \in Sections, NEW cells \in Seq(Byte), Len(cells) = Size(s),
         \A i \in 1 .. Size(s) : cells[i] = <<s, i>>
  PROVE  cells = Cells(s)
<1>1. Cells(s) \in Seq(Byte) /\ Len(Cells(s)) = Size(s) /\ \A i \in 1 .. Size(s) : Cells(s)[i] = <<s, i>>
  BY CellsAre DEF Byte
<1> QED BY <1>1, SeqEqual

LEMMA ReportsWhole ==
  ASSUME PushTypes, Intact, NEW s \in Sections, sections' = Append(sections, Cells(s))
  PROVE  \A i \in 1 .. Len(sections') : \E t \in Sections : sections'[i] = Cells(t)
<1> TAKE i \in 1 .. Len(sections')
<1>1. sections \in Seq(Seq(Byte)) /\ \A j \in 1 .. Len(sections) : \E t \in Sections : sections[j] = Cells(t)
  BY DEF PushTypes, Intact
<1>2. CASE i = Len(sections) + 1
  <2>1. sections'[i] = Cells(s)
    BY <1>1, <1>2
  <2> QED BY <2>1
<1>3. CASE i # Len(sections) + 1
  <2>1. i \in 1 .. Len(sections) /\ sections'[i] = sections[i]
    BY <1>1, <1>3
  <2> QED BY <1>1, <2>1
<1> QED BY <1>2, <1>3

LEMMA CaughtUp ==
  ASSUME MuxTypes, PacketOK(packet), faults < CcModulus, NEW n \in 0 .. faults, Behind(n),
         next_cc = Follow(packet.cc)
  PROVE  n = 0
<1>1. packet.cc \in 0 .. CcModulus - 1 /\ CcModulus \in Nat /\ n \in Nat /\ n < CcModulus
  BY PacketsAre, Sizes DEF MuxTypes
<1>2. next_cc = packet.cc + 1 + n \/ next_cc = packet.cc + 1 + n - CcModulus
  BY DEF Behind
<1>3. next_cc = IF packet.cc + 1 = CcModulus THEN 0 ELSE packet.cc + 1
  BY DEF Follow
<1> DEFINE cc == packet.cc
<1> HIDE DEF cc
<1>4. cc \in Nat /\ cc < CcModulus /\ (next_cc = cc + 1 + n \/ next_cc = cc + 1 + n - CcModulus)
      /\ next_cc = IF cc + 1 = CcModulus THEN 0 ELSE cc + 1
  BY <1>1, <1>2, <1>3 DEF cc
<1> QED BY <1>1, <1>4

\* The packet that follows starts with the next cell of the section that is waited for.
LEMMA FollowingGoesOn ==
  ASSUME Typed, Assembled, faults < CcModulus, Waits, NEW new \in Starting, Fits(new),
         Follows(stream, Packet(new))
  PROVE  Packet(new).cells[1] = <<First[1], Len(stream.section_data) + 1>>
<1> DEFINE s == First[1]
           k == Len(stream.section_data)
<1>1. MuxTypes /\ PushTypes /\ Steps /\ Heads
  BY DEF Typed
<1>2. packet # None /\ PacketOK(packet) /\ StreamOK(stream) /\ s \in Sections
  BY <1>1 DEF Steps, PushTypes, Heads, Waits, Cell
<1>3. /\ stream.section_length = Size(s) /\ packet.cc = stream.continuity_counter
      /\ packet.cells[Len(packet.cells)] = <<s, k>>
  BY DEF Assembled
<1>4. k < Size(s) /\ k \in Nat /\ Size(s) \in Nat
  BY <1>1, <1>2, <1>3, StreamsAre, Sizes DEF Steps, Waits
<1>5. Packet(new).cc = next_cc /\ (left # <<>> => Packet(new).cells[1] = left[1])
  BY <1>1, PacketIsWell DEF MuxTypes
<1>6. next_cc = Follow(packet.cc)
  BY <1>2, <1>3, <1>5, NextCounter, PacketsAre DEF Follows
<1>7. PICK n \in 0 .. faults : Behind(n)
  BY <1>2 DEF Assembled
<1>8. Continues(packet.cells, left)
  BY <1>1, <1>2, <1>6, <1>7, CaughtUp DEF Behind
<1> HIDE DEF s, k
<1>9. <<s, k>> \in Cell /\ <<s, k>> # Stuffing
  BY <1>2, <1>4, CellIsNoStuffing DEF Cell
<1>10. Len(left) = Size(s) - k /\ \A i \in 1 .. Len(left) : left[i] = <<s, k + i>>
  BY <1>3, <1>8, <1>9 DEF Continues
<1>11. 1 \in 1 .. Len(left) /\ left # <<>>
  BY <1>4, <1>10
<1>12. left[1] = <<s, k + 1>>
  BY <1>10, <1>11
<1> QED BY <1>5, <1>11, <1>12 DEF s, k

LEMMA EnterAssembles ==
  ASSUME Typed, Assembled, Idle, NEW p, PacketOK(p), Enter(p),
         Waits /\ Follows(stream, p) => p.cells[1] = <<First[1], Len(stream.section_data) + 1>>,
         packet' # None => (\E n \in 0 .. faults : Behind(n))'
  PROVE  Assembled'
<1> DEFINE st == IF stream = None THEN NewStream ELSE stream
<1>1. Entered(p, st)
  BY EnterIs
<1>2. PushTypes /\ Steps
  BY DEF Typed
<1>3. StreamOK(st) /\ SubtablesOK(st.subtables)
  BY <1>2, NewStreamIsOK DEF PushTypes, StreamOK
<1> HIDE DEF st
<1>4. packet' = p /\ sections' = <<>>
  BY <1>1 DEF Entered
<1>5. \A i \in 1 .. Len(sections') : \E s \in Sections : sections'[i] = Cells(s)
  BY <1>4
<1>6. CASE step' # "accumulate" /\ (stream' = Cleared(st) \/ stream' = None)
           /\ (step' = "section_start" => data' = p.pointer + 1 /\ p.pusi)
  <2>1. ~Waits'
    BY <1>3, <1>6, ClearedIsOK, StreamsAre DEF Waits
  <2>2. step' = "section_start" => p.cells[data'][2] = 1
    BY <1>6 DEF PacketOK
  <2>3. Intact'
    BY <1>4, <1>5, <2>2 DEF Intact
  <2> QED BY <1>6, <2>1, <2>3 DEF Assembled
<1>7. CASE step' = "accumulate" /\ data' = 1 /\ stream # None /\ stream' = stream /\ Follows(stream, p)
  <2>1. Waits
    BY <1>7 DEF Waits, Idle, Follows
  <2>2. stream.section_data # <<>>
    BY <1>2, <2>1 DEF Steps
  <2>3. First' = First
    BY <1>7, <2>2 DEF First
  <2>4. p.cells[1] = <<First[1], Len(stream.section_data) + 1>>
    BY <1>7, <2>1
  <2>5. Intact' /\ ~Waits'
    BY <1>5, <1>7 DEF Intact, Waits
  <2>6. /\ stream.section_length = Size(First[1])
        /\ \A i \in 1 .. Len(stream.section_data) : stream.section_data[i] = <<First[1], i>>
    BY <2>1 DEF Assembled
  <2> QED BY <1>4, <1>7, <2>3, <2>4, <2>5, <2>6 DEF Assembled
<1> QED BY <1>1, <1>6, <1>7 DEF Entered

LEMMA ArriveAssembles ==
  ASSUME Typed, Assembled, faults < CcModulus, NEW new \in Starting, Arrive(new)
  PROVE  Assembled'
<1> DEFINE p == Packet(new)
<1>1. /\ Idle /\ Fits(new) /\ Enter(p) /\ faults' = faults
      /\ left' = SubSeq(Sent(new), Room(new) + 1, Len(Sent(new)))
      /\ next_cc' = (next_cc + 1) % CcModulus
  BY DEF Arrive, Advance
<1>2. MuxTypes
  BY DEF Typed
<1>3. PacketOK(p) /\ p.cc = next_cc /\ Continues(p.cells, left')
  BY <1>1, <1>2, PacketIsWell DEF MuxTypes
<1>4. Waits /\ Follows(stream, p) => p.cells[1] = <<First[1], Len(stream.section_data) + 1>>
  BY <1>1, FollowingGoesOn
<1>5. packet' = p
  BY <1>1 DEF Enter
<1> HIDE DEF p
<1>6. next_cc' = Follow(next_cc) /\ next_cc \in Nat /\ next_cc < CcModulus /\ CcModulus \in Nat /\ faults \in Nat
  BY <1>1, <1>2, NextCounter, Sizes DEF MuxTypes
<1>7. Behind(0)'
  <2>1. next_cc' = p.cc + 1 + 0 \/ next_cc' = p.cc + 1 + 0 - CcModulus
    BY <1>3, <1>6 DEF Follow
  <2> QED BY <1>3, <1>5, <2>1 DEF Behind
<1>8. (\E n \in 0 .. faults : Behind(n))'
  BY <1>1, <1>6, <1>7
<1> QED BY <1>1, <1>3, <1>4, <1>8, EnterAssembles

LEMMA RepeatAssembles ==
  ASSUME Typed, Assembled, faults' < CcModulus, Repeat
  PROVE  Assembled'
<1>1. /\ Idle /\ packet # None /\ Enter(packet) /\ packet' = packet
      /\ left' = left /\ next_cc' = next_cc /\ faults' = faults + 1 /\ faults \in Nat
  BY Sizes DEF Repeat, Enter, Typed, MuxTypes
<1>2. PacketOK(packet)
  BY <1>1 DEF Typed, PushTypes
<1>3. ~(Waits /\ Follows(stream, packet))
  <2> SUFFICES ASSUME Waits, Follows(stream, packet) PROVE FALSE
    OBVIOUS
  <2>1. packet.cc = stream.continuity_counter
    BY DEF Assembled
  <2>2. Follow(packet.cc) = packet.cc
    BY <1>2, <2>1, NextCounter, PacketsAre DEF Follows
  <2> QED BY <1>2, <2>2, NextCounter, PacketsAre
<1>4. PICK n \in 0 .. faults : Behind(n)
  BY <1>1 DEF Assembled
<1>5. n \in 0 .. faults' /\ Behind(n)'
  BY <1>1, <1>4 DEF Behind
<1>6. (\E m \in 0 .. faults : Behind(m))'
  BY <1>5
<1> QED BY <1>1, <1>2, <1>3, <1>6, EnterAssembles

LEMMA LoseAssembles ==
  ASSUME Typed, Assembled, faults' < CcModulus, NEW new \in Starting, Lose(new)
  PROVE  Assembled'
<1>1. /\ Fits(new) /\ next_cc' = (next_cc + 1) % CcModulus /\ faults' = faults + 1
      /\ step' = step /\ packet' = packet /\ data' = data /\ sections' = sections /\ stream' = stream
  BY DEF Lose, Advance
<1>2. MuxTypes /\ PushTypes
  BY DEF Typed
<1>3. next_cc' = Follow(next_cc) /\ next_cc \in Nat /\ next_cc < CcModulus /\ CcModulus \in Nat /\ faults \in Nat
  BY <1>1, <1>2, NextCounter, Sizes DEF MuxTypes
<1>4. ASSUME packet # None PROVE (\E n \in 0 .. faults : Behind(n))'
  <2>1. PICK n \in 0 .. faults : Behind(n)
    BY <1>4 DEF Assembled
  <2>2. packet.cc \in Nat /\ packet.cc < CcModulus /\ n \in Nat /\ n + 1 < CcModulus
    BY <1>1, <1>2, <1>3, <1>4, <2>1, PacketsAre DEF PushTypes
  <2>3. next_cc = packet.cc + 1 + n \/ next_cc = packet.cc + 1 + n - CcModulus
    BY <2>1 DEF Behind
  <2> DEFINE cc == packet.cc
             next == next_cc'
  <2>4. /\ cc \in Nat /\ cc < CcModulus
        /\ next_cc = cc + 1 + n \/ next_cc = cc + 1 + n - CcModulus
        /\ next = IF next_cc + 1 = CcModulus THEN 0 ELSE next_cc + 1
    BY <1>3, <2>2, <2>3 DEF Follow
  <2> HIDE DEF cc, next
  <2>5. next = cc + 1 + (n + 1) \/ next = cc + 1 + (n + 1) - CcModulus
    BY <1>3, <2>2, <2>4
  <2>6. n + 1 \in 0 .. faults' /\ n + 1 # 0
    BY <1>1, <1>3
  <2>7. Behind(n + 1)'
    BY <1>1, <2>5, <2>6 DEF Behind, cc, next
  <2> QED BY <2>6, <2>7
<1> QED BY <1>1, <1>4 DEF Assembled, Intact, First, Waits, AtStuffing

LEMMA StillBehind ==
  ASSUME Assembled, packet' = packet, left' = left, next_cc' = next_cc, faults' = faults
  PROVE  packet' # None => (\E n \in 0 .. faults : Behind(n))'
<1> SUFFICES ASSUME packet # None PROVE (\E n \in 0 .. faults : Behind(n))'
  OBVIOUS
<1>1. PICK n \in 0 .. faults : Behind(n)
  BY DEF Assembled
<1>2. n \in 0 .. faults' /\ Behind(n)'
  BY <1>1 DEF Behind
<1> QED BY <1>2

LEMMA AccumulateAssembles ==
  ASSUME Typed, Assembled, Accumulate
  PROVE  Assembled'
<1>1. PICK r, all : /\ Reads(r, all) /\ AccumulateTo(r, all) /\ data' = data + r
                    /\ packet' = packet /\ run' = run /\ finished' = finished
                    /\ left' = left /\ next_cc' = next_cc /\ faults' = faults
  BY AccumulateIs DEF Typed
<1>2. step = "accumulate" /\ PushTypes /\ Steps /\ Heads
  BY DEF Accumulate, Typed
<1> DEFINE s == First[1]
           k == Len(stream.section_data)
           cells == packet.cells
<1>3. /\ PacketOK(packet) /\ StreamOK(stream) /\ stream # None /\ SubtablesOK(stream.subtables)
      /\ packet # None /\ s \in Sections /\ stream.header = Header(s)
  BY <1>2, NoneAssumption DEF PushTypes, Steps, StreamOK, Heads, Cell
<1>4. /\ r \in Nat /\ r >= 1 /\ data + r \in 1 .. Len(cells) + 1
      /\ all \in Seq(Byte) /\ Len(all) = k + r
      /\ Len(all) <= stream.section_length
      /\ Len(all) < stream.section_length => data + r = Len(cells) + 1
      /\ all[1] = First /\ all # <<>>
      /\ \A i \in 1 .. k : all[i] = stream.section_data[i]
      /\ \A i \in 1 .. r : all[k + i] = cells[data + i - 1]
  BY <1>1, <1>2, ReadsIs
<1>5. /\ stream.section_length = Size(s) /\ \A i \in 1 .. k : stream.section_data[i] = <<s, i>>
      /\ cells[data] = <<s, k + 1>>
  BY <1>2 DEF Assembled
<1>6. Size(s) \in Nat /\ k \in Nat /\ data \in 1 .. Len(cells) /\ Len(cells) \in 1 .. Payload
  BY <1>2, <1>3, StreamsAre, PacketsAre, Sizes DEF Steps
<1>7. /\ \A j \in 1 .. Len(cells) : data <= j /\ k + 1 + (j - data) <= Size(s) => cells[j] = <<s, k + 1 + (j - data)>>
      /\ \A j \in 1 .. Len(cells) : j = data + (Size(s) - (k + 1)) + 1 => cells[j] = Stuffing \/ cells[j][2] = 1
  <2>1. k + 1 \in Nat
    BY <1>6
  <2> HIDE DEF s, k
  <2> QED BY <1>3, <1>5, <1>6, <2>1, RunsOn
<1>8. packet' # None => (\E n \in 0 .. faults : Behind(n))'
  BY <1>1, StillBehind
<1>9. k + r <= Size(s)
  BY <1>4, <1>5
<1> HIDE DEF s, k, cells
<1>10. ASSUME NEW i \in 1 .. r PROVE all[k + i] = <<s, k + i>>
  <2> DEFINE j == data + i - 1
  <2>1. j \in 1 .. Len(cells) /\ data <= j /\ k + 1 + (j - data) = k + i /\ k + i <= Size(s)
    BY <1>4, <1>6, <1>9
  <2>2. all[k + i] = cells[j]
    BY <1>4
  <2> HIDE DEF j
  <2>3. cells[j] = <<s, k + 1 + (j - data)>>
    BY <1>7, <2>1
  <2> QED BY <2>1, <2>2, <2>3
<1>11. \A i \in 1 .. k + r : all[i] = <<s, i>>
  <2>3. \A i \in 1 .. k : all[i] = stream.section_data[i]
    BY <1>4
  <2>4. \A i \in 1 .. k : all[i] = <<s, i>>
    BY <1>5, <2>3
  <2> TAKE i \in 1 .. k + r
  <2>1. CASE i <= k
    <3>1. i \in 1 .. k
      BY <1>4, <1>6, <2>1
    <3> QED BY <2>4, <3>1
  <2>2. CASE ~(i <= k)
    <3>1. i - k \in 1 .. r /\ k + (i - k) = i
      BY <1>4, <1>6, <2>2
    <3> QED BY <1>10, <3>1
  <2> QED BY <2>1, <2>2
<1>12. CASE /\ Len(all) < stream.section_length /\ step' = "out"
            /\ stream' = [stream EXCEPT !.continuity_counter = packet.cc, !.section_data = all]
            /\ sections' = sections /\ published' = published
  <2>1. packet.cc \in 0 .. CcModulus
    BY <1>3, PacketsAre, Sizes
  <2>2. /\ stream'.section_data = all /\ stream'.continuity_counter = packet.cc
        /\ stream'.section_length = stream.section_length
    <3>1. stream' = Partial(stream, packet.cc, all)
      BY <1>12 DEF Partial
    <3> QED BY <1>3, <1>4, <2>1, <3>1, PartIsOK
  <2>3. First'[1] = s
    BY <1>4, <2>2 DEF First, s
  <2>4. cells[Len(cells)] = <<s, k + r>>
    <3>3. data + r = Len(cells) + 1
      BY <1>4, <1>12
    <3>1. r \in 1 .. r /\ data + r - 1 = Len(cells)
      BY <1>4, <1>6, <3>3
    <3>2. all[k + r] = cells[data + r - 1] /\ all[k + r] = <<s, k + r>>
      BY <1>4, <1>10, <3>1
    <3> QED BY <3>1, <3>2
  <2>5. Intact'
    BY <1>12 DEF Assembled, Intact
  <2>6. /\ stream'.section_length = Size(s) /\ Len(stream'.section_data) = k + r
        /\ \A i \in 1 .. k + r : stream'.section_data[i] = <<s, i>>
    BY <1>4, <1>5, <1>11, <2>2
  <2>7. packet'.cc = stream'.continuity_counter /\ packet'.cells[Len(packet'.cells)] = <<s, k + r>>
    BY <1>1, <2>2, <2>4 DEF cells
  <2> QED BY <1>8, <1>12, <2>3, <2>5, <2>6, <2>7 DEF Assembled
<1>13. CASE /\ Len(all) = stream.section_length /\ step' = "section_start"
            /\ stream' = [Cleared(stream) EXCEPT !.subtables = Recorded(stream, stream.header)]
            /\ Report(all)
  <2>1. k + r = Size(s)
    BY <1>4, <1>5, <1>13
  <2>2. all = Cells(s)
    BY <1>3, <1>4, <1>11, <2>1, IsWhole
  <2>3. sections' = Append(sections, Cells(s))
    BY <1>13, <2>2 DEF Report
  <2>4. \A i \in 1 .. Len(sections') : \E t \in Sections : sections'[i] = Cells(t)
    BY <1>2, <1>3, <2>3, ReportsWhole DEF Assembled
  <2>5. data' \in 1 .. Len(cells) => cells[data'] = Stuffing \/ cells[data'][2] = 1
    <3>1. data' = data + (Size(s) - (k + 1)) + 1
      BY <1>1, <1>4, <1>6, <2>1
    <3> QED BY <1>7, <3>1
  <2>6. step' = "section_start" /\ ~AtStuffing(data)' => packet'.cells[data'][2] = 1
    <3> SUFFICES ASSUME ~AtStuffing(data)' PROVE packet'.cells[data'][2] = 1
      OBVIOUS
    <3>1. ~(data' > Len(cells)) /\ cells[data'] # Stuffing
      BY <1>1 DEF AtStuffing, cells
    <3>2. data' \in 1 .. Len(cells)
      BY <1>1, <1>4, <1>6, <3>1
    <3> QED BY <1>1, <2>5, <3>1, <3>2 DEF cells
  <2>7. Intact'
    BY <2>4, <2>6 DEF Intact
  <2>8. ~Waits' /\ step' # "accumulate"
    BY <1>13 DEF Waits
  <2> QED BY <1>8, <2>7, <2>8 DEF Assembled
<1> QED BY <1>1, <1>12, <1>13 DEF AccumulateTo

\* A section begins at data, and where it ends another one does.
LEMMA BeginsWhole ==
  ASSUME PushTypes, Steps, Intact, Begins
  PROVE  /\ packet.cells[data] = <<Here, 1>>
         /\ \A i \in 1 .. Size(Here) :
              data + i - 1 \in 1 .. Len(packet.cells) => packet.cells[data + i - 1] = <<Here, i>>
         /\ data + Size(Here) \in 1 .. Len(packet.cells) =>
              packet.cells[data + Size(Here)] = Stuffing \/ packet.cells[data + Size(Here)][2] = 1
<1> DEFINE s == Here
           cells == packet.cells
<1>1. /\ PacketOK(packet) /\ data \in 1 .. Len(cells) /\ s \in Sections
      /\ cells[data] \in Cell /\ cells[data][1] = s
  BY StartsAt
<1>2. cells[data][2] = 1
  BY DEF Intact, Begins
<1>3. Size(s) \in Nat /\ Size(s) >= 1 /\ Len(cells) \in Nat
  BY <1>1, Sizes, PacketsAre
<1> HIDE DEF s, cells
<1>4. cells[data] = <<s, 1>> /\ 1 \in Nat
  BY <1>1, <1>2 DEF Cell
<1>5. /\ \A j \in 1 .. Len(cells) : data <= j /\ 1 + (j - data) <= Size(s) => cells[j] = <<s, 1 + (j - data)>>
      /\ \A j \in 1 .. Len(cells) : j = data + (Size(s) - 1) + 1 => cells[j] = Stuffing \/ cells[j][2] = 1
  <2> DEFINE k == 1
  <2>1. PacketOK(packet) /\ data \in 1 .. Len(packet.cells) /\ packet.cells[data] = <<s, k>> /\ k \in Nat
    BY <1>1, <1>4 DEF cells
  <2> HIDE DEF k
  <2>2. /\ \A j \in 1 .. Len(cells) : data <= j /\ k + (j - data) <= Size(s) => cells[j] = <<s, k + (j - data)>>
        /\ \A j \in 1 .. Len(cells) : j = data + (Size(s) - k) + 1 => cells[j] = Stuffing \/ cells[j][2] = 1
    BY <1>1, <2>1, RunsOn DEF cells
  <2> QED BY <2>2 DEF k
<1>6. ASSUME NEW i \in 1 .. Size(s), data + i - 1 \in 1 .. Len(cells)
      PROVE  cells[data + i - 1] = <<s, i>>
  <2> DEFINE j == data + i - 1
  <2>1. j \in 1 .. Len(cells) /\ data <= j /\ 1 + (j - data) = i /\ i <= Size(s)
    BY <1>1, <1>3, <1>6
  <2> HIDE DEF j
  <2>2. cells[j] = <<s, i>>
    BY <1>5, <2>1
  <2> QED BY <2>2 DEF j
<1>7. ASSUME data + Size(s) \in 1 .. Len(cells)
      PROVE  cells[data + Size(s)] = Stuffing \/ cells[data + Size(s)][2] = 1
  <2>1. data + Size(s) = data + (Size(s) - 1) + 1
    BY <1>1, <1>3
  <2> QED BY <1>5, <1>7, <2>1
<1> QED BY <1>4, <1>6, <1>7 DEF s, cells

\* In the middle of a packet.
LEMMA WithinPacketAssembles ==
  ASSUME Typed, Assembled, step = "section_start", step' \in {"section_start", "out"},
         stream' = Cleared(stream) \/ stream' = stream, UNCHANGED <<muxVars, packet>>, Intact'
  PROVE  Assembled'
<1>1. packet' = packet /\ left' = left /\ next_cc' = next_cc /\ faults' = faults
  BY DEF muxVars
<1>2. PushTypes /\ stream # None /\ stream = Cleared(stream)
  BY DEF Typed, Steps
<1>3. stream'.continuity_counter = Unset
  BY <1>2, StreamsAre, ClearedIsOK DEF PushTypes
<1>4. ~Waits' /\ step' # "accumulate"
  BY <1>3 DEF Waits
<1>5. packet' # None => (\E n \in 0 .. faults : Behind(n))'
  BY <1>1, StillBehind
<1> QED BY <1>4, <1>5 DEF Assembled

LEMMA SectionStartAssembles ==
  ASSUME Typed, Assembled, NothingMore \/ Leave \/ SkipSeen
  PROVE  Assembled'
<1>1. /\ step = "section_start" /\ step' \in {"section_start", "out"} /\ sections' = sections
      /\ stream' = Cleared(stream) \/ stream' = stream
      /\ UNCHANGED <<muxVars, packet>> /\ packet' = packet
  BY DEF NothingMore, Leave, SkipSeen, Begins
<1>2. Intact /\ PushTypes /\ Steps
  BY DEF Assembled, Typed
<1>3. \A i \in 1 .. Len(sections') : \E s \in Sections : sections'[i] = Cells(s)
  BY <1>1, <1>2 DEF Intact
<1>4. CASE NothingMore \/ Leave
  <2>1. step' = "out"
    BY <1>4 DEF NothingMore, Leave
  <2>2. Intact'
    BY <1>3, <2>1 DEF Intact
  <2> QED BY <1>1, <2>2, WithinPacketAssembles
<1>5. CASE SkipSeen
  <2>1. /\ Begins /\ data' = data + Least(Size(Here), Rest)
        /\ step' = IF AtStuffing(data') THEN "out" ELSE "section_start"
    BY <1>5 DEF SkipSeen, Size
  <2>2. step' = "section_start" /\ ~AtStuffing(data)' => packet'.cells[data'][2] = 1
    <3> SUFFICES ASSUME step' = "section_start" PROVE packet.cells[data'][2] = 1
      BY <1>1
    <3>1. ~(data' > Len(packet.cells)) /\ packet.cells[data'] # Stuffing
      BY <2>1 DEF AtStuffing
    <3>2. /\ Len(packet.cells) \in Nat /\ data \in 1 .. Len(packet.cells) /\ Size(Here) \in Nat
      BY <1>2, <2>1, StartsAt, PacketsAre, Sizes
    <3>3. /\ Size(Here) <= Rest => Least(Size(Here), Rest) = Size(Here)
          /\ ~(Size(Here) <= Rest) => data + Least(Size(Here), Rest) = Len(packet.cells) + 1
      BY <1>2, <2>1, Skips
    <3>4. data' = data + Size(Here)
      BY <2>1, <3>1, <3>2, <3>3
    <3>5. data' \in 1 .. Len(packet.cells)
      BY <3>1, <3>2, <3>4
    <3> QED BY <1>2, <2>1, <3>1, <3>4, <3>5, BeginsWhole
  <2>3. Intact'
    BY <1>3, <2>2 DEF Intact
  <2> QED BY <1>1, <2>3, WithinPacketAssembles
<1> QED BY <1>4, <1>5

LEMMA ShortSectionAssembles ==
  ASSUME Typed, Assembled, ShortSection
  PROVE  Assembled'
<1> DEFINE cells == SubSeq(packet.cells, data, data + Size(Here) - 1)
<1>1. /\ Begins /\ step = "section_start" /\ stream' = stream
      /\ UNCHANGED <<muxVars, packet>> /\ packet' = packet
  BY DEF ShortSection, Begins
<1>2. Intact /\ PushTypes /\ Steps
  BY DEF Assembled, Typed
<1>3. /\ cells \in Seq(Byte) /\ Len(cells) = Size(Here)
      /\ \A i \in 1 .. Size(Here) : cells[i] = packet.cells[data + i - 1]
      /\ Report(cells) /\ data' = data + Size(Here) /\ data' \in 1 .. Len(packet.cells)
      /\ step' = IF AtStuffing(data') THEN "out" ELSE "section_start"
  BY <1>2, ShortSectionIs
<1> HIDE DEF cells
<1>4. Here \in Sections /\ data \in 1 .. Len(packet.cells) /\ Len(packet.cells) \in Nat /\ Size(Here) \in Nat
  BY <1>1, <1>2, StartsAt, PacketsAre, Sizes
<1>5. ASSUME NEW i \in 1 .. Size(Here) PROVE cells[i] = <<Here, i>>
  <2>1. data + i - 1 \in 1 .. Len(packet.cells)
    BY <1>3, <1>4
  <2> QED BY <1>1, <1>2, <1>3, <2>1, BeginsWhole
<1>6. cells = Cells(Here)
  BY <1>3, <1>4, <1>5, IsWhole
<1>7. sections' = Append(sections, Cells(Here))
  BY <1>3, <1>6 DEF Report
<1>8. \A i \in 1 .. Len(sections') : \E s \in Sections : sections'[i] = Cells(s)
  BY <1>2, <1>4, <1>7, ReportsWhole
<1>9. step' = "section_start" => packet.cells[data'][2] = 1
  <2> SUFFICES ASSUME step' = "section_start" PROVE packet.cells[data'][2] = 1
    OBVIOUS
  <2>1. packet.cells[data'] # Stuffing
    BY <1>3 DEF AtStuffing
  <2> QED BY <1>1, <1>2, <1>3, <2>1, BeginsWhole
<1>10. Intact'
  BY <1>1, <1>8, <1>9 DEF Intact
<1>11. step' \in {"section_start", "out"}
  BY <1>3
<1> QED BY <1>1, <1>10, <1>11, WithinPacketAssembles

LEMMA StartSectionAssembles ==
  ASSUME Typed, Assembled, StartSection
  PROVE  Assembled'
<1> DEFINE new == Beginning(stream, Header(Here), Size(Here))
<1>1. /\ Begins /\ step' = "accumulate" /\ stream' = new /\ sections' = sections
      /\ packet' = packet /\ data' = data /\ left' = left /\ next_cc' = next_cc /\ faults' = faults
  BY DEF StartSection, muxVars, Size, Beginning
<1>2. Intact /\ PushTypes /\ Steps
  BY DEF Assembled, Typed
<1>3. StreamOK(stream) /\ Here \in Sections /\ packet.cells[data][1] = Here
  BY <1>1, <1>2, StartsAt
<1>4. Header(Here) \in Headers /\ Size(Here) \in Nat
  BY <1>3, HeadersAre, Sizes
<1>5. new.section_data = <<>> /\ new.section_length = Size(Here)
  BY <1>3, <1>4, BeginningIsOK
<1> HIDE DEF new
<1>6. First'[1] = Here /\ Len(stream'.section_data) = 0
  BY <1>1, <1>3, <1>5 DEF First
<1>7. packet.cells[data] = <<Here, 0 + 1>>
  BY <1>1, <1>2, BeginsWhole
<1>8. Intact' /\ ~Waits'
  BY <1>1, <1>2 DEF Intact, Waits
<1>9. packet' # None => (\E n \in 0 .. faults : Behind(n))'
  BY <1>1, StillBehind
<1>10. \A i \in 1 .. Len(stream'.section_data) : stream'.section_data[i] = <<Here, i>>
  BY <1>6
<1> QED BY <1>1, <1>5, <1>6, <1>7, <1>8, <1>9, <1>10 DEF Assembled

LEMMA IdleAssembles ==
  ASSUME Typed, Assembled, Out \/ Flush \/ RemoveStream
  PROVE  Assembled'
<1>1. /\ packet' = packet /\ left' = left /\ next_cc' = next_cc /\ faults' = faults
      /\ step' = "idle" /\ step \in {"idle", "out"}
      /\ sections' = sections \/ sections' = <<>>
  BY DEF Out, Flush, RemoveStream, muxVars, Idle
<1>2. packet' # None => (\E n \in 0 .. faults : Behind(n))'
  BY <1>1, StillBehind
<1>3. Intact'
  BY <1>1 DEF Assembled, Intact
<1>4. CASE Out
  <2>1. stream' = stream /\ step = "out"
    BY <1>4 DEF Out
  <2>2. Waits' => Waits /\ stream.section_data # <<>>
    BY <1>1, <2>1 DEF Waits, Typed, Steps
  <2>3. Waits' => First' = First
    BY <2>1, <2>2 DEF First
  <2> QED BY <1>1, <1>2, <1>3, <2>1, <2>2, <2>3 DEF Assembled
<1>5. CASE Flush \/ RemoveStream
  <2>1. stream # None /\ (stream' = Cleared(stream) \/ stream' = None)
    BY <1>5 DEF Flush, RemoveStream
  <2>2. ~Waits'
    BY <2>1, StreamsAre, ClearedIsOK DEF Waits, Typed, PushTypes
  <2> QED BY <1>1, <1>2, <1>3, <2>2 DEF Assembled
<1> QED BY <1>4, <1>5

LEMMA NextAssembles ==
  Typed /\ [Next]_vars /\ (faults < CcModulus => Assembled) => (faults < CcModulus => Assembled)'
<1> SUFFICES ASSUME Typed, [Next]_vars, faults < CcModulus => Assembled, faults' < CcModulus
             PROVE  Assembled'
  OBVIOUS
<1>1. faults \in Nat /\ faults' \in {faults, faults + 1} /\ CcModulus \in Nat
  <2>1. faults \in Nat /\ CcModulus \in Nat
    BY Sizes DEF Typed, MuxTypes
  <2>2. faults' \in {faults, faults + 1}
    BY DEF Next, Push, Arrive, Lose, Repeat, Accumulate, NothingMore, ShortSection, Leave, SkipSeen,
           StartSection, Out, Flush, RemoveStream, vars, muxVars
  <2> QED BY <2>1, <2>2
<1>2. faults < CcModulus /\ Assembled
  BY <1>1
<1>3. ASSUME NEW new \in Starting, Arrive(new) PROVE Assembled'
  BY <1>2, <1>3, ArriveAssembles
<1>4. ASSUME NEW new \in Starting, Lose(new) PROVE Assembled'
  BY <1>2, <1>4, LoseAssembles
<1>5. CASE Repeat
  BY <1>2, <1>5, RepeatAssembles
<1>6. CASE Accumulate
  BY <1>2, <1>6, AccumulateAssembles
<1>7. CASE NothingMore \/ Leave \/ SkipSeen
  BY <1>2, <1>7, SectionStartAssembles
<1>8. CASE ShortSection
  BY <1>2, <1>8, ShortSectionAssembles
<1>9. CASE StartSection
  BY <1>2, <1>9, StartSectionAssembles
<1>10. CASE Out \/ Flush \/ RemoveStream
  BY <1>2, <1>10, IdleAssembles
<1>11. CASE UNCHANGED vars
  <2>1. /\ left' = left /\ next_cc' = next_cc /\ faults' = faults /\ step' = step /\ packet' = packet
        /\ data' = data /\ sections' = sections /\ stream' = stream
    BY <1>11 DEF vars, muxVars
  <2>2. packet' # None => (\E n \in 0 .. faults : Behind(n))'
    BY <1>2, <2>1, StillBehind
  <2>3. Intact'
    BY <1>2, <2>1 DEF Assembled, Intact, AtStuffing
  <2> QED BY <1>2, <2>1, <2>2, <2>3 DEF Assembled, Waits, First
<1> QED
  BY <1>3, <1>4, <1>5, <1>6, <1>7, <1>8, <1>9, <1>10, <1>11 DEF Next, Push

LEMMA InitAssembles == Init => Assembled
BY DEF Init, Assembled, Intact, Waits

\* What push_section reports is a section that was sent, whole and in order, as long as fewer
\* packets were lost or repeated than the continuity counter has values (from then on it may
\* match by chance, and nothing in this code looks at the CRC).
THEOREM ReportedWhole == Spec => [](faults < CcModulus => Intact)
<1>1. Init => Typed /\ (faults < CcModulus => Assembled)
  BY InitIsTyped, InitAssembles
<1>2. Typed /\ (faults < CcModulus => Assembled) /\ [Next]_vars
        => Typed' /\ (faults < CcModulus => Assembled)'
  BY NextKeepsTyped, NextAssembles
<1>3. (faults < CcModulus => Assembled) => (faults < CcModulus => Intact)
  BY DEF Assembled
<1> QED BY <1>1, <1>2, <1>3, PTL DEF Spec
-----------------------------------------------------------------------------
(* Nothing that is complete is lost *)

\* The section with number n of the version in subtable t.
Numbers(t, n, s) ==
  /\ t.table_id = Header(s).table_id /\ t.subtable_extension = Header(s).subtable_extension
  /\ t.version_number = Header(s).version_number /\ n = Header(s).section_number

\* What was seen is published.
Published(subs, known) == \A t \in subs : \A n \in t.seen_section : \E s \in known : Numbers(t, n, s)

SeenIsPublished == stream # None => Published(stream.subtables, published)

\* Sections begin behind the pointer, and stuffing goes on to the end.
Settled(p) ==
  /\ \A i \in Begun(p) : p.pusi /\ i > p.pointer
  /\ \A i, k \in 1 .. Len(p.cells) : i <= k /\ p.cells[i] = Stuffing => p.cells[k] = Stuffing

\* The multiplexer is in the section that goes on, and in the packet that is worked on.
Tracks ==
  /\ packet # None => Settled(packet)
  /\ step # "idle" => next_cc = Follow(packet.cc)
  /\ run # None => /\ run.count \in Nat \ {0} /\ left # <<>>
                   /\ left[1] = <<run.section, run.count + 1>>

\* A section that begins at i is still to be looked at.
Ahead(i) ==
  /\ step \in {"accumulate", "section_start"}
  /\ i \in Begun(packet) /\ Found(packet, i)
  /\ data < i \/ (data = i /\ step = "section_start")

Reported(s) == \E i \in 1 .. Len(sections) : sections[i] = Cells(s)

\* What accumulate_data reads ends section s.
Completes(s) ==
  /\ step = "accumulate" /\ First[1] = s
  /\ Size(s) - Len(stream.section_data) <= Len(packet.cells) - data + 1

Comes(s) ==
  /\ s \notin published
  /\ \E i \in Nat : Ahead(i) /\ packet.cells[i][1] = s /\ In(packet, i) = Size(s)

\* What the packet ends is reported, or will be.
AllDue == step # "idle" => \A s \in finished : Reported(s) \/ Completes(s) \/ Comes(s)

\* The section that goes on begins ahead ...
Opens == \E i \in Nat : Ahead(i) /\ packet.cells[i][1] = run.section /\ In(packet, i) = run.count
                        /\ run.count < Size(run.section)

\* ... or is read to the end of the packet ...
Fills ==
  /\ step = "accumulate" /\ First[1] = run.section /\ run.count < Size(run.section)
  /\ run.count = Len(stream.section_data) + (Len(packet.cells) - data + 1)

\* ... or is waited for with the next packet.
Awaited ==
  /\ Waits /\ First[1] = run.section /\ run.count = Len(stream.section_data)
  /\ next_cc = Follow(stream.continuity_counter)

Pending ==
  run # None =>
    Opens \/ Fills \/ Awaited \/ (step \in {"idle", "out"} /\ run.section \in published)

Lossless == SeenIsPublished /\ Tracks /\ AllDue /\ Pending
-----------------------------------------------------------------------------
(* Where sections begin *)

LEMMA BegunAre ==
  ASSUME NEW p, PacketOK(p), NEW i \in Begun(p)
  PROVE  /\ i \in 1 .. Len(p.cells) /\ i \in Nat /\ Len(p.cells) \in Nat
         /\ p.cells[i] # Stuffing /\ p.cells[i][1] \in Sections /\ p.cells[i] = <<p.cells[i][1], 1>>
         /\ Size(p.cells[i][1]) \in Nat /\ Size(p.cells[i][1]) >= 1
         /\ In(p, i) \in Nat /\ In(p, i) >= 1 /\ In(p, i) <= Size(p.cells[i][1])
         /\ In(p, i) <= Len(p.cells) - i + 1
         /\ In(p, i) < Size(p.cells[i][1]) => In(p, i) = Len(p.cells) - i + 1
<1>1. i \in 1 .. Len(p.cells) /\ p.cells[i] # Stuffing /\ p.cells[i][2] = 1 /\ Len(p.cells) \in Nat
  BY PacketsAre DEF Begun
<1> DEFINE c == p.cells[i]
<1>2. c \in Cell /\ c[1] \in Sections
  BY <1>1, PacketsAre
<1>3. c = <<c[1], 1>>
  BY <1>1, <1>2 DEF Cell
<1>4. Size(c[1]) \in Nat /\ Size(c[1]) >= 1
  BY <1>2, Sizes
<1>5. In(p, i) = Least(Size(c[1]), Len(p.cells) - i + 1)
  BY DEF In, Size
<1> DEFINE n == Size(c[1])
           m == Len(p.cells) - i + 1
<1>6. n \in Nat /\ n >= 1 /\ m \in Nat /\ m >= 1
  BY <1>1, <1>4
<1>7. In(p, i) = IF n < m THEN n ELSE m
  BY <1>5 DEF Least
<1>8. /\ In(p, i) \in Nat /\ In(p, i) >= 1 /\ In(p, i) <= n /\ In(p, i) <= m
      /\ In(p, i) < n => In(p, i) = m
  <2> HIDE DEF n, m
  <2> QED BY <1>6, <1>7
<1> QED BY <1>1, <1>2, <1>3, <1>4, <1>8

\* The next section begins where the one at d ends.
LEMMA NextBegins ==
  ASSUME NEW p, PacketOK(p), NEW d \in 1 .. Len(p.cells), NEW s \in Sections, NEW k \in Nat,
         p.cells[d] = <<s, k>>, NEW i \in Begun(p), d <= i
  PROVE  (i = d /\ k = 1) \/ (i >= d + (Size(s) - k) + 1 /\ i # d)
<1>1. /\ k \in 1 .. Size(s) /\ Size(s) \in Nat
      /\ \A j \in 1 .. Len(p.cells) : d <= j /\ k + (j - d) <= Size(s) => p.cells[j] = <<s, k + (j - d)>>
  BY RunsOn, Sizes
<1>2. i \in 1 .. Len(p.cells) /\ i \in Nat /\ d \in Nat /\ p.cells[i][2] = 1
  BY BegunAre DEF Begun
<1>3. CASE k + (i - d) <= Size(s)
  <2>1. p.cells[i] = <<s, k + (i - d)>>
    BY <1>1, <1>2, <1>3
  <2>2. k + (i - d) = 1
    BY <1>2, <2>1
  <2> QED BY <1>1, <1>2, <2>2
<1>4. CASE ~(k + (i - d) <= Size(s))
  BY <1>1, <1>2, <1>4
<1> QED BY <1>3, <1>4

\* A section that is cut off goes on with what comes after the packet.
LEMMA GoesOnAfter ==
  ASSUME NEW p, PacketOK(p), NEW rest, Continues(p.cells, rest),
         NEW s \in Sections, NEW k \in Nat, k < Size(s), p.cells[Len(p.cells)] = <<s, k>>
  PROVE  rest # <<>> /\ rest[1] = <<s, k + 1>>
<1>1. <<s, k>> \in Cell /\ <<s, k>> # Stuffing /\ Size(s) \in Nat
  BY CellIsNoStuffing, Sizes DEF Cell
<1>2. Len(rest) = Size(s) - k /\ \A i \in 1 .. Len(rest) : rest[i] = <<s, k + i>>
  BY <1>1 DEF Continues
<1>3. 1 \in 1 .. Len(rest)
  BY <1>1, <1>2
<1>4. rest # <<>>
  <2>1. Len(<<>>) = 0
    OBVIOUS
  <2> QED BY <1>3, <2>1
<1> QED BY <1>2, <1>3, <1>4

\* The last cell of a section that begins in p and does not end there.
LEMMA CutOff ==
  ASSUME NEW p, PacketOK(p), NEW i \in Begun(p), In(p, i) < Size(p.cells[i][1])
  PROVE  p.cells[Len(p.cells)] = <<p.cells[i][1], In(p, i)>>
<1> DEFINE s == p.cells[i][1]
           n == Len(p.cells)
           k == 1
<1>1. /\ i \in 1 .. n /\ n \in Nat /\ i \in Nat /\ s \in Sections /\ p.cells[i] = <<s, k>> /\ Size(s) \in Nat
      /\ In(p, i) = n - i + 1 /\ k \in Nat
  BY BegunAre
<1> HIDE DEF k
<1>2. \A j \in 1 .. n : i <= j /\ k + (j - i) <= Size(s) => p.cells[j] = <<s, k + (j - i)>>
  BY <1>1, RunsOn
<1>3. n \in 1 .. n /\ i <= n /\ k + (n - i) = In(p, i) /\ In(p, i) <= Size(s)
  BY <1>1 DEF k
<1> HIDE DEF s, n
<1>4. p.cells[n] = <<s, k + (n - i)>>
  BY <1>2, <1>3
<1> QED BY <1>3, <1>4 DEF s, n

-----------------------------------------------------------------------------
(* What happens to a section that begins ahead *)

LEMMA FoundIs ==
  ASSUME NEW p, PacketOK(p), NEW i \in Begun(p), Found(p, i)
  PROVE  /\ In(p, i) >= ShortHeader
         /\ fields[p.cells[i][1]].long => In(p, i) >= LongHeader
         /\ \A j \in Begun(p) : j <= i => Applies(p.cells[j][1])
<1>1. LongHeader \in Nat /\ ShortHeader \in Nat /\ ShortHeader <= LongHeader
  BY SectionAssumption
<1>2. In(p, i) \in Nat
  BY BegunAre
<1>3. /\ In(p, i) >= (IF fields[p.cells[i][1]].long THEN LongHeader ELSE ShortHeader)
      /\ \A j \in Begun(p) : j <= i => Applies(p.cells[j][1])
  BY DEF Found
<1> QED BY <1>1, <1>2, <1>3

\* The section at data and the one ahead.
LEMMA AheadIs ==
  ASSUME Typed, NEW i \in Nat, Ahead(i)
  PROVE  /\ packet # None /\ PacketOK(packet) /\ i \in Begun(packet) /\ Found(packet, i)
         /\ i \in 1 .. Len(packet.cells) /\ Len(packet.cells) \in Nat
         /\ data \in Nat /\ data >= 1 /\ data <= i /\ data \in 1 .. Len(packet.cells)
<1>1. PushTypes /\ Steps /\ packet # None /\ i \in Begun(packet) /\ Found(packet, i)
  BY DEF Typed, Steps, Ahead
<1>2. PacketOK(packet)
  BY <1>1 DEF PushTypes
<1>3. i \in 1 .. Len(packet.cells) /\ Len(packet.cells) \in Nat
  BY <1>1, <1>2, BegunAre
<1>4. data \in Nat /\ data >= 1 /\ data <= i
  BY <1>1, Sizes DEF PushTypes, Ahead
<1> QED BY <1>1, <1>2, <1>3, <1>4

LEMMA StaysAhead ==
  ASSUME NEW i \in Nat, Ahead(i), packet' = packet,
         step' \in {"accumulate", "section_start"},
         data' < i \/ (data' = i /\ step' = "section_start")
  PROVE  Ahead(i)'
BY DEF Ahead, Begun, Found

\* What is read before the section that begins at i ends a section.
LEMMA AccumulateReaches ==
  ASSUME Typed, Assembled, Accumulate, NEW i \in Nat, Ahead(i)
  PROVE  Ahead(i)' /\ step' = "section_start"
<1> DEFINE s == First[1]
           k == Len(stream.section_data)
           n == Len(packet.cells)
<1>1. step = "accumulate" /\ data < i
  BY DEF Accumulate, Ahead
<1>2. PushTypes /\ Steps /\ Heads
  BY DEF Typed
<1>3. PICK r, all : Reads(r, all) /\ AccumulateTo(r, all) /\ data' = data + r /\ packet' = packet
  BY <1>2, AccumulateIs
<1>4. /\ PacketOK(packet) /\ i \in Begun(packet) /\ i \in 1 .. n /\ n \in Nat /\ data \in Nat /\ data \in 1 .. n
  BY AheadIs
<1>5. stream.section_length = Size(s) /\ packet.cells[data] = <<s, k + 1>> /\ s \in Sections
  BY <1>1, <1>2 DEF Assembled, Heads, Cell
<1>6. StreamOK(stream)
  BY <1>1, <1>2 DEF PushTypes, Steps
<1>7. k \in Nat /\ Size(s) \in Nat
  BY <1>5, <1>6, StreamsAre
<1>8. i >= data + (Size(s) - (k + 1)) + 1
  <2>1. k + 1 \in Nat
    BY <1>7
  <2>2. (i = data /\ k + 1 = 1) \/ i >= data + (Size(s) - (k + 1)) + 1
    <3> DEFINE j == k + 1
    <3>1. j \in Nat /\ packet.cells[data] = <<s, j>> /\ data <= i
      BY <1>1, <1>4, <1>5, <2>1
    <3> HIDE DEF j, s
    <3>2. (i = data /\ j = 1) \/ i >= data + (Size(s) - j) + 1
      BY <1>4, <1>5, <3>1, NextBegins
    <3> QED BY <3>2 DEF j
  <2> QED BY <1>1, <1>4, <2>2
<1>9. r \in Nat /\ Len(all) = k + r /\ r = Least(Size(s) - k, n - data + 1)
  <2>1. r \in Nat /\ Len(all) = k + r
    BY <1>1, <1>2, <1>3, ReadsIs
  <2> QED BY <1>3, <1>5, <2>1 DEF Reads
<1>10. r = Size(s) - k
  <2> DEFINE a == Size(s) - k
             b == n - data + 1
  <2>1. a < b /\ r = Least(a, b)
    <3> HIDE DEF s, k, n
    <3> QED BY <1>4, <1>7, <1>8, <1>9
  <2> HIDE DEF a, b
  <2>2. r = a
    BY <2>1 DEF Least
  <2> QED BY <2>2 DEF a
<1>11. Len(all) = stream.section_length /\ data + r <= i
  BY <1>4, <1>5, <1>7, <1>8, <1>9, <1>10
<1>12. step' = "section_start"
  BY <1>3, <1>6, <1>11, StreamsAre DEF AccumulateTo
<1>13. data' <= i /\ data' \in Nat
  BY <1>3, <1>4, <1>9, <1>11
<1> QED BY <1>3, <1>12, <1>13, StaysAhead

\* Where sections are looked for: the section at data is passed, and no other.
LEMMA StartAheadIs ==
  ASSUME Typed, Assembled, Begins, NEW i \in Nat, Ahead(i)
  PROVE  (i = data \/ i >= data + Size(Here)) /\ data \in Begun(packet) /\ Here = packet.cells[data][1]
         /\ Here \in Sections /\ Size(Here) \in Nat /\ Size(Here) >= 1 /\ Rest = Len(packet.cells) - data + 1
<1>1. PushTypes /\ Steps /\ Intact
  BY DEF Typed, Assembled
<1>2. /\ packet.cells[data] = <<Here, 1>> /\ Here \in Sections /\ packet.cells[data] # Stuffing
  BY <1>1, StartsAt, BeginsWhole, CellIsNoStuffing
<1>3. /\ PacketOK(packet) /\ i \in Begun(packet) /\ i \in 1 .. Len(packet.cells) /\ Len(packet.cells) \in Nat
      /\ data \in Nat /\ data \in 1 .. Len(packet.cells) /\ data <= i
  BY AheadIs
<1>4. Size(Here) \in Nat /\ Size(Here) >= 1
  BY <1>2, Sizes
<1>5. i = data \/ i >= data + Size(Here)
  <2> DEFINE k == 1
  <2>1. k \in Nat /\ packet.cells[data] = <<Here, k>>
    BY <1>2
  <2> HIDE DEF k
  <2>2. (i = data /\ k = 1) \/ i >= data + (Size(Here) - k) + 1
    BY <1>2, <1>3, <2>1, NextBegins
  <2> QED BY <1>3, <1>4, <2>2 DEF k
<1>6. data \in Begun(packet)
  <2>1. packet.cells[data][2] = 1
    BY <1>2
  <2> QED BY <1>2, <1>3, <2>1 DEF Begun
<1> QED BY <1>2, <1>4, <1>5, <1>6 DEF Rest

LEMMA StartReaches ==
  ASSUME Typed, Assembled, Tracks, NEW i \in Nat, Ahead(i),
         NothingMore \/ Leave \/ ShortSection \/ SkipSeen \/ StartSection
  PROVE  Begins /\ (Ahead(i)' \/ (i = data /\ (ShortSection \/ SkipSeen \/ StartSection)))
<1> DEFINE n == Len(packet.cells)
<1>1. step = "section_start" /\ packet' = packet
  BY DEF NothingMore, Leave, ShortSection, SkipSeen, StartSection, Begins
<1>2. /\ PacketOK(packet) /\ packet # None /\ i \in Begun(packet) /\ Found(packet, i)
      /\ i \in 1 .. n /\ n \in Nat /\ data \in Nat /\ data \in 1 .. n /\ data <= i
  BY AheadIs
<1>3. /\ In(packet, i) >= ShortHeader /\ ShortHeader \in Nat /\ LongHeader \in Nat
      /\ In(packet, i) \in Nat /\ In(packet, i) <= n - i + 1
  BY <1>2, FoundIs, BegunAre, Sizes
<1>4. Rest = n - data + 1 /\ Rest >= ShortHeader
  BY <1>2, <1>3 DEF Rest
<1>5. ASSUME NEW j \in 1 .. n, j <= i PROVE ~AtStuffing(j)
  <2>1. packet.cells[i] # Stuffing
    BY <1>2 DEF Begun
  <2>2. packet.cells[j] # Stuffing
    BY <1>2, <1>5, <2>1 DEF Tracks, Settled
  <2> QED BY <1>2, <2>2 DEF AtStuffing
<1>6. Begins
  BY <1>1, <1>2, <1>4, <1>5 DEF Begins
<1>7. /\ i = data \/ i >= data + Size(Here)
      /\ data \in Begun(packet) /\ Here = packet.cells[data][1]
      /\ Here \in Sections /\ Size(Here) \in Nat /\ Size(Here) >= 1
  BY <1>6, StartAheadIs
<1>8. ~Leave
  <2> SUFFICES ASSUME Leave PROVE FALSE
    OBVIOUS
  <2>1. fields[Here].long /\ (Rest < LongHeader \/ ~Applies(Here))
    BY DEF Leave, GivesUp
  <2>2. Applies(Here)
    BY <1>2, <1>7, FoundIs
  <2>3. Size(Here) >= LongHeader
    <3>1. Size(Here) \in LongHeader .. 4096
      BY <1>7, <2>1, SectionAssumption DEF Size
    <3> QED BY <1>3, <3>1
  <2>4. Rest < LongHeader
    BY <2>1, <2>2
  <2>5. i = data
    BY <1>2, <1>3, <1>4, <1>7, <2>3, <2>4
  <2>6. In(packet, i) >= LongHeader
    BY <1>2, <1>7, <2>1, <2>5, FoundIs
  <2> QED BY <1>2, <1>3, <1>4, <2>4, <2>5, <2>6
<1>9. CASE ShortSection \/ SkipSeen
  <2> SUFFICES ASSUME i # data PROVE Ahead(i)'
    BY <1>6, <1>9
  <2>1. i >= data + Size(Here) /\ ~(data + Size(Here) > n)
    BY <1>2, <1>7
  <2>2. data' = data + Size(Here) /\ step' = IF AtStuffing(data + Size(Here)) THEN "out" ELSE "section_start"
    <3>1. CASE ShortSection
      BY <3>1 DEF ShortSection, Size
    <3>2. CASE SkipSeen
      <4>1. Least(Size(Here), Rest) = Size(Here)
        BY <1>2, <1>4, <1>7, <2>1 DEF Least
      <4> QED BY <3>2, <4>1 DEF SkipSeen, Size
    <3> QED BY <1>9, <3>1, <3>2
  <2>3. data + Size(Here) \in 1 .. n /\ data + Size(Here) <= i
    BY <1>2, <1>7, <2>1
  <2>4. step' = "section_start"
    BY <1>5, <2>2, <2>3
  <2>5. data' < i \/ data' = i
    BY <1>2, <2>2, <2>3
  <2> QED BY <1>1, <2>4, <2>5, StaysAhead
<1>10. CASE StartSection
  <2> SUFFICES ASSUME i # data PROVE Ahead(i)'
    BY <1>6, <1>10
  <2>1. data' = data /\ step' = "accumulate"
    BY <1>10 DEF StartSection
  <2>2. data' < i
    BY <1>2, <2>1
  <2> QED BY <1>1, <2>1, <2>2, StaysAhead
<1>11. ~NothingMore
  BY <1>6 DEF NothingMore
<1> QED BY <1>6, <1>8, <1>9, <1>10, <1>11

LEMMA EnterAhead ==
  ASSUME NEW p, PacketOK(p), Settled(p), Enter(p), NEW i \in Begun(p), Found(p, i)
  PROVE  Ahead(i)'
<1> DEFINE st == IF stream = None THEN NewStream ELSE stream
           starts == p.pusi /\ (p.pointer = 0 \/ ~Follows(st, p))
<1>1. p.pusi /\ i > p.pointer /\ i \in Nat /\ p.pointer \in Nat
  BY BegunAre, PacketsAre DEF Settled
<1>2. /\ packet' = p /\ data' = IF starts THEN p.pointer + 1 ELSE 1
      /\ step' = IF starts THEN "section_start" ELSE IF Follows(st, p) THEN "accumulate" ELSE "out"
  BY <1>1 DEF Enter
<1>3. CASE starts
  <2>1. step' = "section_start" /\ (data' < i \/ data' = i)
    BY <1>1, <1>2, <1>3
  <2> QED BY <1>2, <2>1 DEF Ahead
<1>4. CASE ~starts
  <2>1. Follows(st, p) /\ p.pointer # 0
    BY <1>1, <1>4
  <2>2. step' = "accumulate" /\ data' = 1 /\ 1 < i
    BY <1>1, <1>2, <1>4, <2>1
  <2> QED BY <1>2, <2>2 DEF Ahead
<1> QED BY <1>3, <1>4
-----------------------------------------------------------------------------
(* What was seen is published *)

LEMMA RecordedOnly ==
  ASSUME NEW st, NEW h, NEW u \in Recorded(st, h), st.subtables \subseteq Subtables
  PROVE  \/ u \in st.subtables \ Subtable(st, h)
         \/ /\ u.table_id = h.table_id /\ u.subtable_extension = h.subtable_extension
            /\ u.version_number = h.version_number
            /\ \A n \in u.seen_section :
                 \/ n = h.section_number
                 \/ \E t \in st.subtables : /\ t.table_id = h.table_id
                                            /\ t.subtable_extension = h.subtable_extension
                                            /\ t.version_number = h.version_number
                                            /\ n \in t.seen_section
<1> DEFINE same == {t \in Subtable(st, h) : t.version_number = h.version_number}
           fresh == [table_id |-> h.table_id, subtable_extension |-> h.subtable_extension,
                     version_number |-> h.version_number, last_section_number |-> h.last_section_number,
                     seen_section |-> {h.section_number}]
           old == CHOOSE t \in same : TRUE
           more == [old EXCEPT !.seen_section = @ \cup {h.section_number}]
<1>1. u \in st.subtables \ Subtable(st, h) \/ u = IF same = {} THEN fresh ELSE more
  BY DEF Recorded
<1>2. CASE u = fresh
  <2>1. /\ u.table_id = h.table_id /\ u.subtable_extension = h.subtable_extension
        /\ u.version_number = h.version_number /\ u.seen_section = {h.section_number}
    BY <1>2
  <2> QED BY <2>1
<1>3. CASE same # {} /\ u = more
  <2>1. old \in same
    BY <1>3
  <2>2. /\ old \in st.subtables /\ old \in Subtables /\ old.version_number = h.version_number
        /\ old.table_id = h.table_id /\ old.subtable_extension = h.subtable_extension
    BY <2>1 DEF Subtable
  <2> HIDE DEF old
  <2>3. /\ u.table_id = old.table_id /\ u.subtable_extension = old.subtable_extension
        /\ u.version_number = old.version_number /\ u.seen_section = old.seen_section \cup {h.section_number}
    BY <1>3, <2>2 DEF Subtables
  <2>4. \A n \in u.seen_section : n = h.section_number \/ n \in old.seen_section
    BY <2>3
  <2> QED BY <2>2, <2>3, <2>4
<1> HIDE DEF fresh, more, same
<1> QED BY <1>1, <1>2, <1>3

\* What Report leaves.
Renewed(known, s) == {t \in known : Key(t) # Key(s) \/ Version(t) = Version(s)} \cup {s}

LEMMA RecordedIsPublished ==
  ASSUME NEW st, st.subtables \subseteq Subtables, NEW known \in SUBSET Sections, NEW s \in Sections,
         Published(st.subtables, known)
  PROVE  Published(Recorded(st, Header(s)), Renewed(known, s))
<1> DEFINE h == Header(s)
<1> SUFFICES ASSUME NEW u \in Recorded(st, h), NEW n \in u.seen_section
             PROVE  \E r \in Renewed(known, s) : Numbers(u, n, r)
  BY DEF Published
<1>1. CASE u \in st.subtables \ Subtable(st, h)
  <2>1. PICK r \in known : Numbers(u, n, r)
    BY <1>1 DEF Published
  <2>2. ~(u.table_id = h.table_id /\ u.subtable_extension = h.subtable_extension)
    BY <1>1 DEF Subtable
  <2>3. Key(r) # Key(s)
    BY <2>1, <2>2, HeadersAre DEF Numbers
  <2>4. r \in Renewed(known, s)
    BY <2>3 DEF Renewed
  <2> QED BY <2>1, <2>4
<1>2. CASE /\ u.table_id = h.table_id /\ u.subtable_extension = h.subtable_extension
           /\ u.version_number = h.version_number
           /\ \A m \in u.seen_section :
                \/ m = h.section_number
                \/ \E t \in st.subtables : /\ t.table_id = h.table_id
                                           /\ t.subtable_extension = h.subtable_extension
                                           /\ t.version_number = h.version_number
                                           /\ m \in t.seen_section
  <2>1. CASE n = h.section_number
    BY <1>2, <2>1 DEF Numbers, Renewed
  <2>2. CASE n # h.section_number
    <3>1. PICK t \in st.subtables : /\ t.table_id = h.table_id
                                    /\ t.subtable_extension = h.subtable_extension
                                    /\ t.version_number = h.version_number
                                    /\ n \in t.seen_section
      BY <1>2, <2>2
    <3>2. PICK r \in known : Numbers(t, n, r)
      BY <3>1 DEF Published
    <3>3. Version(r) = Version(s) /\ Numbers(u, n, r)
      BY <1>2, <3>1, <3>2 DEF Numbers, Version
    <3>4. r \in Renewed(known, s)
      BY <3>3 DEF Renewed
    <3> QED BY <3>3, <3>4
  <2> QED BY <2>1, <2>2
<1> QED BY <1>1, <1>2, RecordedOnly

\* A short section that is reported at once is in no subtable, nor is a table with its table_id.
LEMMA FastStaysPublished ==
  ASSUME OneSyntaxPerTable, NEW subs, NEW known \in SUBSET Sections, NEW s \in Sections, ~fields[s].long,
         Published(subs, known)
  PROVE  Published(subs, Renewed(known, s))
<1> SUFFICES ASSUME NEW t \in subs, NEW n \in t.seen_section
             PROVE  \E r \in Renewed(known, s) : Numbers(t, n, r)
  BY DEF Published
<1>1. PICK r \in known : Numbers(t, n, r)
  BY DEF Published
<1>2. CASE Key(r) = Key(s)
  <2>1. fields[r].table_id = fields[s].table_id
    BY <1>2, HeadersAre DEF Key
  <2>2. ~fields[r].long
    BY <2>1, SectionAssumption DEF OneSyntaxPerTable
  <2>3. Version(r) = Version(s)
    BY <2>2 DEF Version, Header
  <2> QED BY <1>1, <2>3 DEF Renewed
<1>3. CASE Key(r) # Key(s)
  BY <1>1, <1>3 DEF Renewed
<1> QED BY <1>2, <1>3

LEMMA SeenIsKnown ==
  ASSUME OneSectionPerNumber, HistoryTypes, SeenIsPublished, stream # None,
         NEW s \in Sections, SeenBefore(stream, Header(s))
  PROVE  s \in published
<1>1. PICK t \in stream.subtables :
        /\ t.table_id = Header(s).table_id /\ t.subtable_extension = Header(s).subtable_extension
        /\ t.version_number = Header(s).version_number /\ Header(s).section_number \in t.seen_section
  BY DEF SeenBefore, Subtable
<1>2. PICK r \in published : Numbers(t, Header(s).section_number, r)
  BY <1>1 DEF SeenIsPublished, Published
<1>3. r \in Sections
  BY DEF HistoryTypes
<1>4. Key(r) = Key(s) /\ Version(r) = Version(s) /\ Header(r).section_number = Header(s).section_number
  BY <1>1, <1>2, <1>3, HeadersAre DEF Numbers, Version
<1> QED BY <1>2, <1>3, <1>4 DEF OneSectionPerNumber

LEMMA NextKeepsSeen ==
  OneSyntaxPerTable /\ Typed /\ SeenIsPublished /\ [Next]_vars => SeenIsPublished'
<1> SUFFICES ASSUME OneSyntaxPerTable, Typed, SeenIsPublished, [Next]_vars PROVE SeenIsPublished'
  OBVIOUS
<1>1. PushTypes /\ MuxTypes /\ Steps /\ Heads /\ HistoryTypes
  BY DEF Typed
<1>2. published \in SUBSET Sections /\ (stream # None => stream.subtables \subseteq Subtables)
  BY <1>1 DEF HistoryTypes, PushTypes, StreamOK, SubtablesOK
<1>3. ASSUME stream' = None \/ (stream # None /\ stream'.subtables = stream.subtables), published' = published
      PROVE  SeenIsPublished'
  BY <1>3 DEF SeenIsPublished
<1>4. ASSUME NEW p, PacketOK(p), Enter(p), published' = published PROVE SeenIsPublished'
  <2> DEFINE st == IF stream = None THEN NewStream ELSE stream
  <2>1. Entered(p, st)
    BY <1>4, EnterIs
  <2>2. SubtablesOK(st.subtables) /\ (stream = None => st.subtables = {}) /\ (stream # None => st = stream)
    BY <1>1, NewStreamIsOK DEF PushTypes, StreamOK, NewStream
  <2> HIDE DEF st
  <2>3. Cleared(st).subtables = st.subtables
    BY <2>2, ClearedIsOK
  <2>4. stream' = Cleared(st) \/ stream' = None \/ (stream # None /\ stream' = stream)
    BY <2>1 DEF Entered
  <2>5. CASE stream = None /\ stream' = Cleared(st)
    BY <2>2, <2>3, <2>5 DEF SeenIsPublished, Published
  <2>6. CASE ~(stream = None /\ stream' = Cleared(st))
    <3>1. stream' = None \/ (stream # None /\ stream'.subtables = stream.subtables)
      BY <2>2, <2>3, <2>4, <2>6
    <3> QED BY <1>3, <1>4, <3>1
  <2> QED BY <2>5, <2>6
<1>5. ASSUME NEW new \in Starting, Arrive(new) PROVE SeenIsPublished'
  <2>1. Fits(new) /\ Enter(Packet(new)) /\ published' = published
    BY <1>5 DEF Arrive
  <2>2. PacketOK(Packet(new))
    BY <1>1, <2>1, PacketIsWell DEF MuxTypes
  <2> QED BY <1>4, <2>1, <2>2
<1>6. CASE Repeat
  BY <1>1, <1>4, <1>6 DEF Repeat, PushTypes
<1>7. CASE Accumulate
  <2>1. PICK r, all : Reads(r, all) /\ AccumulateTo(r, all) /\ packet' = packet
    BY <1>1, <1>7, AccumulateIs
  <2>2. step = "accumulate" /\ stream # None /\ StreamOK(stream) /\ packet # None /\ PacketOK(packet)
    BY <1>1, <1>7, StreamsAre, NoneAssumption DEF Accumulate, Steps, PushTypes
  <2>3. all \in Seq(Byte) /\ all[1] = First /\ First[1] \in Sections /\ stream.header = Header(First[1])
    BY <1>1, <2>1, <2>2, ReadsIs DEF Heads, Cell
  <2>4. CASE /\ stream' = [stream EXCEPT !.continuity_counter = packet.cc, !.section_data = all]
             /\ published' = published
    <3>1. packet.cc \in 0 .. CcModulus /\ stream' = Partial(stream, packet.cc, all)
      BY <2>2, <2>4, PacketsAre, Sizes DEF Partial
    <3>2. stream'.subtables = stream.subtables
      BY <2>2, <2>3, <3>1, PartIsOK
    <3> QED BY <1>3, <2>2, <2>4, <3>2
  <2>5. CASE /\ stream' = [Cleared(stream) EXCEPT !.subtables = Recorded(stream, stream.header)]
             /\ Report(all)
    <3>1. published' = Renewed(published, First[1])
      BY <2>3, <2>5 DEF Report, Renewed
    <3>2. SubtablesOK(Recorded(stream, stream.header))
      BY <2>2, <2>3, StreamsAre, RecordedIsOK
    <3>3. stream'.subtables = Recorded(stream, stream.header)
      BY <2>2, <2>5, <3>2, RecordingIsOK
    <3>4. Published(stream.subtables, published)
      BY <2>2 DEF SeenIsPublished
    <3>5. Published(Recorded(stream, stream.header), Renewed(published, First[1]))
      BY <1>2, <2>2, <2>3, <3>4, RecordedIsPublished
    <3> QED BY <3>1, <3>3, <3>5 DEF SeenIsPublished
  <2> QED BY <2>1, <2>4, <2>5 DEF AccumulateTo
<1>8. CASE ShortSection
  <2> DEFINE cells == SubSeq(packet.cells, data, data + Size(Here) - 1)
  <2>1. Begins /\ ~fields[Here].long /\ stream' = stream
    BY <1>8 DEF ShortSection, IsFast
  <2>2. cells[1][1] = Here /\ Report(cells) /\ Here \in Sections /\ stream # None
    BY <1>1, <1>8, <2>1, ShortSectionIs, StartsAt
  <2> HIDE DEF cells
  <2>3. published' = Renewed(published, Here)
    BY <2>2 DEF Report, Renewed
  <2>4. Published(stream.subtables, Renewed(published, Here))
    BY <1>2, <2>1, <2>2, FastStaysPublished DEF SeenIsPublished
  <2> QED BY <2>1, <2>3, <2>4 DEF SeenIsPublished
<1>9. CASE NothingMore \/ Leave \/ SkipSeen \/ Flush
  <2>1. stream # None /\ published' = published /\ (stream' = stream \/ stream' = Cleared(stream))
    BY <1>1, <1>9 DEF NothingMore, Leave, SkipSeen, Flush, Begins, Steps
  <2>2. Cleared(stream).subtables = stream.subtables
    BY <1>1, <2>1, ClearedIsOK DEF PushTypes, StreamOK
  <2> QED BY <1>3, <2>1, <2>2
<1>10. CASE StartSection
  <2>1. Begins /\ stream' = Beginning(stream, Header(Here), Size(Here)) /\ published' = published
    BY <1>10 DEF StartSection, Beginning, Size
  <2>2. StreamOK(stream) /\ stream # None /\ Header(Here) \in Headers /\ Size(Here) \in Nat
    BY <1>1, <2>1, StartsAt, HeadersAre, Sizes
  <2>3. stream'.subtables = stream.subtables
    BY <2>1, <2>2, BeginningIsOK
  <2> QED BY <1>3, <2>1, <2>2, <2>3
<1>11. CASE RemoveStream
  BY <1>11 DEF RemoveStream, SeenIsPublished
<1>12. CASE Out \/ (\E new \in Starting : Lose(new)) \/ UNCHANGED vars
  <2>1. stream' = stream /\ published' = published
    BY <1>12 DEF Out, Lose, vars
  <2> QED BY <2>1 DEF SeenIsPublished
<1> QED BY <1>5, <1>6, <1>7, <1>8, <1>9, <1>10, <1>11, <1>12 DEF Next, Push
-----------------------------------------------------------------------------
(* What the packet holds of the section that goes on *)

LEMMA PacketIsCut ==
  ASSUME LeftOK, NEW new \in Starting, Fits(new)
  PROVE  \E s0, k0, n0, s1, n1, s2, n2 :
           /\ Shape(new, s0, k0, n0, s1, n1, s2, n2)
           /\ new # <<>> => n0 < Len(Packet(new).cells)
           /\ Len(Sent(new)) = n0 + n1 + n2 /\ Sent(new) \in Seq(Cell)
           /\ Packet(new).cells \in Seq(Byte) /\ Len(Packet(new).cells) \in 1 .. Payload
           /\ \A i \in 1 .. Len(Packet(new).cells) :
                Packet(new).cells[i] = IF i <= Len(Sent(new)) THEN Sent(new)[i] ELSE Stuffing
<1> DEFINE q == Packet(new).cells
           R == Room(new)
           z == Sent(new)
<1>1. PICK s0, k0, n0, s1, n1, s2, n2 : Shape(new, s0, k0, n0, s1, n1, s2, n2)
  BY SentIsLaid
<1>2. /\ Laid(z, s0, k0, n0, s1, n1, s2, n2) /\ n0 \in Nat /\ n1 \in Nat /\ n2 \in Nat
      /\ new # <<>> => n1 # 0 /\ Size(new[Len(new)]) = IF n2 = 0 THEN n1 ELSE n2
  BY <1>1 DEF Shape
<1>3. z \in Seq(Cell) /\ Len(z) = n0 + n1 + n2
  BY <1>2 DEF Laid
<1>4. R \in 1 .. Payload /\ R \in Nat
  BY Sizes DEF Room
<1>9. q = SubSeq(z \o Padding, 1, R)
  BY DEF Packet
<1>5. new # <<>> => Len(z) - Size(new[Len(new)]) < R
  BY DEF Fits, Size
<1> HIDE DEF q, R, z
<1>6. q \in Seq(Byte) /\ Len(q) = R /\ \A i \in 1 .. R : q[i] = IF i <= Len(z) THEN z[i] ELSE Stuffing
  BY <1>3, <1>4, <1>9, Filled
<1>7. ASSUME new # <<>> PROVE n0 < R
  <2>1. CASE n2 = 0
    <3>1. Size(new[Len(new)]) = n1
      BY <1>2, <1>7, <2>1
    <3> QED BY <1>2, <1>3, <1>4, <1>5, <1>7, <2>1, <3>1
  <2>2. CASE n2 # 0
    <3>1. Size(new[Len(new)]) = n2
      BY <1>2, <1>7, <2>2
    <3> QED BY <1>2, <1>3, <1>4, <1>5, <1>7, <3>1
  <2> QED BY <2>1, <2>2
<1>8. Len(q) \in 1 .. Payload
  BY <1>4, <1>6
<1> QED BY <1>1, <1>3, <1>6, <1>7, <1>8 DEF q, z

\* Sections begin behind what is left of the section before.
LEMMA PacketSettles ==
  ASSUME LeftOK, NEW new \in Starting, Fits(new)
  PROVE  /\ Settled(Packet(new)) /\ Packet(new).pusi = (new # <<>>) /\ Packet(new).pointer = Len(left)
         /\ Begun(Packet(new)) # {} => new # <<>>
<1> DEFINE q == Packet(new).cells
           z == Sent(new)
<1>1. PICK s0, k0, n0, s1, n1, s2, n2 :
        /\ Shape(new, s0, k0, n0, s1, n1, s2, n2)
        /\ Len(z) = n0 + n1 + n2 /\ z \in Seq(Cell)
        /\ q \in Seq(Byte) /\ Len(q) \in 1 .. Payload
        /\ \A i \in 1 .. Len(q) : q[i] = IF i <= Len(z) THEN z[i] ELSE Stuffing
  BY PacketIsCut
<1>2. /\ Laid(z, s0, k0, n0, s1, n1, s2, n2) /\ n0 \in Nat /\ n1 \in Nat /\ n2 \in Nat
      /\ n0 = Len(left) /\ (new = <<>> => n1 = 0 /\ n2 = 0)
  BY <1>1 DEF Shape
<1>3. Packet(new).pusi = (new # <<>>) /\ Packet(new).pointer = Len(left)
  BY DEF Packet
<1> HIDE DEF q, z
<1>4. Len(q) \in Nat
  BY <1>1
<1>5. ASSUME NEW i \in 1 .. Len(q), q[i] # Stuffing, q[i][2] = 1 PROVE new # <<>> /\ i > n0
  <2>1. i <= n0 + n1 + n2 /\ q[i] = z[i]
    BY <1>1, <1>5
  <2>2. ~(i <= n0)
    <3> SUFFICES ASSUME i <= n0 PROVE FALSE
      OBVIOUS
    <3>1. i \in 1 .. n0 + n1 + n2 /\ n0 # 0
      BY <1>2, <1>4
    <3>2. z[i] = <<s0, k0 + i>> /\ k0 \in Nat \ {0}
      BY <1>2, <3>1 DEF Laid
    <3> QED BY <1>4, <1>5, <2>1, <3>2
  <2> QED BY <1>2, <1>4, <2>1, <2>2
<1>6. ASSUME NEW i \in 1 .. Len(q), NEW k \in 1 .. Len(q), i <= k, q[i] = Stuffing PROVE q[k] = Stuffing
  <2>1. ~(i <= Len(z))
    <3> SUFFICES ASSUME i <= Len(z) PROVE FALSE
      OBVIOUS
    <3>1. i \in 1 .. Len(z) /\ q[i] = z[i]
      BY <1>1, <1>4
    <3>2. z[i] \in Cell
      BY <1>1, <3>1
    <3> QED BY <1>6, <3>1, <3>2, CellIsNoStuffing
  <2>2. ~(k <= Len(z))
    BY <1>1, <1>2, <1>4, <1>6, <2>1
  <2> QED BY <1>1, <2>2
<1>7. \A i \in Begun(Packet(new)) : i \in 1 .. Len(q) /\ q[i] # Stuffing /\ q[i][2] = 1
  BY DEF Begun, q
<1>8. \A i \in Begun(Packet(new)) : new # <<>> /\ i > Len(left)
  BY <1>2, <1>5, <1>7
<1>9. Settled(Packet(new))
  BY <1>3, <1>6, <1>8 DEF Settled, q
<1> QED BY <1>3, <1>8, <1>9

\* The section that goes on fills the packet or ends in it.
LEMMA Carries ==
  ASSUME LeftOK, NEW new \in Starting, Fits(new), left # <<>>,
         run.section \in Sections, run.count \in Nat \ {0}, left[1] = <<run.section, run.count + 1>>
  PROVE  LET p == Packet(new) IN
         /\ Continued(p) = Least(Len(left), Len(p.cells)) /\ Len(left) \in Nat
         /\ run.count + Len(left) = Size(run.section)
         /\ Len(p.cells) < Len(left) => p.cells[Len(p.cells)] = <<run.section, run.count + Len(p.cells)>>
<1> DEFINE p == Packet(new)
           q == p.cells
           z == Sent(new)
           s == run.section
           c == run.count
           m == Least(Len(left), Len(q))
<1>1. PICK s0, k0, n0, s1, n1, s2, n2 :
        /\ Shape(new, s0, k0, n0, s1, n1, s2, n2)
        /\ Len(z) = n0 + n1 + n2 /\ z \in Seq(Cell)
        /\ q \in Seq(Byte) /\ Len(q) \in 1 .. Payload
        /\ \A i \in 1 .. Len(q) : q[i] = IF i <= Len(z) THEN z[i] ELSE Stuffing
  BY PacketIsCut
<1>2. /\ Laid(z, s0, k0, n0, s1, n1, s2, n2) /\ n0 \in Nat /\ n1 \in Nat /\ n2 \in Nat
      /\ n0 = Len(left) /\ \A i \in 1 .. n0 : left[i] = <<s0, k0 + i>>
  BY <1>1 DEF Shape
<1>3. Len(q) \in Nat /\ Len(q) >= 1 /\ Len(left) \in Nat /\ Len(left) >= 1
  BY <1>1 DEF LeftOK
<1>4. s0 = s /\ k0 = c /\ Size(s) = c + n0 /\ c \in Nat /\ c >= 1
  <2>1. 1 \in 1 .. n0 /\ n0 # 0
    BY <1>2, <1>3
  <2>2. left[1] = <<s0, k0 + 1>> /\ k0 \in Nat \ {0} /\ n0 = Size(s0) - k0 /\ s0 \in Sections
    BY <1>2, <2>1 DEF Laid
  <2>3. s0 = s /\ k0 + 1 = c + 1
    BY <2>2
  <2> QED BY <2>2, <2>3, Sizes
<1> HIDE DEF q, z, s, c
<1>5. ASSUME NEW i \in 1 .. Len(q), i <= n0 PROVE q[i] = <<s, c + i>> /\ q[i] # Stuffing
  <2>1. i \in 1 .. n0 + n1 + n2 /\ i <= Len(z) /\ i \in 1 .. Len(z)
    BY <1>1, <1>2, <1>3, <1>5
  <2>2. z[i] = <<s0, k0 + i>> /\ z[i] \in Cell
    BY <1>1, <1>2, <1>5, <2>1 DEF Laid
  <2> QED BY <1>1, <1>4, <2>1, <2>2, CellIsNoStuffing
<1>6. ASSUME NEW i \in 1 .. Len(q), ~(i <= n0), q[i] # Stuffing PROVE q[i][2] # c + i
  <2>1. i <= Len(z) /\ q[i] = z[i] /\ i \in 1 .. n0 + n1 + n2
    BY <1>1, <1>2, <1>3, <1>6
  <2>2. z[i] = IF i <= n0 + n1 THEN <<s1, i - n0>> ELSE <<s2, i - n0 - n1>>
    BY <1>2, <1>6, <2>1 DEF Laid
  <2>3. z[i][2] < i + 1 /\ z[i][2] \in Int
    BY <1>2, <1>3, <2>2
  <2> QED BY <1>3, <1>4, <2>1, <2>3
<1> DEFINE counted == {i \in 1 .. Len(q) : q[i] # Stuffing /\ q[i][1] = s /\ q[i][2] = c + i}
<1>7. m \in Nat /\ m >= 1 /\ \A i \in Nat : i <= m <=> i <= n0 /\ i <= Len(q)
  <2>1. m = IF n0 < Len(q) THEN n0 ELSE Len(q)
    BY <1>2 DEF Least
  <2> HIDE DEF m
  <2> QED BY <1>2, <1>3, <2>1
<1> HIDE DEF m
<1>8. counted = 1 .. m
  <2>1. ASSUME NEW i \in counted PROVE i \in 1 .. m
    <3>1. i \in 1 .. Len(q) /\ q[i] # Stuffing /\ q[i][2] = c + i
      OBVIOUS
    <3>2. i <= n0
      BY <1>6, <3>1
    <3> QED BY <1>3, <1>7, <3>1, <3>2
  <2>2. ASSUME NEW i \in 1 .. m PROVE i \in counted
    <3>1. i \in 1 .. Len(q) /\ i <= n0
      BY <1>3, <1>7
    <3>2. q[i] = <<s, c + i>> /\ q[i] # Stuffing
      BY <1>5, <3>1
    <3>3. q[i][1] = s /\ q[i][2] = c + i
      BY <3>2
    <3> QED BY <3>1, <3>2, <3>3
  <2> HIDE DEF counted
  <2> QED BY <2>1, <2>2
<1>9. Continued(p) = Cardinality(counted)
  BY DEF Continued, q, s, c
<1> HIDE DEF counted
<1>10. Cardinality(1 .. m) = m
  <2>1. 1 \in Int /\ m \in Int /\ ~(1 > m) /\ m - 1 + 1 = m
    BY <1>7
  <2> QED BY <2>1, FS_Interval
<1>11. Continued(p) = m
  BY <1>8, <1>9, <1>10
<1>12. Len(q) < Len(left) => q[Len(q)] = <<s, c + Len(q)>>
  <2>1. Len(q) \in 1 .. Len(q)
    BY <1>3
  <2> QED BY <1>2, <1>3, <1>5, <2>1
<1> QED BY <1>2, <1>3, <1>4, <1>11, <1>12 DEF m, q, s, c

-----------------------------------------------------------------------------
(* A packet comes *)

LEMMA GoesOnIs ==
  ASSUME HistoryTypes, NEW p, NEW gap \in BOOLEAN, NEW r, r = GoesOn(p, gap)
  PROVE  \/ r = None
         \/ \E i \in Begun(p) : /\ Found(p, i) /\ In(p, i) < Size(p.cells[i][1])
                                /\ r.section = p.cells[i][1] /\ r.count = In(p, i)
         \/ /\ run # None /\ ~gap /\ ~p.pusi /\ run.count + Continued(p) < Size(run.section)
            /\ r.section = run.section /\ r.count = run.count + Continued(p)
<1> DEFINE open == {i \in Begun(p) : Found(p, i) /\ In(p, i) < fields[p.cells[i][1]].length}
           i0 == CHOOSE j \in open : TRUE
<1>1. \/ open # {} /\ r = [section |-> p.cells[i0][1], count |-> In(p, i0)]
      \/ /\ run # None /\ ~gap /\ ~p.pusi /\ run.count + Continued(p) < Size(run.section)
         /\ r = [run EXCEPT !.count = @ + Continued(p)]
      \/ r = None
  BY DEF GoesOn, Size
<1>2. CASE open # {} /\ r = [section |-> p.cells[i0][1], count |-> In(p, i0)]
  <2>1. i0 \in open
    BY <1>2
  <2>2. i0 \in Begun(p) /\ Found(p, i0) /\ In(p, i0) < Size(p.cells[i0][1])
    BY <2>1 DEF Size
  <2>3. r.section = p.cells[i0][1] /\ r.count = In(p, i0)
    BY <1>2
  <2> HIDE DEF i0, open
  <2> QED BY <2>2, <2>3
<1>3. CASE /\ run # None /\ ~gap /\ ~p.pusi /\ run.count + Continued(p) < Size(run.section)
           /\ r = [run EXCEPT !.count = @ + Continued(p)]
  <2> DEFINE n == Continued(p)
  <2> HIDE DEF n
  <2>1. run = [section |-> run.section, count |-> run.count] /\ r = [run EXCEPT !.count = @ + n]
    BY <1>3 DEF HistoryTypes, RunOK, n
  <2>2. r.section = run.section /\ r.count = run.count + n
    BY <2>1
  <2> QED BY <1>3, <2>2 DEF n
<1> QED BY <1>1, <1>2, <1>3

\* The section that goes on, as far as it is in the packet.
LEMMA RunContinues ==
  ASSUME MuxTypes, HistoryTypes, Tracks, NEW new \in Starting, Fits(new), run # None
  PROVE  LET p == Packet(new) IN
         /\ run.section \in Sections /\ run.count \in Nat \ {0} /\ Size(run.section) \in Nat
         /\ Len(p.cells) \in Nat /\ left # <<>>
         /\ p.cells[1] = <<run.section, run.count + 1>>
         /\ run.count + Continued(p) = Size(run.section) => Size(run.section) - run.count <= Len(p.cells)
         /\ run.count + Continued(p) < Size(run.section)
              => /\ Continued(p) = Len(p.cells)
                 /\ p.cells[Len(p.cells)] = <<run.section, run.count + Len(p.cells)>>
         /\ p.pusi => p.pointer # 0
<1> DEFINE p == Packet(new)
           n == Len(p.cells)
           s == run.section
           c == run.count
           k == Continued(p)
<1>1. LeftOK /\ next_cc \in 0 .. CcModulus - 1 /\ run.section \in Sections
  BY DEF MuxTypes, HistoryTypes, RunOK
<1>2. run.count \in Nat \ {0} /\ left # <<>> /\ left[1] = <<run.section, run.count + 1>>
  BY DEF Tracks
<1>3. /\ k = Least(Len(left), n) /\ Len(left) \in Nat
      /\ c + Len(left) = Size(s)
      /\ n < Len(left) => p.cells[n] = <<s, c + n>>
  BY <1>1, <1>2, Carries
<1>4. PacketOK(p) /\ p.cells[1] = left[1]
  BY <1>1, <1>2, PacketIsWell
<1>5. n \in Nat
  BY <1>4, PacketsAre
<1>6. p.pusi => p.pointer # 0
  <2>1. p.pointer = Len(left)
    BY <1>1, PacketSettles
  <2>2. Len(left) # 0
    BY <1>1, <1>2 DEF LeftOK
  <2> QED BY <2>1, <2>2
<1>7. Size(s) \in Nat
  BY <1>1, Sizes
<1> HIDE DEF p, n, s, c, k
<1>8. /\ c + k = Size(s) => Size(s) - c <= n
      /\ c + k < Size(s) => k = n /\ n < Len(left)
  <2>1. c \in Nat
    BY <1>2 DEF c
  <2>2. k = IF Len(left) < n THEN Len(left) ELSE n
    BY <1>3 DEF Least
  <2> QED BY <1>3, <1>5, <1>7, <2>1, <2>2
<1> QED BY <1>1, <1>2, <1>3, <1>4, <1>5, <1>6, <1>7, <1>8 DEF p, n, s, c, k

LEMMA EnterFollows ==
  ASSUME NEW p, Enter(p), stream # None, Follows(stream, p), ~(p.pusi /\ p.pointer = 0)
  PROVE  step' = "accumulate" /\ data' = 1 /\ stream' = stream /\ packet' = p
BY DEF Enter

LEMMA EnterIdles ==
  ASSUME NEW p, Enter(p), ~p.pusi, stream = None \/ ~Follows(stream, p)
  PROVE  step' = "out"
<1>1. ~Follows(NewStream, p)
  BY DEF Follows, NewStream
<1> QED BY <1>1 DEF Enter

\* The stream waits for the section that goes on, if it waits for the packet that comes.
LEMMA FollowingIsRun ==
  ASSUME Typed, Assembled, Tracks, Idle, faults < CcModulus, NEW new \in Starting, Fits(new), run # None,
         stream # None, Follows(stream, Packet(new))
  PROVE  First[1] = run.section /\ Len(stream.section_data) = run.count
<1>1. MuxTypes /\ HistoryTypes /\ PushTypes
  BY DEF Typed
<1>2. Waits
  BY DEF Waits, Idle, Follows
<1>3. Packet(new).cells[1] = <<First[1], Len(stream.section_data) + 1>>
  BY <1>2, FollowingGoesOn
<1>4. Packet(new).cells[1] = <<run.section, run.count + 1>> /\ run.count \in Nat
  BY <1>1, RunContinues
<1>5. Len(stream.section_data) \in Nat
  BY <1>1, <1>2, StreamsAre DEF PushTypes
<1> QED BY <1>3, <1>4, <1>5

LEMMA AwaitedFollows ==
  ASSUME Typed, NEW new \in Starting, Awaited
  PROVE  stream # None /\ Follows(stream, Packet(new))
<1>1. stream # None /\ StreamOK(stream) /\ stream.continuity_counter # Unset
  BY DEF Awaited, Waits, Typed, PushTypes
<1>2. stream.continuity_counter \in 0 .. CcModulus - 1
  <2>1. stream.continuity_counter \in 0 .. CcModulus /\ CcModulus \in Nat
    BY <1>1, StreamsAre, Sizes
  <2> QED BY <1>1, <2>1 DEF Unset
<1>3. Packet(new).cc = next_cc
  BY DEF Packet
<1> QED BY <1>1, <1>2, <1>3, NextCounter DEF Awaited, Follows

LEMMA OpenTracks ==
  ASSUME NEW p, PacketOK(p), NEW rest, Continues(p.cells, rest),
         NEW i \in Begun(p), In(p, i) < Size(p.cells[i][1])
  PROVE  In(p, i) \in Nat \ {0} /\ rest # <<>> /\ rest[1] = <<p.cells[i][1], In(p, i) + 1>>
<1>1. In(p, i) \in Nat /\ In(p, i) >= 1 /\ p.cells[i][1] \in Sections
  BY BegunAre
<1>2. p.cells[Len(p.cells)] = <<p.cells[i][1], In(p, i)>>
  BY CutOff
<1>3. rest # <<>> /\ rest[1] = <<p.cells[i][1], In(p, i) + 1>>
  BY <1>1, <1>2, GoesOnAfter
<1> QED BY <1>1, <1>3

LEMMA ArriveTracks ==
  ASSUME Typed, Tracks, NEW new \in Starting, Arrive(new)
  PROVE  Tracks'
<1> DEFINE p == Packet(new)
<1>1. MuxTypes /\ HistoryTypes /\ Fits(new) /\ Advance(new) /\ Enter(p) /\ run' = GoesOn(p, FALSE)
  BY DEF Typed, Arrive
<1>2. /\ PacketOK(p) /\ p.cc = next_cc /\ Continues(p.cells, left') /\ Settled(p)
  <2>1. left' = SubSeq(Sent(new), Room(new) + 1, Len(Sent(new)))
    BY <1>1 DEF Advance
  <2> QED BY <1>1, <2>1, PacketIsWell, PacketSettles DEF MuxTypes
<1>3. packet' = p
  BY <1>1 DEF Enter
<1>4. next_cc' = Follow(p.cc)
  BY <1>1, <1>2, NextCounter DEF Advance, MuxTypes
<1>5. /\ run # None => run.section \in Sections /\ run.count \in Nat \ {0} /\ Size(run.section) \in Nat
      /\ run # None /\ run.count + Continued(p) < Size(run.section)
           => /\ Continued(p) = Len(p.cells) /\ Len(p.cells) \in Nat
              /\ p.cells[Len(p.cells)] = <<run.section, run.count + Len(p.cells)>>
  BY <1>1, RunContinues
<1> HIDE DEF p
<1>6. ASSUME run' # None
      PROVE  run'.count \in Nat \ {0} /\ left' # <<>> /\ left'[1] = <<run'.section, run'.count + 1>>
  <2>1. CASE \E i \in Begun(p) : /\ Found(p, i) /\ In(p, i) < Size(p.cells[i][1])
                                 /\ run'.section = p.cells[i][1] /\ run'.count = In(p, i)
    BY <1>2, <2>1, OpenTracks
  <2>2. CASE /\ run # None /\ run.count + Continued(p) < Size(run.section)
             /\ run'.section = run.section /\ run'.count = run.count + Continued(p)
    <3> DEFINE k == run.count + Len(p.cells)
    <3>1. run'.count = k /\ k < Size(run.section) /\ k \in Nat \ {0}
      BY <1>5, <2>2
    <3>2. p.cells[Len(p.cells)] = <<run.section, k>> /\ run.section \in Sections
      BY <1>5, <2>2
    <3> HIDE DEF k
    <3>3. left' # <<>> /\ left'[1] = <<run.section, k + 1>>
      BY <1>2, <3>1, <3>2, GoesOnAfter
    <3> QED BY <2>2, <3>1, <3>3
  <2> QED BY <1>1, <1>6, <2>1, <2>2, GoesOnIs
<1> QED BY <1>2, <1>3, <1>4, <1>6 DEF Tracks

LEMMA ComesNext ==
  ASSUME NEW p, PacketOK(p), Settled(p), Enter(p), NEW i \in Begun(p), Found(p, i), published' = published
  PROVE  /\ i \in Nat /\ Ahead(i)' /\ packet' = p
         /\ p.cells[i][1] \notin published /\ In(p, i) = Size(p.cells[i][1]) => Comes(p.cells[i][1])'
<1>1. i \in Nat /\ Ahead(i)' /\ packet' = p
  BY BegunAre, EnterAhead DEF Enter
<1> QED BY <1>1 DEF Comes, In

LEMMA ArriveDue ==
  ASSUME Typed, Assembled, Tracks, Pending, faults < CcModulus, NEW new \in Starting, Arrive(new)
  PROVE  AllDue'
<1> DEFINE p == Packet(new)
<1>1. /\ MuxTypes /\ HistoryTypes /\ PushTypes /\ Steps /\ Idle /\ Fits(new) /\ Enter(p)
      /\ finished' = Whole(p, FALSE) /\ published' = published
  BY DEF Typed, Arrive
<1>2. PacketOK(p) /\ Settled(p)
  BY <1>1, PacketIsWell, PacketSettles DEF MuxTypes
<1> SUFFICES ASSUME NEW s \in finished' PROVE Completes(s)' \/ Comes(s)'
  BY DEF AllDue
<1>3. s \in Ended(p, FALSE) /\ s \notin published
  BY <1>1 DEF Whole
<1>4. CASE \E i \in Begun(p) : Found(p, i) /\ In(p, i) = Size(p.cells[i][1]) /\ s = p.cells[i][1]
  BY <1>1, <1>2, <1>3, <1>4, ComesNext
<1>5. CASE run # None /\ run.count + Continued(p) = Size(run.section) /\ s = run.section
  <2>1. Awaited
    BY <1>1, <1>3, <1>5 DEF Pending, Opens, Ahead, Fills, Idle
  <2>2. stream # None /\ Follows(stream, p) /\ Waits /\ First[1] = s /\ run.count = Len(stream.section_data)
    BY <1>5, <2>1, AwaitedFollows DEF Awaited
  <2>3. Size(s) - run.count <= Len(p.cells) /\ ~(p.pusi /\ p.pointer = 0) /\ Len(p.cells) \in Nat
    BY <1>1, <1>5, RunContinues
  <2> HIDE DEF p
  <2>4. step' = "accumulate" /\ data' = 1 /\ stream' = stream /\ packet' = p
    BY <1>1, <2>2, <2>3, EnterFollows
  <2>5. stream.section_data # <<>>
    BY <1>1, <2>2 DEF Steps
  <2>6. First' = First
    BY <2>4, <2>5 DEF First
  <2>7. Len(p.cells) - 1 + 1 = Len(p.cells)
    BY <2>3
  <2>8. Size(s) - Len(stream'.section_data) <= Len(packet'.cells) - data' + 1
    BY <1>5, <2>2, <2>3, <2>4, <2>7
  <2> QED BY <2>2, <2>4, <2>6, <2>8 DEF Completes
<1> HIDE DEF p
<1> QED BY <1>3, <1>4, <1>5 DEF Ended, Size

LEMMA OpensNext ==
  ASSUME NEW p, PacketOK(p), Settled(p), Enter(p), NEW i \in Begun(p), Found(p, i), published' = published,
         In(p, i) < Size(p.cells[i][1]), run'.section = p.cells[i][1], run'.count = In(p, i)
  PROVE  Opens'
<1>1. i \in Nat /\ Ahead(i)' /\ packet' = p
  BY ComesNext
<1> QED BY <1>1 DEF Opens, In

LEMMA ArrivePends ==
  ASSUME Typed, Assembled, Tracks, Pending, faults < CcModulus, NEW new \in Starting, Arrive(new)
  PROVE  Pending'
<1> DEFINE p == Packet(new)
<1>1. /\ MuxTypes /\ HistoryTypes /\ PushTypes /\ Steps /\ Idle /\ Fits(new) /\ Enter(p)
      /\ run' = GoesOn(p, FALSE) /\ published' = published
  BY DEF Typed, Arrive
<1>2. PacketOK(p) /\ Settled(p)
  BY <1>1, PacketIsWell, PacketSettles DEF MuxTypes
<1> SUFFICES ASSUME run' # None
             PROVE  Opens' \/ Fills' \/ (step' = "out" /\ run'.section \in published')
  BY DEF Pending
<1>3. CASE \E i \in Begun(p) : /\ Found(p, i) /\ In(p, i) < Size(p.cells[i][1])
                               /\ run'.section = p.cells[i][1] /\ run'.count = In(p, i)
  BY <1>1, <1>2, <1>3, OpensNext
<1>4. CASE /\ run # None /\ ~p.pusi /\ run.count + Continued(p) < Size(run.section)
           /\ run'.section = run.section /\ run'.count = run.count + Continued(p)
  <2>1. /\ run.count \in Nat /\ Len(p.cells) \in Nat /\ Continued(p) = Len(p.cells)
    BY <1>1, <1>4, RunContinues
  <2>2. CASE stream # None /\ Follows(stream, p)
    <3>1. First[1] = run.section /\ Len(stream.section_data) = run.count
      BY <1>1, <1>4, <2>2, FollowingIsRun
    <3>2. Waits
      BY <1>1, <2>2 DEF Waits, Idle, Follows
    <3> HIDE DEF p
    <3>3. step' = "accumulate" /\ data' = 1 /\ stream' = stream /\ packet' = p
      BY <1>1, <1>4, <2>2, EnterFollows
    <3>4. stream.section_data # <<>>
      BY <1>1, <3>2 DEF Steps
    <3>5. First' = First
      BY <3>3, <3>4 DEF First
    <3>6. run'.count = Len(stream'.section_data) + (Len(packet'.cells) - data' + 1)
      <4>1. run'.count = run.count + Len(p.cells) /\ Len(p.cells) - 1 + 1 = Len(p.cells)
        BY <1>4, <2>1
      <4>2. Len(stream'.section_data) = run.count /\ Len(packet'.cells) - data' + 1 = Len(p.cells)
        BY <3>1, <3>3, <4>1
      <4> QED BY <4>1, <4>2
    <3> QED BY <1>4, <3>1, <3>3, <3>5, <3>6 DEF Fills
  <2>3. CASE ~(stream # None /\ Follows(stream, p))
    <3>1. ~Awaited
      BY <2>3, AwaitedFollows
    <3>2. run.section \in published
      BY <1>1, <1>4, <3>1 DEF Pending, Opens, Ahead, Fills, Idle
    <3> HIDE DEF p
    <3>3. step' = "out"
      BY <1>1, <1>4, <2>3, EnterIdles
    <3> QED BY <1>1, <1>4, <3>2, <3>3
  <2> QED BY <2>2, <2>3
<1> HIDE DEF p
<1> QED BY <1>1, <1>3, <1>4, GoesOnIs

LEMMA RepeatKeepsAll ==
  ASSUME Typed, Assembled, Tracks, faults' < CcModulus, Repeat
  PROVE  Tracks' /\ AllDue' /\ Pending'
<1>1. /\ MuxTypes /\ HistoryTypes /\ PushTypes /\ packet # None /\ Enter(packet)
      /\ left' = left /\ next_cc' = next_cc /\ faults' = faults + 1
      /\ finished' = Whole(packet, TRUE) /\ run' = GoesOn(packet, TRUE) /\ published' = published
      /\ packet.cc = (next_cc + CcModulus - 1) % CcModulus
  BY DEF Typed, Repeat
<1>2. PacketOK(packet) /\ Settled(packet) /\ packet' = packet
  BY <1>1 DEF PushTypes, Tracks, Enter
<1>3. faults \in Nat /\ faults < CcModulus /\ CcModulus \in Nat /\ CcModulus > 1
  BY <1>1, Sizes DEF MuxTypes
<1>4. next_cc = Follow(packet.cc)
  <2>1. next_cc \in 0 .. CcModulus - 1
    BY <1>1 DEF MuxTypes
  <2>2. CASE next_cc = 0
    <3>1. (next_cc + CcModulus - 1) % CcModulus = CcModulus - 1
      BY <1>3, <2>2
    <3> QED BY <1>1, <1>3, <2>2, <3>1 DEF Follow
  <2>3. CASE next_cc # 0
    <3> DEFINE m == next_cc - 1
    <3>1. m \in 0 .. CcModulus - 1 /\ next_cc + CcModulus - 1 = m + CcModulus /\ m + 1 # CcModulus
      BY <1>3, <2>1, <2>3
    <3>2. (m + CcModulus) % CcModulus = m
      <4> HIDE DEF m
      <4> QED BY <1>3, <3>1
    <3>3. packet.cc = m
      BY <1>1, <3>1, <3>2
    <3> QED BY <2>1, <3>1, <3>3 DEF Follow
  <2> QED BY <2>2, <2>3
<1>5. Continues(packet.cells, left)
  <2>1. PICK n \in 0 .. faults : Behind(n)
    BY <1>1 DEF Assembled
  <2>2. n = 0
    BY <1>1, <1>2, <1>3, <1>4, <2>1, CaughtUp
  <2> QED BY <2>1, <2>2 DEF Behind
<1>6. run' # None =>
        \E i \in Begun(packet) : /\ Found(packet, i) /\ In(packet, i) < Size(packet.cells[i][1])
                                 /\ run'.section = packet.cells[i][1] /\ run'.count = In(packet, i)
  BY <1>1, GoesOnIs
<1>7. Tracks'
  <2>1. ASSUME run' # None
        PROVE  run'.count \in Nat \ {0} /\ left' # <<>> /\ left'[1] = <<run'.section, run'.count + 1>>
    BY <1>1, <1>2, <1>5, <1>6, <2>1, OpenTracks
  <2> QED BY <1>1, <1>2, <1>4, <2>1 DEF Tracks
<1>8. Pending'
  <2>1. run' # None => Opens'
    BY <1>1, <1>2, <1>6, OpensNext
  <2> QED BY <2>1 DEF Pending
<1>9. AllDue'
  <2> SUFFICES ASSUME NEW s \in finished' PROVE Comes(s)'
    BY DEF AllDue
  <2>1. s \in Ended(packet, TRUE) /\ s \notin published
    BY <1>1 DEF Whole
  <2>2. PICK i \in Begun(packet) :
          Found(packet, i) /\ In(packet, i) = Size(packet.cells[i][1]) /\ s = packet.cells[i][1]
    BY <2>1 DEF Ended, Size
  <2> QED BY <1>1, <1>2, <2>1, <2>2, ComesNext
<1> QED BY <1>7, <1>8, <1>9
-----------------------------------------------------------------------------
(* The packet is gone through *)

\* What Report does to what is due.
LEMMA ReportKeepsDue ==
  ASSUME PushTypes, NEW cells, Report(cells), cells[1][1] \in Sections, cells = Cells(cells[1][1]), NEW s
  PROVE  /\ Reported(s) \/ s = cells[1][1] => Reported(s)'
         /\ s # cells[1][1] /\ s \notin published => s \notin published'
<1>1. /\ sections \in Seq(Seq(Byte)) /\ sections' = Append(sections, cells)
      /\ published' \subseteq published \cup {cells[1][1]}
  BY DEF PushTypes, Report
<1>2. /\ Len(sections) \in Nat /\ Len(sections') = Len(sections) + 1
      /\ sections'[Len(sections) + 1] = cells
      /\ \A i \in 1 .. Len(sections) : sections'[i] = sections[i] /\ i \in 1 .. Len(sections')
  BY <1>1
<1>3. ASSUME Reported(s) PROVE Reported(s)'
  BY <1>2, <1>3 DEF Reported
<1>4. ASSUME s = cells[1][1] PROVE Reported(s)'
  <2>1. Len(sections) + 1 \in 1 .. Len(sections')
    BY <1>2
  <2> QED BY <1>2, <1>4, <2>1 DEF Reported
<1>5. s # cells[1][1] /\ s \notin published => s \notin published'
  BY <1>1
<1> QED BY <1>3, <1>4, <1>5

LEMMA SameTracks ==
  ASSUME Tracks, step # "idle" \/ step' = "idle", packet' = packet, left' = left, next_cc' = next_cc,
         run' = run \/ run' = None
  PROVE  Tracks'
BY DEF Tracks

LEMMA AccumulateKeepsAll ==
  ASSUME Typed, Typed', Assembled, Assembled', Tracks, AllDue, Pending, Accumulate
  PROVE  Tracks' /\ AllDue' /\ Pending'
<1> DEFINE f == First[1]
           k == Len(stream.section_data)
           n == Len(packet.cells)
<1>1. PushTypes /\ Steps /\ Heads /\ HistoryTypes /\ step = "accumulate"
  BY DEF Typed, Accumulate
<1>2. PICK r, all : /\ Reads(r, all) /\ AccumulateTo(r, all) /\ data' = data + r
                    /\ packet' = packet /\ run' = run /\ finished' = finished
                    /\ left' = left /\ next_cc' = next_cc
  BY <1>1, AccumulateIs
<1>3. PacketOK(packet) /\ StreamOK(stream) /\ f \in Sections /\ stream.section_length = Size(f)
  BY <1>1, NoneAssumption DEF PushTypes, Steps, Heads, Cell, Assembled
<1>4. k \in Nat /\ n \in Nat /\ data \in Nat /\ Size(f) \in Nat
  BY <1>1, <1>3, StreamsAre, PacketsAre, Sizes DEF PushTypes
<1>5. /\ r \in Nat /\ all \in Seq(Byte) /\ Len(all) = k + r /\ all[1] = First /\ all # <<>>
      /\ r = Least(Size(f) - k, n - data + 1)
      /\ Len(all) < Size(f) => data + r = n + 1
  BY <1>1, <1>2, <1>3, ReadsIs DEF Reads
<1>6. Tracks'
  BY <1>1, <1>2, SameTracks
<1>7. \A s : Completes(s) => s = f /\ Size(f) - k <= n - data + 1
  BY DEF Completes
<1>8. \A i \in Nat : Ahead(i) => Ahead(i)' /\ step' = "section_start"
  BY AccumulateReaches
<1>9. Fills => f = run.section /\ run.count < Size(f) /\ run.count = k + (n - data + 1)
  BY DEF Fills
<1>10. AllDue <=> \A s \in finished : Reported(s) \/ Completes(s) \/ Comes(s)
  BY <1>1 DEF AllDue
<1>11. Pending <=> (run # None => Opens \/ Fills)
  BY <1>1 DEF Pending, Awaited, Waits
<1>12. CASE /\ Len(all) < stream.section_length /\ step' = "out"
            /\ stream' = [stream EXCEPT !.continuity_counter = packet.cc, !.section_data = all]
            /\ sections' = sections /\ published' = published
  <2>1. packet.cc \in 0 .. CcModulus /\ packet.cc # Unset
    BY <1>3, PacketsAre, Sizes DEF Unset
  <2>2. StreamOK(stream') /\ stream'.continuity_counter = packet.cc /\ stream'.section_data = all
    <3>1. stream' = Partial(stream, packet.cc, all)
      BY <1>12 DEF Partial
    <3> QED BY <1>3, <1>5, <2>1, <3>1, PartIsOK
  <2>3. ~Opens /\ \A s : ~Comes(s)
    BY <1>8, <1>12 DEF Opens, Comes
  <2> HIDE DEF f, k, n
  <2>4. \A s : ~Completes(s)
    <3>1. Size(f) - k <= n - data + 1 => r = Size(f) - k
      <4> DEFINE a == Size(f) - k
                 b == n - data + 1
      <4>1. a \in Int /\ b \in Int /\ r = Least(a, b)
        BY <1>4, <1>5
      <4> HIDE DEF a, b
      <4>2. a <= b => r = a
        BY <4>1 DEF Least
      <4> QED BY <4>2 DEF a, b
    <3>2. r # Size(f) - k
      BY <1>3, <1>4, <1>5, <1>12
    <3> QED BY <1>7, <3>1, <3>2
  <2>5. AllDue'
    <3>1. \A s \in finished' : Reported(s)'
      BY <1>2, <1>10, <1>12, <2>3, <2>4 DEF Reported
    <3> QED BY <3>1 DEF AllDue
  <2>6. Pending'
    <3> SUFFICES ASSUME run' # None PROVE Awaited'
      BY DEF Pending
    <3>1. Fills
      BY <1>2, <1>11, <2>3
    <3>2. First' = First /\ Len(stream'.section_data) = k + r
      BY <1>5, <2>2 DEF First
    <3>3. data + r = n + 1
      BY <1>3, <1>5, <1>12
    <3>4. run'.count = k + r
      BY <1>2, <1>4, <1>5, <1>9, <3>1, <3>3
    <3>5. Waits'
      BY <1>12, <2>1, <2>2, StreamsAre DEF Waits
    <3>6. next_cc' = Follow(packet.cc)
      BY <1>1, <1>2 DEF Tracks
    <3>7. First'[1] = run'.section
      BY <1>2, <1>9, <3>1, <3>2 DEF f
    <3> QED BY <2>2, <3>2, <3>4, <3>5, <3>6, <3>7 DEF Awaited
  <2> QED BY <1>6, <2>5, <2>6
<1>13. CASE Len(all) = stream.section_length /\ step' = "section_start" /\ Report(all)
  <2>1. all = Cells(f)
    <3>1. sections \in Seq(Seq(Byte)) /\ sections' = Append(sections, all)
      BY <1>1, <1>13 DEF PushTypes, Report
    <3>2. Len(sections) + 1 \in 1 .. Len(sections') /\ sections'[Len(sections) + 1] = all
      BY <3>1
    <3>3. PICK t \in Sections : all = Cells(t)
      BY <3>2 DEF Assembled, Intact
    <3>4. all[1] = <<t, 1>>
      BY <3>3, CellsAre, Sizes
    <3> QED BY <1>5, <3>3, <3>4
  <2>2. all[1][1] = f
    BY <1>5
  <2>3. \A s : /\ Reported(s) \/ s = f => Reported(s)'
               /\ s # f /\ s \notin published => s \notin published'
    <3> TAKE s
    <3> HIDE DEF f
    <3> QED BY <1>1, <1>3, <1>13, <2>1, <2>2, ReportKeepsDue
  <2>4. ASSUME NEW s \in finished PROVE Reported(s)' \/ Comes(s)'
    <3>1. CASE Comes(s) /\ s # f
      <4>1. PICK i \in Nat : Ahead(i) /\ packet.cells[i][1] = s /\ In(packet, i) = Size(s)
        BY <3>1 DEF Comes
      <4>2. Ahead(i)' /\ s \notin published'
        BY <1>8, <2>3, <3>1, <4>1 DEF Comes
      <4> QED BY <1>2, <4>1, <4>2 DEF Comes, In
    <3> QED BY <1>7, <1>10, <2>3, <2>4, <3>1
  <2>5. AllDue'
    BY <1>2, <2>4 DEF AllDue
  <2> HIDE DEF f, k, n
  <2>6. ~Fills
    <3> SUFFICES ASSUME Fills PROVE FALSE
      OBVIOUS
    <3>1. k + r = Size(f) /\ k + (n - data + 1) < Size(f)
      BY <1>3, <1>5, <1>9, <1>13
    <3>2. r <= n - data + 1
      <4> DEFINE a == Size(f) - k
                 b == n - data + 1
      <4>1. a \in Int /\ b \in Int /\ r = Least(a, b)
        BY <1>4, <1>5
      <4> HIDE DEF a, b
      <4>2. r <= b
        BY <4>1 DEF Least
      <4> QED BY <4>2 DEF b
    <3> QED BY <1>4, <1>5, <3>1, <3>2
  <2>7. Pending'
    <3> SUFFICES ASSUME run # None PROVE Opens'
      BY <1>2 DEF Pending
    <3>1. PICK i \in Nat : /\ Ahead(i) /\ packet.cells[i][1] = run.section /\ In(packet, i) = run.count
                           /\ run.count < Size(run.section)
      BY <1>11, <2>6 DEF Opens
    <3>2. Ahead(i)'
      BY <1>8, <3>1
    <3> QED BY <1>2, <3>1, <3>2 DEF Opens, In
  <2> QED BY <1>6, <2>5, <2>7
<1> QED BY <1>2, <1>12, <1>13 DEF AccumulateTo

\* What is due while sections are looked for.
LEMMA AtStart ==
  ASSUME AllDue, Pending, step = "section_start"
  PROVE  (\A s \in finished : Reported(s) \/ Comes(s)) /\ (run # None => Opens)
BY DEF AllDue, Pending, Completes, Fills, Awaited, Waits

LEMMA HereIs ==
  ASSUME Typed, Begins
  PROVE  /\ Size(Here) \in Nat /\ Rest \in Nat /\ Rest = Len(packet.cells) - data + 1
         /\ Here = packet.cells[data][1] /\ Here \in Sections
         /\ data \in Nat /\ Len(packet.cells) \in Nat
         /\ Size(Here) <= Rest => In(packet, data) = Size(Here)
         /\ ~(Size(Here) <= Rest) => In(packet, data) = Rest
<1>1. PushTypes /\ Steps
  BY DEF Typed
<1>2. /\ Here \in Sections /\ PacketOK(packet) /\ data \in 1 .. Len(packet.cells) /\ Rest \in Nat
  BY <1>1, StartsAt
<1>3. Size(Here) \in Nat /\ data \in Nat /\ Len(packet.cells) \in Nat
  BY <1>2, Sizes, PacketsAre
<1> DEFINE n == Size(Here)
           r == Rest
<1>4. In(packet, data) = Least(n, r)
  BY DEF In, Size, Rest, Here
<1>5. n \in Nat /\ r \in Nat
  BY <1>2, <1>3
<1> HIDE DEF n, r
<1>6. (n <= r => In(packet, data) = n) /\ (~(n <= r) => In(packet, data) = r)
  BY <1>4, <1>5 DEF Least
<1> QED BY <1>2, <1>3, <1>6 DEF n, r, Rest, Here

LEMMA StopKeepsAll ==
  ASSUME Typed, Assembled, Tracks, AllDue, Pending, NothingMore \/ Leave
  PROVE  Tracks' /\ AllDue' /\ Pending'
<1>1. /\ step = "section_start" /\ step' = "out" /\ packet' = packet /\ left' = left /\ next_cc' = next_cc
      /\ run' = run /\ finished' = finished /\ sections' = sections
  BY DEF NothingMore, Leave, Begins, muxVars
<1>2. ASSUME NEW i \in Nat, Ahead(i) PROVE FALSE
  <2>1. Begins /\ (Ahead(i)' \/ (i = data /\ (ShortSection \/ SkipSeen \/ StartSection)))
    BY <1>2, StartReaches
  <2>2. ~Ahead(i)'
    BY <1>1 DEF Ahead
  <2> QED BY <2>1, <2>2 DEF NothingMore, Leave, ShortSection, SkipSeen, StartSection
<1>3. (\A s \in finished : Reported(s)) /\ run = None
  BY <1>1, <1>2, AtStart DEF Comes, Opens
<1>4. Tracks'
  BY <1>1, SameTracks
<1>5. AllDue' /\ Pending'
  BY <1>1, <1>3 DEF AllDue, Pending, Reported
<1> QED BY <1>4, <1>5

LEMMA SkipSeenKeepsAll ==
  ASSUME OneSectionPerNumber, SeenIsPublished, Typed, Assembled, Tracks, AllDue, Pending, SkipSeen
  PROVE  Tracks' /\ AllDue' /\ Pending'
<1>1. /\ step = "section_start" /\ packet' = packet /\ left' = left /\ next_cc' = next_cc
      /\ run' = run /\ finished' = finished /\ sections' = sections /\ published' = published
      /\ Begins /\ SeenBefore(stream, Header(Here))
      /\ data' = data + Least(Size(Here), Rest) /\ step' = IF AtStuffing(data') THEN "out" ELSE "section_start"
  BY DEF SkipSeen, Begins, muxVars, Size
<1>2. PushTypes /\ Steps /\ HistoryTypes
  BY DEF Typed
<1>3. Here \in published
  BY <1>1, <1>2, StartsAt, SeenIsKnown
<1>4. \A i \in Nat : Ahead(i) => Ahead(i)' \/ i = data
  BY StartReaches
<1>5. Here = packet.cells[data][1]
  BY DEF Here
<1>6. Tracks'
  BY <1>1, SameTracks
<1>7. AllDue'
  <2> SUFFICES ASSUME NEW s \in finished PROVE Reported(s)' \/ Comes(s)'
    BY <1>1 DEF AllDue
  <2>1. CASE Reported(s)
    BY <1>1, <2>1 DEF Reported
  <2>2. CASE Comes(s)
    <3>1. s \notin published
      BY <2>2 DEF Comes
    <3>2. PICK i \in Nat : Ahead(i) /\ packet.cells[i][1] = s /\ In(packet, i) = Size(s)
      BY <2>2 DEF Comes
    <3>3. Ahead(i)'
      BY <1>3, <1>4, <1>5, <3>1, <3>2
    <3> QED BY <1>1, <3>1, <3>2, <3>3 DEF Comes, In
  <2> QED BY <1>1, <2>1, <2>2, AtStart
<1>8. Pending'
  <2> SUFFICES ASSUME run # None PROVE Opens' \/ (step' = "out" /\ run.section \in published)
    BY <1>1 DEF Pending
  <2>1. PICK i \in Nat : /\ Ahead(i) /\ packet.cells[i][1] = run.section /\ In(packet, i) = run.count
                         /\ run.count < Size(run.section)
    BY <1>1, AtStart DEF Opens
  <2>2. CASE Ahead(i)'
    BY <1>1, <2>1, <2>2 DEF Opens, In
  <2>3. CASE i = data
    <3>1. run.section = Here /\ In(packet, data) < Size(Here)
      BY <1>5, <2>1, <2>3
    <3>2. ~(Size(Here) <= Rest)
      BY <1>1, <3>1, HereIs
    <3>3. data' = Len(packet.cells) + 1 /\ Len(packet.cells) \in Nat
      BY <1>1, <1>2, <3>2, Skips, HereIs
    <3>4. step' = "out"
      BY <1>1, <3>3 DEF AtStuffing
    <3> QED BY <1>3, <3>1, <3>4
  <2> QED BY <1>4, <2>1, <2>2, <2>3
<1> QED BY <1>6, <1>7, <1>8

LEMMA ShortSectionKeepsAll ==
  ASSUME Typed, Assembled, Tracks, AllDue, Pending, ShortSection
  PROVE  Tracks' /\ AllDue' /\ Pending'
<1> DEFINE cells == SubSeq(packet.cells, data, data + Size(Here) - 1)
<1>1. /\ step = "section_start" /\ packet' = packet /\ left' = left /\ next_cc' = next_cc
      /\ run' = run /\ finished' = finished /\ Begins /\ IsFast(Here)
  BY DEF ShortSection, Begins, muxVars
<1>2. Intact /\ PushTypes /\ Steps
  BY DEF Assembled, Typed
<1>3. /\ cells \in Seq(Byte) /\ Len(cells) = Size(Here) /\ cells[1] = packet.cells[data]
      /\ \A i \in 1 .. Size(Here) : cells[i] = packet.cells[data + i - 1]
      /\ Report(cells) /\ data' = data + Size(Here) /\ data' \in 1 .. Len(packet.cells)
  BY <1>2, ShortSectionIs
<1> HIDE DEF cells
<1>4. Here \in Sections /\ data \in 1 .. Len(packet.cells) /\ Len(packet.cells) \in Nat /\ Size(Here) \in Nat
  BY <1>1, <1>2, StartsAt, PacketsAre, Sizes
<1>5. ASSUME NEW i \in 1 .. Size(Here) PROVE cells[i] = <<Here, i>>
  <2>1. data + i - 1 \in 1 .. Len(packet.cells)
    BY <1>3, <1>4
  <2> QED BY <1>1, <1>2, <1>3, <2>1, BeginsWhole
<1>6. cells = Cells(Here)
  BY <1>3, <1>4, <1>5, IsWhole
<1>7. cells[1][1] = Here
  BY <1>3 DEF Here
<1>8. \A s : /\ Reported(s) \/ s = Here => Reported(s)'
             /\ s # Here /\ s \notin published => s \notin published'
  <2> TAKE s
  <2> QED BY <1>2, <1>3, <1>4, <1>6, <1>7, ReportKeepsDue
<1>9. \A i \in Nat : Ahead(i) => Ahead(i)' \/ i = data
  BY StartReaches
<1>10. Tracks'
  BY <1>1, SameTracks
<1>11. AllDue'
  <2> SUFFICES ASSUME NEW s \in finished PROVE Reported(s)' \/ Comes(s)'
    BY <1>1 DEF AllDue
  <2>1. CASE Comes(s) /\ s # Here
    <3>1. PICK i \in Nat : Ahead(i) /\ packet.cells[i][1] = s /\ In(packet, i) = Size(s)
      BY <2>1 DEF Comes
    <3>2. Ahead(i)' /\ s \notin published'
      BY <1>8, <1>9, <2>1, <3>1 DEF Comes, Here
    <3> QED BY <1>1, <3>1, <3>2 DEF Comes, In
  <2> QED BY <1>1, <1>8, <2>1, AtStart
<1>12. Pending'
  <2> SUFFICES ASSUME run # None PROVE Opens'
    BY <1>1 DEF Pending
  <2>1. PICK i \in Nat : /\ Ahead(i) /\ packet.cells[i][1] = run.section /\ In(packet, i) = run.count
                         /\ run.count < Size(run.section)
    BY <1>1, AtStart DEF Opens
  <2>2. i # data
    <3> SUFFICES ASSUME i = data PROVE FALSE
      OBVIOUS
    <3>1. Size(Here) < Rest
      BY <1>1 DEF IsFast, Size
    <3>2. In(packet, data) = Size(Here)
      BY <1>1, <3>1, HereIs
    <3> QED BY <1>4, <2>1, <3>2 DEF Here
  <2>3. Ahead(i)'
    BY <1>9, <2>1, <2>2
  <2> QED BY <1>1, <2>1, <2>3 DEF Opens, In
<1> QED BY <1>10, <1>11, <1>12

LEMMA StartSectionKeepsAll ==
  ASSUME Typed, Assembled, Tracks, AllDue, Pending, StartSection
  PROVE  Tracks' /\ AllDue' /\ Pending'
<1> DEFINE new == Beginning(stream, Header(Here), Size(Here))
<1>1. /\ Begins /\ step = "section_start" /\ step' = "accumulate" /\ stream' = new /\ sections' = sections
      /\ packet' = packet /\ data' = data /\ left' = left /\ next_cc' = next_cc
      /\ run' = run /\ finished' = finished /\ published' = published
  BY DEF StartSection, Begins, muxVars, Size, Beginning
<1>2. PushTypes /\ Steps
  BY DEF Typed
<1>3. StreamOK(stream) /\ Here \in Sections /\ packet.cells[data][1] = Here
  BY <1>1, <1>2, StartsAt
<1>4. Header(Here) \in Headers /\ Size(Here) \in Nat
  BY <1>3, HeadersAre, Sizes
<1>5. new.section_data = <<>>
  BY <1>3, <1>4, BeginningIsOK
<1> HIDE DEF new
<1>6. First'[1] = Here /\ Len(stream'.section_data) = 0
  BY <1>1, <1>3, <1>5 DEF First
<1>7. /\ Rest \in Nat /\ Rest = Len(packet.cells) - data + 1
      /\ Size(Here) <= Rest => In(packet, data) = Size(Here)
      /\ ~(Size(Here) <= Rest) => In(packet, data) = Rest
  BY <1>1, HereIs
<1>8. \A i \in Nat : Ahead(i) => Ahead(i)' \/ i = data
  BY StartReaches
<1>9. Tracks'
  BY <1>1, SameTracks
<1>10. AllDue'
  <2> SUFFICES ASSUME NEW s \in finished PROVE Reported(s)' \/ Completes(s)' \/ Comes(s)'
    BY <1>1 DEF AllDue
  <2>1. CASE Reported(s)
    BY <1>1, <2>1 DEF Reported
  <2>2. CASE Comes(s)
    <3>1. PICK i \in Nat : Ahead(i) /\ packet.cells[i][1] = s /\ In(packet, i) = Size(s)
      BY <2>2 DEF Comes
    <3>2. CASE Ahead(i)'
      <4>1. s \notin published'
        BY <1>1, <2>2 DEF Comes
      <4> QED BY <1>1, <3>1, <3>2, <4>1 DEF Comes, In
    <3>3. CASE i = data
      <4>1. s = Here /\ In(packet, data) = Size(Here)
        BY <1>3, <3>1, <3>3
      <4>2. Size(Here) <= Rest
        BY <1>4, <1>7, <4>1
      <4>3. Size(Here) - 0 <= Len(packet.cells) - data + 1
        BY <1>4, <1>7, <4>2
      <4> QED BY <1>1, <1>6, <4>1, <4>3 DEF Completes
    <3> QED BY <1>8, <3>1, <3>2, <3>3
  <2> QED BY <1>1, <2>1, <2>2, AtStart
<1>11. Pending'
  <2> SUFFICES ASSUME run # None PROVE Opens' \/ Fills'
    BY <1>1 DEF Pending
  <2>1. PICK i \in Nat : /\ Ahead(i) /\ packet.cells[i][1] = run.section /\ In(packet, i) = run.count
                         /\ run.count < Size(run.section)
    BY <1>1, AtStart DEF Opens
  <2>2. CASE Ahead(i)'
    BY <1>1, <2>1, <2>2 DEF Opens, In
  <2>3. CASE i = data
    <3>1. run.section = Here /\ In(packet, data) = run.count /\ run.count < Size(Here)
      BY <1>3, <2>1, <2>3
    <3>2. run.count = Rest
      BY <1>4, <1>7, <3>1
    <3>3. run'.count = Len(stream'.section_data) + (Len(packet'.cells) - data' + 1)
      BY <1>1, <1>6, <1>7, <3>2
    <3> QED BY <1>1, <1>6, <3>1, <3>3 DEF Fills
  <2> QED BY <1>8, <2>1, <2>2, <2>3
<1> QED BY <1>9, <1>10, <1>11

LEMMA IdleKeepsAll ==
  ASSUME Typed, Tracks, Pending, Out \/ (\E new \in Starting : Lose(new)) \/ Flush \/ RemoveStream
  PROVE  Tracks' /\ AllDue' /\ Pending'
<1>1. step' = "idle" /\ step \in {"idle", "out"} /\ packet' = packet
  BY DEF Out, Lose, Flush, RemoveStream, Idle
<1>2. AllDue'
  BY <1>1 DEF AllDue
<1>3. CASE Out
  <2>1. /\ step = "out" /\ left' = left /\ next_cc' = next_cc /\ run' = run
        /\ stream' = stream /\ published' = published
    BY <1>3 DEF Out, muxVars
  <2>2. Tracks'
    BY <1>1, <2>1, SameTracks
  <2>3. Awaited => Awaited'
    <3> SUFFICES ASSUME Awaited PROVE Awaited'
      OBVIOUS
    <3>1. Waits /\ stream.section_data # <<>>
      BY DEF Awaited, Typed, Steps
    <3>2. First' = First
      BY <2>1, <3>1 DEF First
    <3>3. Waits'
      BY <1>1, <2>1, <3>1 DEF Waits
    <3> QED BY <2>1, <3>2, <3>3 DEF Awaited
  <2>4. Pending'
    BY <1>1, <2>1, <2>3 DEF Pending, Opens, Ahead, Fills
  <2> QED BY <1>2, <2>2, <2>4
<1>4. CASE (\E new \in Starting : Lose(new)) \/ Flush \/ RemoveStream
  <2>1. run' = None
    BY <1>4 DEF Lose, Flush, RemoveStream
  <2> QED BY <1>1, <1>2, <2>1 DEF Tracks, Pending
<1> QED BY <1>3, <1>4

LEMMA NextKeepsLossless ==
  /\ OneSyntaxPerTable /\ OneSectionPerNumber
  /\ Typed /\ Typed' /\ [Next]_vars
  /\ (faults < CcModulus => Assembled) /\ (faults < CcModulus => Assembled)'
  /\ SeenIsPublished /\ (faults < CcModulus => Lossless)
  => (faults < CcModulus => Lossless)'
<1> SUFFICES ASSUME OneSyntaxPerTable, OneSectionPerNumber, Typed, Typed', [Next]_vars,
                    faults < CcModulus => Assembled, (faults < CcModulus => Assembled)',
                    SeenIsPublished, faults < CcModulus => Lossless, faults' < CcModulus
             PROVE  Lossless'
  OBVIOUS
<1>1. faults \in Nat /\ faults' \in {faults, faults + 1} /\ CcModulus \in Nat
  <2>1. faults \in Nat /\ CcModulus \in Nat
    BY Sizes DEF Typed, MuxTypes
  <2>2. faults' \in {faults, faults + 1}
    BY DEF Next, Push, Arrive, Lose, Repeat, Accumulate, NothingMore, ShortSection, Leave, SkipSeen,
           StartSection, Out, Flush, RemoveStream, vars, muxVars
  <2> QED BY <2>1, <2>2
<1>2. faults < CcModulus /\ Assembled /\ Assembled' /\ Tracks /\ AllDue /\ Pending
  BY <1>1 DEF Lossless
<1>3. SeenIsPublished'
  BY NextKeepsSeen
<1> SUFFICES Tracks' /\ AllDue' /\ Pending'
  BY <1>3 DEF Lossless
<1>4. ASSUME NEW new \in Starting, Arrive(new) PROVE Tracks' /\ AllDue' /\ Pending'
  BY <1>2, <1>4, ArriveTracks, ArriveDue, ArrivePends
<1>5. CASE Repeat
  BY <1>2, <1>5, RepeatKeepsAll
<1>6. CASE Accumulate
  BY <1>2, <1>6, AccumulateKeepsAll
<1>7. CASE NothingMore \/ Leave
  BY <1>2, <1>7, StopKeepsAll
<1>8. CASE ShortSection
  BY <1>2, <1>8, ShortSectionKeepsAll
<1>9. CASE SkipSeen
  BY <1>2, <1>9, SkipSeenKeepsAll
<1>10. CASE StartSection
  BY <1>2, <1>10, StartSectionKeepsAll
<1>11. CASE Out \/ (\E new \in Starting : Lose(new)) \/ Flush \/ RemoveStream
  BY <1>2, <1>11, IdleKeepsAll
<1>12. CASE UNCHANGED vars
  <2>1. /\ left' = left /\ next_cc' = next_cc /\ step' = step /\ packet' = packet /\ data' = data
        /\ sections' = sections /\ stream' = stream /\ run' = run /\ finished' = finished
        /\ published' = published
    BY <1>12 DEF vars, muxVars
  <2>2. \A i \in Nat : Ahead(i) => Ahead(i)'
    BY <2>1 DEF Ahead, Begun, Found
  <2>3. Tracks'
    BY <1>2, <2>1 DEF Tracks
  <2>4. First' = First /\ (Waits => Waits')
    BY <2>1 DEF First, Waits
  <2>5. AllDue'
    <3>1. \A s : /\ Reported(s) => Reported(s)'
                 /\ Comes(s) => Comes(s)'
                 /\ Completes(s) => Completes(s)'
      BY <2>1, <2>2, <2>4 DEF Reported, Comes, Completes, In
    <3> QED BY <1>2, <2>1, <3>1 DEF AllDue
  <2>6. Pending'
    <3>1. (Opens => Opens') /\ (Fills => Fills') /\ (Awaited => Awaited')
      BY <2>1, <2>2, <2>4 DEF Opens, Fills, Awaited, In
    <3> QED BY <1>2, <2>1, <3>1 DEF Pending
  <2> QED BY <2>3, <2>5, <2>6
<1> QED BY <1>4, <1>5, <1>6, <1>7, <1>8, <1>9, <1>10, <1>11, <1>12 DEF Next, Push

LEMMA InitIsLossless == Init => Lossless
BY DEF Init, Lossless, SeenIsPublished, Tracks, AllDue, Pending

LEMMA LosslessLosesNothing == Lossless => NothingLost
<1> SUFFICES ASSUME Lossless, step = "out", NEW s \in finished
             PROVE  \E i \in 1 .. Len(sections) : sections[i] = Cells(s)
  BY DEF NothingLost
<1>1. ~Completes(s) /\ ~Comes(s)
  BY DEF Completes, Comes, Ahead
<1> QED BY <1>1 DEF Lossless, AllDue, Reported

\* The comment of push_section holds, as long as fewer packets were lost or repeated than the
\* continuity counter has values: when a packet has been gone through, each section that it
\* completed and that was not reported before is among those that are returned, provided that
\* the multiplexer keeps to one syntax per table_id and one section per number of a version.
THEOREM NothingIsLost == Spec => [](faults < CcModulus => NothingLost)
<1> DEFINE Kept == OneSyntaxPerTable /\ OneSectionPerNumber
           IInv == /\ Typed /\ (faults < CcModulus => Assembled)
                   /\ Kept => SeenIsPublished /\ (faults < CcModulus => Lossless)
<1>1. Init => IInv
  BY InitIsTyped, InitAssembles, InitIsLossless DEF Lossless
<1>2. IInv /\ [Next]_vars => IInv'
  <2> SUFFICES ASSUME IInv, [Next]_vars PROVE IInv'
    OBVIOUS
  <2>1. Typed' /\ (faults < CcModulus => Assembled)'
    BY NextKeepsTyped, NextAssembles
  <2>2. ASSUME Kept PROVE SeenIsPublished' /\ (faults < CcModulus => Lossless)'
    <3>1. SeenIsPublished'
      BY <2>2, NextKeepsSeen
    <3>2. (faults < CcModulus => Lossless)'
      BY <2>1, <2>2, NextKeepsLossless
    <3> QED BY <3>1, <3>2
  <2> QED BY <2>1, <2>2 DEF OneSyntaxPerTable, OneSectionPerNumber
<1>3. IInv => (faults < CcModulus => NothingLost)
  BY LosslessLosesNothing DEF NothingLost
<1> QED BY <1>1, <1>2, <1>3, PTL DEF Spec
=============================================================================
