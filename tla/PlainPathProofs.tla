--------------------------- MODULE PlainPathProofs ---------------------------
(***************************************************************************)
(* Theorems about the plain path that hold for all workloads and depths of *)
(* the buffers.                                                            *)
(***************************************************************************)
EXTENDS PlainPath, FiniteSetTheorems, SequenceTheorems, WellFoundedInduction, TLAPS
-----------------------------------------------------------------------------
(* Induction on numbers, and arithmetic.                                   *)

\* Induction for a set in place of a predicate.
LEMMA NatSetInduction ==
  ASSUME NEW S, 0 \in S, \A n \in Nat : n \in S => n + 1 \in S
  PROVE  Nat \subseteq S
  <1> DEFINE R == OpToRel(<, Nat)
             T == {n \in Nat : n \notin S}
  <1>1. IsWellFoundedOn(R, Nat)
    BY NatLessThanWellFounded
  <1>2. SUFFICES ASSUME T # {} PROVE FALSE
    OBVIOUS
  <1>3. T \subseteq Nat
    OBVIOUS
  <1> HIDE DEF T, R
  <1>4. PICK m \in T : \A y \in T : ~(<<y, m>> \in R)
    BY <1>1, <1>2, <1>3, WFMin
  <1>5. m \in Nat /\ m \notin S
    BY <1>4 DEF T
  <1>6. m # 0
    BY <1>5
  <1>7. m - 1 \in Nat /\ m - 1 < m /\ (m - 1) + 1 = m
    BY <1>5, <1>6
  <1>8. m - 1 \in T
    BY <1>5, <1>7 DEF T
  <1>9. <<m - 1, m>> \in R
    BY <1>5, <1>7 DEF R, OpToRel
  <1>10. QED
    BY <1>4, <1>8, <1>9

\* Products of naturals are naturals.
LEMMA Product ==
  ASSUME NEW a \in Nat, NEW b \in Nat, a <= b, NEW m \in Nat
  PROVE  /\ a * m \in Nat /\ b * m \in Nat /\ a * m <= b * m
         /\ (a + 1) * m = a * m + m
  <1>1. b - a \in Nat
    OBVIOUS
  <1>2. (b - a) * m \in Nat /\ b * m = a * m + (b - a) * m
    BY <1>1
  <1>3. a * m \in Nat
    OBVIOUS
  <1>4. QED
    BY <1>2, <1>3

\* Products that are apart by less than n are equal.
LEMMA Quotients ==
  ASSUME NEW n \in Nat, n >= 1, NEW q \in Int, NEW p \in Int, NEW r \in 0..(n - 1), NEW m \in 0..(n - 1),
         q * n + r = p * n + m
  PROVE  q = p /\ r = m
  <1>1. (q - p) * n = m - r
    OBVIOUS
  <1>2. CASE q - p >= 1
    <2>1. (q - p) * n >= n
      BY <1>2
    <2>2. QED
      BY <1>1, <2>1
  <1>3. CASE q - p <= -1
    <2>1. (q - p) * n <= -n
      BY <1>3
    <2>2. QED
      BY <1>1, <2>1
  <1>4. CASE q - p = 0
    BY <1>4
  <1>5. QED
    BY <1>2, <1>3, <1>4

\* A quotient and its remainder.
LEMMA Division ==
  ASSUME NEW n \in Nat, n >= 1, NEW x \in Nat
  PROVE  x % n \in 0..(n - 1) /\ x = (x \div n) * n + (x % n) /\ x \div n \in Nat
OBVIOUS

\* A databeat has room for the length of the levels.
LEMMA Width4 == NumBytes \in Nat /\ NumBytes >= 4
BY PathSizes

\* Of the databeats that n bytes need all but the last are full.
LEMMA BeatsFit ==
  ASSUME NEW n \in Nat, n >= 1
  PROVE  /\ BeatsFor(n) \in Nat /\ BeatsFor(n) >= 1
         /\ (BeatsFor(n) - 1) * NumBytes < n /\ n <= BeatsFor(n) * NumBytes
  <1>1. PICK nb \in Nat : nb = NumBytes /\ nb >= 4
    BY Width4
  <1>2. PICK c \in Nat, r \in 0..(nb - 1) : c = BeatsFor(n) /\ n + nb - 1 = c * nb + r
    <2>1. PICK c \in Nat, r \in 0..(nb - 1) : c = (n + nb - 1) \div nb /\ n + nb - 1 = c * nb + r
      BY <1>1
    <2>2. QED
      BY <1>1, <2>1 DEF BeatsFor
  <1>3. c >= 1
    <2>1. CASE c = 0
      BY <1>1, <1>2, <2>1
    <2>2. QED
      BY <2>1
  <1>4. (c - 1) * nb = c * nb - nb
    OBVIOUS
  <1>5. QED
    BY <1>1, <1>2, <1>3, <1>4

\* j databeats are fewer than n bytes need exactly if n bytes do not fit them.
LEMMA BeatsBound ==
  ASSUME NEW n \in Nat, n >= 1, NEW j \in Nat
  PROVE  j < BeatsFor(n) <=> j * NumBytes < n
  <1>1. PICK nb \in Nat : nb = NumBytes /\ nb >= 4
    BY Width4
  <1>2. PICK c \in Nat : c = BeatsFor(n) /\ c >= 1 /\ (c - 1) * nb < n /\ n <= c * nb
    BY <1>1, BeatsFit
  <1>3. CASE j < c
    <2>1. j <= c - 1 /\ c - 1 \in Nat
      BY <1>2, <1>3
    <2>2. j * nb <= (c - 1) * nb /\ j * nb \in Nat /\ (c - 1) * nb \in Nat
      BY <2>1, Product
    <2>3. QED
      BY <1>1, <1>2, <1>3, <2>2
  <1>4. CASE ~(j < c)
    <2>1. c * nb <= j * nb /\ j * nb \in Nat /\ c * nb \in Nat
      BY <1>4, Product
    <2>2. QED
      BY <1>1, <1>2, <1>4, <2>1
  <1>5. QED
    BY <1>3, <1>4

\* The databeats of n bytes are as many as are needed, and no more.
LEMMA BeatsExact ==
  ASSUME NEW n \in Nat, n >= 1, NEW j \in Nat, j * NumBytes < n, n <= (j + 1) * NumBytes
  PROVE  BeatsFor(n) = j + 1
  <1>1. j < BeatsFor(n)
    BY BeatsBound
  <1>2. ~((j + 1) * NumBytes < n)
    <2>1. (j + 1) * NumBytes \in Nat
      BY Width4
    <2>2. QED
      BY <2>1
  <1>3. ~(j + 1 < BeatsFor(n))
    BY <1>2, BeatsBound
  <1>4. QED
    BY <1>1, <1>3, BeatsFit

-----------------------------------------------------------------------------
(* Rows: queues of databeats that are numbered.                            *)

\* q holds the databeats behind the t-th, in order; S has databeats with their numbers.
Row(S, q, t) == \A i \in 1..Len(q) : <<q[i], t + i>> \in S

\* Rows: a queue whose i-th element is numbered t + i.
LEMMA RowEmpty ==
  ASSUME NEW S, NEW t
  PROVE  Row(S, <<>>, t)
  <1>1. Len(<<>>) = 0
    OBVIOUS
  <1>2. QED
    BY <1>1 DEF Row

\* A row goes on at its end,
LEMMA RowAppend ==
  ASSUME NEW B, NEW S, NEW q \in Seq(B), NEW x \in B, NEW t \in Nat, NEW n, Row(S, q, t),
         n = t + Len(q) + 1, <<x, n>> \in S
  PROVE  Row(S, Append(q, x), t)
  <1>1. /\ Len(Append(q, x)) = Len(q) + 1 /\ Len(q) \in Nat
        /\ \A i \in 1..Len(q) : Append(q, x)[i] = q[i]
        /\ Append(q, x)[Len(q) + 1] = x
    OBVIOUS
  <1>2. SUFFICES ASSUME NEW i \in 1..(Len(q) + 1) PROVE <<Append(q, x)[i], t + i>> \in S
    BY <1>1 DEF Row
  <1>3. CASE i = Len(q) + 1
    BY <1>1, <1>3
  <1>4. CASE i \in 1..Len(q)
    <2>1. <<q[i], t + i>> \in S
      BY <1>4 DEF Row
    <2>2. QED
      BY <1>1, <1>4, <2>1
  <1>5. i = Len(q) + 1 \/ i \in 1..Len(q)
    BY <1>1
  <1>6. QED
    BY <1>3, <1>4, <1>5, Zenon

\* and loses its first.
LEMMA RowTail ==
  ASSUME NEW B, NEW S, NEW q \in Seq(B), q # <<>>, NEW t \in Nat, Row(S, q, t)
  PROVE  /\ <<Head(q), t + 1>> \in S /\ Row(S, Tail(q), t + 1)
         /\ Head(q) \in B /\ Tail(q) \in Seq(B) /\ Len(q) \in Nat \ {0} /\ Len(Tail(q)) = Len(q) - 1
  <1>1. /\ Head(q) \in B /\ Head(q) = q[1] /\ Tail(q) \in Seq(B)
        /\ Len(q) \in Nat \ {0} /\ Len(Tail(q)) = Len(q) - 1
        /\ \A i \in 1..(Len(q) - 1) : Tail(q)[i] = q[i + 1]
    OBVIOUS
  <1>2. <<q[1], t + 1>> \in S
    BY <1>1 DEF Row
  <1>3. ASSUME NEW i \in 1..(Len(q) - 1) PROVE <<Tail(q)[i], (t + 1) + i>> \in S
    <2>1. i + 1 \in 1..Len(q) /\ (t + 1) + i = t + (i + 1)
      BY <1>1
    <2>2. <<q[i + 1], t + (i + 1)>> \in S
      BY <2>1 DEF Row
    <2>3. QED
      BY <1>1, <2>1, <2>2
  <1>4. QED
    BY <1>1, <1>2, <1>3 DEF Row

-----------------------------------------------------------------------------
(* What a workload has of its pages.                                       *)

Pages(w) == 1..Len(w.pages)

\* The databeats of page p before and behind StripLevels.
Beats(w, p)      == BeatsFor(w.contents[p].bytes)
ValueBytes(w, p) == w.layout[p].values * Width[w.contents[p].typ]
Plains(w, p)     == BeatsFor(ValueBytes(w, p))

\* The first p pages have as many.
BeatsDone(w, p)  == IF p = 0 THEN 0 ELSE w.layout[p].before + Beats(w, p)
PlainsDone(w, p) == IF p = 0 THEN 0 ELSE w.layout[p].plains + Plains(w, p)

\* Where the values of a page begin.
ValuesAt(w, p) == 4 + w.contents[p].levels

\* What a well-formed workload says of one page.
LEMMA PageFacts ==
  ASSUME NEW w, WellFormed(w), NEW p \in Pages(w)
  PROVE  /\ Len(w.pages) \in Nat /\ p \in Nat /\ p >= 1 /\ p <= Len(w.pages)
         /\ w.contents[p].levels \in Nat /\ ValuesAt(w, p) \in Nat /\ ValuesAt(w, p) >= 4
         /\ w.contents[p].bytes \in Nat /\ w.contents[p].bytes = ValuesAt(w, p) + ValueBytes(w, p)
         /\ ValueBytes(w, p) \in Nat /\ ValueBytes(w, p) >= 1
         /\ Beats(w, p) \in Nat /\ Beats(w, p) >= 1 /\ Plains(w, p) \in Nat /\ Plains(w, p) >= 1
         /\ w.layout[p].before \in Nat /\ w.layout[p].plains \in Nat
         /\ w.layout[p].values \in Nat /\ w.layout[p].values >= 1
         /\ w.layout[p].upto \in Nat /\ w.layout[p].upto >= 1
         /\ w.contents[p].typ \in DOMAIN Width
         /\ Width[w.contents[p].typ] \in Nat /\ Width[w.contents[p].typ] >= 1
         /\ w.layout[p].chunk \in 1..Len(w.sizes) /\ w.layout[p].chunk \in Nat
         /\ w.sizes[w.layout[p].chunk] \in Nat /\ w.sizes[w.layout[p].chunk] >= 1
         /\ w.pages[p].beats \in Nat /\ w.pages[p].beats >= 1
         /\ (w.pages[p].compression # "SNAPPY" => w.pages[p].beats = Beats(w, p))
         /\ (w.pages[p].compression = "SNAPPY" => w.pages[p].outs = Beats(w, p))
         /\ w.pages[p].ghost \in BOOLEAN /\ w.pages[p].compression \in {"RAW", "SNAPPY"}
  <1>1. PageWhole(w, p) /\ w.layout[p].chunk \in 1..Len(w.sizes) /\ Len(w.pages) \in Nat
        /\ \A i \in 1..Len(w.sizes) : w.sizes[i] \in Nat \ {0}
    BY DEF WellFormed, Pages
  <1>2. /\ {w.contents[p].levels, w.layout[p].before, w.layout[p].plains} \subseteq Nat
        /\ {w.layout[p].values, w.layout[p].upto, w.pages[p].beats} \subseteq Nat \ {0}
        /\ w.contents[p].typ \in DOMAIN Width
        /\ w.contents[p].bytes = 4 + w.contents[p].levels + w.layout[p].values * Width[w.contents[p].typ]
        /\ w.pages[p].compression \in {"RAW", "SNAPPY"} /\ w.pages[p].ghost \in BOOLEAN
        /\ IF w.pages[p].compression = "RAW" THEN w.pages[p].beats = BeatsFor(w.contents[p].bytes)
           ELSE w.pages[p].outs = BeatsFor(w.contents[p].bytes)
    BY <1>1 DEF PageWhole
  <1>3. Width[w.contents[p].typ] \in Nat /\ Width[w.contents[p].typ] >= 1
    BY <1>2, PathSizes
  <1>4. PICK v \in Nat, e \in Nat : v = w.layout[p].values /\ v >= 1 /\ e = Width[w.contents[p].typ] /\ e >= 1
    BY <1>2, <1>3
  <1>5. v * e \in Nat /\ v * e >= 1
    <2>1. 1 * e <= v * e /\ v * e \in Nat
      BY <1>4, Product
    <2>2. QED
      BY <1>4, <2>1
  <1>6. ValueBytes(w, p) \in Nat /\ ValueBytes(w, p) >= 1
    BY <1>4, <1>5 DEF ValueBytes
  <1>7. /\ ValuesAt(w, p) \in Nat /\ ValuesAt(w, p) >= 4 /\ w.contents[p].levels \in Nat
        /\ w.contents[p].bytes = ValuesAt(w, p) + ValueBytes(w, p)
    BY <1>2 DEF ValuesAt, ValueBytes
  <1>8. w.contents[p].bytes \in Nat /\ w.contents[p].bytes >= 1
    BY <1>6, <1>7
  <1>9. /\ Beats(w, p) \in Nat /\ Beats(w, p) >= 1 /\ Plains(w, p) \in Nat /\ Plains(w, p) >= 1
    BY <1>6, <1>8, BeatsFit DEF Beats, Plains
  <1>10. w.pages[p].compression # "SNAPPY" => w.pages[p].beats = Beats(w, p)
    BY <1>2 DEF Beats
  <1>11. w.pages[p].compression = "SNAPPY" => w.pages[p].outs = Beats(w, p)
    BY <1>2 DEF Beats
  <1>12. /\ w.layout[p].before \in Nat /\ w.layout[p].plains \in Nat
         /\ w.layout[p].values \in Nat /\ w.layout[p].values >= 1
         /\ w.layout[p].upto \in Nat /\ w.layout[p].upto >= 1
         /\ w.pages[p].beats \in Nat /\ w.pages[p].beats >= 1
    BY <1>2
  <1>13. p \in Nat /\ p >= 1 /\ p <= Len(w.pages)
    BY <1>1 DEF Pages
  <1>14. w.sizes[w.layout[p].chunk] \in Nat /\ w.sizes[w.layout[p].chunk] >= 1
    BY <1>1
  <1>15. w.layout[p].chunk \in Nat
    BY <1>1
  <1>16. QED
    BY <1>1, <1>2, <1>3, <1>6, <1>7, <1>8, <1>9, <1>10, <1>11, <1>12, <1>13, <1>14, <1>15

\* The page behind p.
LEMMA NextPage ==
  ASSUME NEW w, WellFormed(w), NEW p \in Nat, p < Len(w.pages)
  PROVE  /\ p + 1 \in Pages(w) /\ (p # 0 => p \in Pages(w))
         /\ w.layout[p + 1].before = BeatsDone(w, p) /\ w.layout[p + 1].plains = PlainsDone(w, p)
         /\ (p = 0 => w.layout[p + 1].chunk = 1)
         /\ (p # 0 => w.layout[p + 1].chunk = IF w.layout[p].upto = w.sizes[w.layout[p].chunk]
                                              THEN w.layout[p].chunk + 1 ELSE w.layout[p].chunk)
         /\ (p # 0 /\ w.layout[p + 1].chunk = w.layout[p].chunk =>
               w.contents[p + 1].typ = w.contents[p].typ /\ w.layout[p].upto < w.sizes[w.layout[p].chunk])
         /\ w.layout[p + 1].upto = w.layout[p + 1].values
              + (IF p = 0 \/ w.layout[p + 1].chunk # w.layout[p].chunk THEN 0 ELSE w.layout[p].upto)
  <1>1. Len(w.pages) \in Nat /\ PagesInRow(w) /\ w.layout[1].chunk = 1 /\ w.layout[1].before = 0 /\ w.layout[1].plains = 0
    BY DEF WellFormed
  <1>2. p + 1 \in Pages(w) /\ (p # 0 => p \in Pages(w) /\ p \in 1..(Len(w.pages) - 1))
    BY <1>1 DEF Pages
  <1>3. w.layout[p + 1].upto = w.layout[p + 1].values + (IF Starts(w, p + 1) THEN 0 ELSE w.layout[p].upto)
    <2>1. PICK x \in Pages(w) : x = p + 1 /\ x - 1 = p
      BY <1>2
    <2>2. w.layout[x].upto = w.layout[x].values + (IF Starts(w, x) THEN 0 ELSE w.layout[x - 1].upto)
      BY <1>1, <2>1 DEF PagesInRow, Pages
    <2>3. QED
      BY <2>1, <2>2
  <1>4. Starts(w, p + 1) <=> p = 0 \/ w.layout[p + 1].chunk # w.layout[p].chunk
    <2>1. PICK x : x = p + 1 /\ x - 1 = p /\ (x = 1 <=> p = 0)
      OBVIOUS
    <2>2. QED
      BY <2>1 DEF Starts
  <1>5. CASE p = 0
    <2>1. p + 1 = 1
      BY <1>5
    <2>2. QED
      BY <1>1, <1>2, <1>3, <1>4, <1>5, <2>1 DEF BeatsDone, PlainsDone
  <1>6. CASE p # 0
    <2>1. /\ w.layout[p + 1].before = w.layout[p].before + BeatsFor(w.contents[p].bytes)
          /\ w.layout[p + 1].plains = w.layout[p].plains + BeatsFor(w.layout[p].values * Width[w.contents[p].typ])
          /\ w.layout[p + 1].chunk = IF w.layout[p].upto = w.sizes[w.layout[p].chunk]
                                     THEN w.layout[p].chunk + 1 ELSE w.layout[p].chunk
          /\ w.layout[p + 1].chunk = w.layout[p].chunk =>
               w.contents[p + 1].typ = w.contents[p].typ /\ w.layout[p].upto < w.sizes[w.layout[p].chunk]
      BY <1>1, <1>2, <1>6 DEF PagesInRow
    <2>2. QED
      BY <1>2, <1>3, <1>4, <1>6, <2>1 DEF BeatsDone, PlainsDone, Beats, Plains, ValueBytes
  <1>7. QED
    BY <1>5, <1>6

\* Pages are behind one another.
LEMMA PagesBehind ==
  ASSUME NEW w, WellFormed(w), NEW p \in Pages(w), NEW q \in Pages(w), p < q
  PROVE  /\ w.layout[q].before >= w.layout[p].before + Beats(w, p)
         /\ w.layout[q].plains >= w.layout[p].plains + Plains(w, p)
         /\ w.layout[q].chunk >= w.layout[p].chunk
         /\ w.layout[q].chunk = w.layout[p].chunk => w.contents[q].typ = w.contents[p].typ
  <1> DEFINE Behind(x) ==
        /\ w.layout[x].before >= w.layout[p].before + Beats(w, p)
        /\ w.layout[x].plains >= w.layout[p].plains + Plains(w, p)
        /\ w.layout[x].chunk >= w.layout[p].chunk
        /\ w.layout[x].chunk = w.layout[p].chunk => w.contents[x].typ = w.contents[p].typ
      I == {n \in Nat : p + 1 + n \in Pages(w) => Behind(p + 1 + n)}
  <1>1. /\ Len(w.pages) \in Nat /\ p \in Nat /\ p >= 1 /\ q \in Nat /\ q <= Len(w.pages)
        /\ w.layout[p].chunk \in Nat
    BY PageFacts
  <1>2. ASSUME NEW x \in Pages(w), x + 1 \in Pages(w)
        PROVE  /\ w.layout[x + 1].before = w.layout[x].before + Beats(w, x)
               /\ w.layout[x + 1].plains = w.layout[x].plains + Plains(w, x)
               /\ w.layout[x + 1].chunk >= w.layout[x].chunk /\ w.layout[x].chunk \in Nat /\ w.layout[x + 1].chunk \in Nat
               /\ w.layout[x].before \in Nat /\ w.layout[x].plains \in Nat
               /\ Beats(w, x) \in Nat /\ Plains(w, x) \in Nat
               /\ w.layout[x + 1].chunk = w.layout[x].chunk => w.contents[x + 1].typ = w.contents[x].typ
    <2>1. x \in Nat /\ x # 0 /\ x < Len(w.pages)
      BY <1>1, <1>2 DEF Pages
    <2>2. w.layout[x].chunk \in Nat /\ w.layout[x].before \in Nat /\ w.layout[x].plains \in Nat
          /\ Beats(w, x) \in Nat /\ Plains(w, x) \in Nat
      BY PageFacts
    <2>3. /\ w.layout[x + 1].before = BeatsDone(w, x) /\ w.layout[x + 1].plains = PlainsDone(w, x)
          /\ w.layout[x + 1].chunk = IF w.layout[x].upto = w.sizes[w.layout[x].chunk]
                                     THEN w.layout[x].chunk + 1 ELSE w.layout[x].chunk
          /\ w.layout[x + 1].chunk = w.layout[x].chunk => w.contents[x + 1].typ = w.contents[x].typ
      BY <2>1, NextPage
    <2>4. BeatsDone(w, x) = w.layout[x].before + Beats(w, x) /\ PlainsDone(w, x) = w.layout[x].plains + Plains(w, x)
      BY <2>1 DEF BeatsDone, PlainsDone
    <2>5. w.layout[x + 1].chunk \in Nat
      BY <1>2, PageFacts
    <2>6. QED
      BY <2>2, <2>3, <2>4, <2>5
  <1>3. 0 \in I
    <2>1. SUFFICES ASSUME p + 1 \in Pages(w) PROVE Behind(p + 1)
      BY <1>1
    <2>2. QED
      BY <1>1, <1>2, <2>1
  <1>4. ASSUME NEW n \in Nat, n \in I PROVE n + 1 \in I
    <2>1. PICK x : x = p + 1 + n /\ x + 1 = p + 1 + (n + 1) /\ x \in Nat /\ x >= 1
      BY <1>1
    <2>2. SUFFICES ASSUME x + 1 \in Pages(w) PROVE Behind(x + 1)
      BY <2>1
    <2>3. x \in Pages(w)
      BY <1>1, <2>1, <2>2 DEF Pages
    <2>4. Behind(x)
      <3> HIDE DEF Behind
      <3>1. p + 1 + n \in Pages(w)
        BY <2>1, <2>3
      <3>2. Behind(p + 1 + n)
        BY <1>4, <3>1
      <3>3. QED
        BY <2>1, <3>2, Zenon
    <2>5. /\ w.layout[p].before \in Nat /\ w.layout[p].plains \in Nat /\ Beats(w, p) \in Nat /\ Plains(w, p) \in Nat
      BY PageFacts
    <2>6. /\ w.layout[x + 1].before = w.layout[x].before + Beats(w, x)
          /\ w.layout[x + 1].plains = w.layout[x].plains + Plains(w, x)
          /\ w.layout[x + 1].chunk >= w.layout[x].chunk /\ w.layout[x].chunk \in Nat /\ w.layout[x + 1].chunk \in Nat
          /\ w.layout[x].before \in Nat /\ w.layout[x].plains \in Nat
          /\ Beats(w, x) \in Nat /\ Plains(w, x) \in Nat
          /\ w.layout[x + 1].chunk = w.layout[x].chunk => w.contents[x + 1].typ = w.contents[x].typ
      BY <1>2, <2>2, <2>3
    <2>7. w.layout[x + 1].before >= w.layout[p].before + Beats(w, p) /\ w.layout[x + 1].plains >= w.layout[p].plains + Plains(w, p)
      BY <2>4, <2>5, <2>6
    <2>8. /\ w.layout[x + 1].chunk >= w.layout[p].chunk
          /\ w.layout[x + 1].chunk = w.layout[p].chunk => w.contents[x + 1].typ = w.contents[p].typ
      <3>1. PICK c \in Nat, h \in Nat, e \in Nat :
              c = w.layout[p].chunk /\ h = w.layout[x].chunk /\ e = w.layout[x + 1].chunk
        BY <1>1, <2>6
      <3>2. h >= c /\ e >= h /\ (h = c => w.contents[x].typ = w.contents[p].typ)
            /\ (e = h => w.contents[x + 1].typ = w.contents[x].typ)
        BY <2>4, <2>6, <3>1
      <3>3. c \in Nat /\ h \in Nat /\ e \in Nat
        BY <3>1
      <3>4. e >= c /\ (e = c => w.contents[x + 1].typ = w.contents[p].typ)
        <4>1. e >= c /\ (e = c => h = c /\ e = h)
          BY <3>2, <3>3
        <4>2. QED
          BY <3>2, <4>1
      <3>5. QED
        BY <3>1, <3>4, Zenon
    <2>9. QED
      BY <2>7, <2>8
  <1> HIDE DEF I
  <1>5. q - p - 1 \in I
    <2>1. q - p - 1 \in Nat
      BY <1>1
    <2>2. Nat \subseteq I
      BY <1>3, <1>4, NatSetInduction
    <2>3. QED
      BY <2>1, <2>2
  <1>6. p + 1 + (q - p - 1) = q
    BY <1>1
  <1>7. Behind(q)
    BY <1>5, <1>6 DEF I
  <1>8. QED
    BY <1>7

\* A number stands for one databeat.
LEMMA BeatUnique ==
  ASSUME NEW w, WellFormed(w), NEW p \in Pages(w), NEW q \in Pages(w),
         NEW k \in 1..Beats(w, p), NEW j \in 1..Beats(w, q), w.layout[p].before + k = w.layout[q].before + j
  PROVE  p = q /\ k = j
  <1>1. /\ w.layout[p].before \in Nat /\ Beats(w, p) \in Nat /\ p \in Nat
        /\ w.layout[q].before \in Nat /\ Beats(w, q) \in Nat /\ q \in Nat
    BY PageFacts
  <1>2. ~(p < q)
    <2>1. p < q => w.layout[q].before >= w.layout[p].before + Beats(w, p)
      BY PagesBehind
    <2>2. QED
      BY <1>1, <2>1
  <1>3. ~(q < p)
    <2>1. q < p => w.layout[p].before >= w.layout[q].before + Beats(w, q)
      BY PagesBehind
    <2>2. QED
      BY <1>1, <2>1
  <1>4. p = q
    BY <1>1, <1>2, <1>3
  <1>5. QED
    BY <1>1, <1>4

\* A number belongs to one databeat of one page behind StripLevels.
LEMMA PlainUnique ==
  ASSUME NEW w, WellFormed(w), NEW p \in Pages(w), NEW q \in Pages(w),
         NEW k \in 1..Plains(w, p), NEW j \in 1..Plains(w, q), w.layout[p].plains + k = w.layout[q].plains + j
  PROVE  p = q /\ k = j
  <1>1. /\ w.layout[p].plains \in Nat /\ Plains(w, p) \in Nat /\ p \in Nat
        /\ w.layout[q].plains \in Nat /\ Plains(w, q) \in Nat /\ q \in Nat
    BY PageFacts
  <1>2. ~(p < q)
    <2>1. p < q => w.layout[q].plains >= w.layout[p].plains + Plains(w, p)
      BY PagesBehind
    <2>2. QED
      BY <1>1, <2>1
  <1>3. ~(q < p)
    <2>1. q < p => w.layout[p].plains >= w.layout[q].plains + Plains(w, q)
      BY PagesBehind
    <2>2. QED
      BY <1>1, <2>1
  <1>4. p = q
    BY <1>1, <1>2, <1>3
  <1>5. QED
    BY <1>1, <1>4

\* Page q is the last of chunk c; there is no chunk before the first page.
Ends(w, q, c) == IF q = 0 THEN c = 0 ELSE w.layout[q].chunk = c /\ w.layout[q].upto = w.sizes[c]

\* Up to the end of a page there are no more values than the chunk has.
LEMMA UptoBound ==
  ASSUME NEW w, WellFormed(w), NEW p \in Pages(w)
  PROVE  w.layout[p].upto <= w.sizes[w.layout[p].chunk]
  <1>1. Len(w.pages) \in Nat /\ p \in Nat /\ p >= 1 /\ p <= Len(w.pages)
        /\ w.layout[p].upto \in Nat /\ w.sizes[w.layout[p].chunk] \in Nat /\ w.layout[p].chunk \in Nat
    BY PageFacts
  <1>2. CASE p = Len(w.pages)
    <2>1. w.layout[p].upto = w.sizes[w.layout[p].chunk]
      BY <1>2 DEF WellFormed
    <2>2. QED
      BY <1>1, <2>1
  <1>3. CASE p < Len(w.pages)
    <2>1. /\ w.layout[p + 1].chunk = IF w.layout[p].upto = w.sizes[w.layout[p].chunk]
                                     THEN w.layout[p].chunk + 1 ELSE w.layout[p].chunk
          /\ w.layout[p + 1].chunk = w.layout[p].chunk => w.layout[p].upto < w.sizes[w.layout[p].chunk]
      BY <1>1, <1>3, NextPage
    <2>2. QED
      BY <1>1, <2>1
  <1>4. QED
    BY <1>1, <1>2, <1>3

\* Behind the last page of a chunk is the first page of the next, or nothing.
LEMMA NextChunk ==
  ASSUME NEW w, WellFormed(w), NEW q \in 0..Len(w.pages), NEW c \in Nat, Ends(w, q, c)
  PROVE  /\ q = Len(w.pages) => c = Len(w.sizes)
         /\ q # Len(w.pages) => /\ q + 1 \in Pages(w) /\ w.layout[q + 1].chunk = c + 1 /\ c < Len(w.sizes)
                                /\ w.layout[q + 1].upto = w.layout[q + 1].values
                                /\ w.layout[q + 1].plains = PlainsDone(w, q)
  <1>1. Len(w.pages) \in Nat \ {0} /\ q \in Nat /\ Len(w.sizes) \in Nat
    BY DEF WellFormed
  <1>2. ASSUME q = Len(w.pages) PROVE c = Len(w.sizes)
    BY <1>1, <1>2 DEF WellFormed, Ends
  <1>3. ASSUME q # Len(w.pages)
        PROVE  /\ q + 1 \in Pages(w) /\ w.layout[q + 1].chunk = c + 1
               /\ w.layout[q + 1].upto = w.layout[q + 1].values /\ w.layout[q + 1].plains = PlainsDone(w, q)
    <2>1. q < Len(w.pages)
      BY <1>1, <1>3
    <2>2. /\ q + 1 \in Pages(w)
          /\ w.layout[q + 1].plains = PlainsDone(w, q)
          /\ (q = 0 => w.layout[q + 1].chunk = 1)
          /\ (q # 0 => w.layout[q + 1].chunk = IF w.layout[q].upto = w.sizes[w.layout[q].chunk]
                                               THEN w.layout[q].chunk + 1 ELSE w.layout[q].chunk)
          /\ w.layout[q + 1].upto = w.layout[q + 1].values
               + (IF q = 0 \/ w.layout[q + 1].chunk # w.layout[q].chunk THEN 0 ELSE w.layout[q].upto)
      BY <1>1, <2>1, NextPage
    <2>3. w.layout[q + 1].values \in Nat
      BY <2>2, PageFacts
    <2>4. w.layout[q + 1].chunk = c + 1 /\ (q # 0 => w.layout[q + 1].chunk # w.layout[q].chunk)
      BY <2>2 DEF Ends
    <2>5. QED
      BY <2>2, <2>3, <2>4
  <1>4. ASSUME q # Len(w.pages) PROVE c < Len(w.sizes)
    <2>1. w.layout[q + 1].chunk \in 1..Len(w.sizes)
      BY <1>3, <1>4, PageFacts
    <2>2. QED
      BY <1>1, <1>3, <1>4, <2>1
  <1>5. QED
    BY <1>2, <1>3, <1>4

\* No databeat of values is behind the last page.
LEMMA PlainsBound ==
  ASSUME NEW w, WellFormed(w), NEW p \in Pages(w)
  PROVE  w.layout[p].plains + Plains(w, p) <= PlainsDone(w, Len(w.pages))
  <1>1. PICK e \in Pages(w) : e = Len(w.pages) /\ e # 0
    BY DEF WellFormed, Pages
  <1>2. /\ p \in Nat /\ p <= e /\ w.layout[p].plains \in Nat /\ Plains(w, p) \in Nat
        /\ e \in Nat /\ w.layout[e].plains \in Nat /\ Plains(w, e) \in Nat
    BY <1>1, PageFacts
  <1>3. p < e => w.layout[e].plains >= w.layout[p].plains + Plains(w, p)
    BY PagesBehind
  <1>4. PlainsDone(w, e) = w.layout[e].plains + Plains(w, e)
    BY <1>1 DEF PlainsDone
  <1>5. w.layout[p].plains + Plains(w, p) <= PlainsDone(w, e)
    <2>1. CASE p = e
      BY <1>2, <1>4, <2>1
    <2>2. CASE p < e
      BY <1>2, <1>3, <1>4, <2>2
    <2>3. QED
      BY <1>2, <2>1, <2>2
  <1>6. QED
    BY <1>1, <1>5

\* A databeat that comes less than the depth of the skid buffer behind the first of a
\* chunk is of that chunk.
LEMMA SameChunk ==
  ASSUME NEW w, WellFormed(w), NEW p \in Pages(w), p > 1 => w.layout[p].chunk # w.layout[p - 1].chunk,
         NEW q \in Pages(w), NEW j \in 1..Plains(w, q), NEW n \in Nat, n < SkidDepth, p = 1 => n = 0,
         w.layout[q].plains + j = w.layout[p].plains + 1 + n
  PROVE  w.contents[q].typ = w.contents[p].typ
  <1>1. /\ p \in Nat /\ p >= 1 /\ w.layout[p].plains \in Nat /\ w.layout[p].chunk \in Nat /\ Plains(w, p) >= 1
        /\ q \in Nat /\ w.layout[q].plains \in Nat /\ w.layout[q].chunk \in Nat
        /\ Plains(w, q) \in Nat /\ Plains(w, p) \in Nat
    BY PageFacts
  <1>2. SkidDepth \in Nat
    BY PathSizes
  <1>3. ~(q < p)
    <2>1. q < p => w.layout[p].plains >= w.layout[q].plains + Plains(w, q)
      BY PagesBehind
    <2>2. QED
      BY <1>1, <2>1
  <1>4. CASE p = q
    BY <1>4
  <1>5. CASE p < q
    <2>1. /\ w.layout[q].plains >= w.layout[p].plains + Plains(w, p)
          /\ w.layout[q].chunk >= w.layout[p].chunk
          /\ w.layout[q].chunk = w.layout[p].chunk => w.contents[q].typ = w.contents[p].typ
      BY <1>5, PagesBehind
    <2>2. p # 1
      BY <1>1, <2>1
    <2>3. Starts(w, p)
      BY <1>1, <2>2 DEF Starts
    <2>4. w.layout[p].chunk < w.layout[q].chunk => w.layout[q].plains >= w.layout[p].plains + SkidDepth
      <3>1. PagesInRow(w)
        BY DEF WellFormed
      <3>2. p > 1
        BY <1>1, <2>2
      <3>3. QED
        BY <2>3, <3>1, <3>2 DEF PagesInRow, Pages
    <2>5. ~(w.layout[p].chunk < w.layout[q].chunk)
      BY <1>1, <1>2, <2>4
    <2>6. QED
      BY <1>1, <2>1, <2>5
  <1>6. QED
    BY <1>1, <1>3, <1>4, <1>5

-----------------------------------------------------------------------------
(* The databeats of a workload.                                            *)

Databeat  == [page : Nat, k : Nat, last : BOOLEAN]
Place     == [page : Nat, at : Nat]
PlainBeat == [typ : DOMAIN Width, bytes : Seq(Place), last : BOOLEAN]

\* b is the n-th databeat out of the Decompressor.
IsBeat(w, b, n) ==
  /\ b.page \in Pages(w) /\ b.k \in 1..Beats(w, b.page) /\ n = w.layout[b.page].before + b.k
  /\ b.last <=> b.k = Beats(w, b.page)
NumberedBeats(w) == {x \in Databeat \X Nat : IsBeat(w, x[1], x[2])}

\* The j-th databeat of the values of page p.
PlainSize(w, p, j) == IF j = Plains(w, p) THEN ValueBytes(w, p) - (j - 1) * NumBytes ELSE NumBytes
PlainOf(w, p, j) ==
  [typ |-> w.contents[p].typ, last |-> j = Plains(w, p),
   bytes |-> [i \in 1..PlainSize(w, p, j) |-> [page |-> p, at |-> ValuesAt(w, p) + (j - 1) * NumBytes + i - 1]]]
NumberedPlains(w) ==
  {x \in PlainBeat \X Nat : \E p \in Pages(w) : \E j \in 1..Plains(w, p) :
      x[1] = PlainOf(w, p, j) /\ x[2] = w.layout[p].plains + j}

\* A numbered databeat is what its number says.
LEMMA BeatNumber ==
  ASSUME NEW w, NEW b \in Databeat, NEW n \in Nat
  PROVE  <<b, n>> \in NumberedBeats(w) <=> IsBeat(w, b, n)
BY DEF NumberedBeats

\* Every databeat of a page behind StripLevels holds at least one byte, and only the last is
\* marked.
LEMMA PlainSizes ==
  ASSUME NEW w, WellFormed(w), NEW p \in Pages(w), NEW j \in 1..Plains(w, p)
  PROVE  /\ PlainSize(w, p, j) \in 1..NumBytes
         /\ PlainOf(w, p, j) \in PlainBeat /\ Len(PlainOf(w, p, j).bytes) = PlainSize(w, p, j)
         /\ PlainOf(w, p, j).typ = w.contents[p].typ /\ (PlainOf(w, p, j).last <=> j = Plains(w, p))
         /\ <<PlainOf(w, p, j), w.layout[p].plains + j>> \in NumberedPlains(w)
  <1>1. /\ p \in Nat /\ ValuesAt(w, p) \in Nat /\ ValueBytes(w, p) \in Nat /\ ValueBytes(w, p) >= 1
        /\ Plains(w, p) \in Nat /\ w.contents[p].typ \in DOMAIN Width /\ w.layout[p].plains \in Nat
    BY PageFacts
  <1>2. /\ (Plains(w, p) - 1) * NumBytes < ValueBytes(w, p) /\ ValueBytes(w, p) <= Plains(w, p) * NumBytes
    BY <1>1, BeatsFit DEF Plains
  <1>3. PICK nb \in Nat, c \in Nat, v \in Nat, i \in Nat :
          nb = NumBytes /\ nb >= 4 /\ c = Plains(w, p) /\ v = ValueBytes(w, p) /\ i = j - 1 /\ c >= 1
    BY <1>1, Width4
  <1>4. i * nb \in Nat
    BY <1>3
  <1>5. PlainSize(w, p, j) \in 1..NumBytes
    <2>1. CASE j = c
      <3>1. (c - 1) * nb = i * nb /\ c * nb = i * nb + nb
        BY <1>3, <2>1
      <3>2. QED
        BY <1>2, <1>3, <1>4, <2>1, <3>1 DEF PlainSize
    <2>2. CASE j # c
      BY <1>3, <2>2 DEF PlainSize
    <2>3. QED
      BY <2>1, <2>2
  <1>6. PICK size \in Nat, at \in Nat : size = PlainSize(w, p, j) /\ size >= 1 /\ at = ValuesAt(w, p) + (j - 1) * NumBytes
    BY <1>1, <1>3, <1>4, <1>5
  <1>7. PlainOf(w, p, j).bytes = [x \in 1..size |-> [page |-> p, at |-> at + x - 1]]
    BY <1>6 DEF PlainOf
  <1>8. \A x \in 1..size : [page |-> p, at |-> at + x - 1] \in Place
    BY <1>1, <1>6 DEF Place
  <1>9. PlainOf(w, p, j).bytes \in Seq(Place) /\ Len(PlainOf(w, p, j).bytes) = size
    <2> DEFINE s == [x \in 1..size |-> [page |-> p, at |-> at + x - 1]]
    <2>1. s \in [1..size -> Place]
      BY <1>8
    <2> HIDE DEF s
    <2>2. s \in Seq(Place) /\ Len(s) = size
      BY <2>1
    <2>3. QED
      BY <1>7, <2>2 DEF s
  <1>10. PlainOf(w, p, j).typ = w.contents[p].typ /\ (PlainOf(w, p, j).last <=> j = Plains(w, p))
    BY DEF PlainOf
  <1>11. PlainOf(w, p, j) \in PlainBeat
    BY <1>1, <1>9, <1>10 DEF PlainBeat, PlainOf
  <1>12. <<PlainOf(w, p, j), w.layout[p].plains + j>> \in NumberedPlains(w)
    <2>1. w.layout[p].plains + j \in Nat
      BY <1>1
    <2>2. QED
      BY <1>11, <2>1 DEF NumberedPlains
  <1>13. QED
    BY <1>5, <1>6, <1>9, <1>10, <1>11, <1>12

-----------------------------------------------------------------------------
(* The inductive invariant.                                                *)

Unzipped == [page : Nat, k : Nat, last : BOOLEAN, ghost : BOOLEAN]

DecTypes ==
  /\ input \in Seq(Databeat) /\ bypass \in Seq(Databeat) /\ unzipped \in Seq(Databeat)
  /\ conf \in Nat /\ reset_counter \in 0..2
  /\ demuxing \in BOOLEAN /\ muxing \in BOOLEAN /\ input_paused \in BOOLEAN
  /\ in_data # Dec!Empty => in_data \in [beat : Databeat, index : Int]
  /\ unzip \in [fed : BOOLEAN, ended : BOOLEAN, given : Nat]
  /\ inner # Dec!Empty => inner \in Unzipped
  /\ tmp # Dec!Empty => tmp \in Unzipped

Compressed == Dec!Page.compression = "SNAPPY"

\* All of a page was fed and has left vhsnunzip.
Flushed == inner = Dec!Empty /\ in_data = Dec!Empty /\ ~demuxing /\ (reset_counter > 0 \/ ~unzip.fed)

\* The demultiplexer is done with a page before the multiplexer, and what is around the
\* wrapper is of a page that is not decompressed.
AroundOK ==
  /\ demuxing => muxing
  /\ bypass # <<>> => muxing /\ ~Compressed
  /\ \A i \in 1..Len(bypass) : bypass[i].last => i = Len(bypass) /\ ~demuxing

\* The reset finds nothing of a page; the last part of a page is fed when its last
\* databeat has been loaded, and that pauses the input.
WrapperOK ==
  /\ reset_counter > 0 => in_data = Dec!Empty /\ inner = Dec!Empty
  /\ unzip.ended => unzip.fed /\ in_data = Dec!Empty
  /\ unzip.ended /\ reset_counter = 0 => ~demuxing /\ input_paused
  /\ in_data # Dec!Empty /\ in_data.beat.last => ~demuxing /\ input_paused

\* What is in the wrapper and behind it is of the page the selectors are for.
PageOK ==
  /\ (unzip.fed /\ reset_counter = 0) \/ in_data # Dec!Empty \/ inner # Dec!Empty
       \/ tmp # Dec!Empty \/ unzipped # <<>> => muxing /\ Compressed
  /\ inner # Dec!Empty => inner.page = conf /\ (inner.last => unzip.ended)
  /\ tmp # Dec!Empty => tmp.page = conf

\* Behind `last` there is nothing.
LastOK ==
  /\ tmp # Dec!Empty /\ tmp.last => Flushed
  /\ \A i \in 1..Len(unzipped) :
       unzipped[i].last => i = Len(unzipped) /\ tmp = Dec!Empty /\ Flushed

IInv == DecTypes /\ AroundOK /\ WrapperOK /\ PageOK /\ LastOK

-----------------------------------------------------------------------------
\* The elements of a longer queue,
LEMMA AppendElements ==
  ASSUME NEW S, NEW q \in Seq(S), NEW x \in S
  PROVE  /\ Append(q, x) \in Seq(S) /\ Len(Append(q, x)) = Len(q) + 1 /\ Len(q) \in Nat
         /\ \A i \in 1..Len(q) : Append(q, x)[i] = q[i]
         /\ Append(q, x)[Len(q) + 1] = x
OBVIOUS

\* and of a shorter one.
LEMMA TailElements ==
  ASSUME NEW S, NEW q \in Seq(S), q # <<>>
  PROVE  /\ Head(q) \in S /\ Head(q) = q[1] /\ Tail(q) \in Seq(S)
         /\ Len(q) \in Nat \ {0} /\ Len(Tail(q)) = Len(q) - 1
         /\ \A i \in 1..(Len(q) - 1) : Tail(q)[i] = q[i + 1]
         /\ Len(q) = 1 => Tail(q) = <<>>
  <1>1. /\ Head(q) \in S /\ Head(q) = q[1] /\ Tail(q) \in Seq(S)
        /\ Len(q) \in Nat \ {0} /\ Len(Tail(q)) = Len(q) - 1
        /\ \A i \in 1..(Len(q) - 1) : Tail(q)[i] = q[i + 1]
    OBVIOUS
  <1>2. Len(q) = 1 => Tail(q) = <<>>
    <2>1. Tail(q) # <<>> => Len(Tail(q)) \in Nat \ {0}
      BY <1>1, EmptySeq
    <2>2. QED
      BY <1>1, <2>1
  <1>3. QED
    BY <1>1, <1>2

\* The conditions on a queue of which only the last databeat may have `last`.
LEMMA LastOfAppend ==
  ASSUME NEW q \in Seq(Databeat), NEW x \in Databeat, NEW P,
         \A i \in 1..Len(q) : ~q[i].last, x.last => P
  PROVE  \A i \in 1..Len(Append(q, x)) : Append(q, x)[i].last => i = Len(Append(q, x)) /\ P
BY AppendElements

\* A queue that loses one of several databeats ends as it did.
LEMMA LastOfTail ==
  ASSUME NEW q \in Seq(Databeat), q # <<>>, NEW P,
         \A i \in 1..Len(q) : q[i].last => i = Len(q) /\ P
  PROVE  /\ \A i \in 1..Len(Tail(q)) : Tail(q)[i].last => i = Len(Tail(q)) /\ P
         /\ Head(q).last => Tail(q) = <<>> /\ P
BY TailElements

-----------------------------------------------------------------------------
(* The selectors and what goes around the wrapper.                         *)

\* IInv is kept by every step of the Decompressor.
LEMMA TakeConfKeeps ==
  ASSUME IInv, Dec!TakeConf
  PROVE  IInv'
  <1>1. /\ in_data = Dec!Empty /\ inner = Dec!Empty /\ tmp = Dec!Empty /\ unzipped = <<>>
        /\ bypass = <<>> /\ (unzip.fed => reset_counter > 0)
    BY DEF IInv, Dec!TakeConf, PageOK, AroundOK, DecTypes
  <1>2. UNCHANGED <<input, bypass, unzipped, in_data, unzip, inner, tmp, input_paused, reset_counter>>
        /\ demuxing' = TRUE /\ muxing' = TRUE /\ conf' = conf + 1
    BY DEF Dec!TakeConf, Dec!wrapper_vars
  <1>3. DecTypes'
    BY <1>2 DEF IInv, DecTypes
  <1>4. AroundOK' /\ PageOK' /\ LastOK'
    BY <1>1, <1>2 DEF AroundOK, PageOK, LastOK, IInv, DecTypes
  <1>5. WrapperOK'
    BY <1>1, <1>2 DEF IInv, WrapperOK, DecTypes
  <1>6. QED
    BY <1>3, <1>4, <1>5 DEF IInv

\* A databeat goes around the wrapper.
LEMMA AroundKeeps ==
  ASSUME IInv, Dec!Around, UNCHANGED work
  PROVE  IInv'
  <1>1. /\ Head(input) \in Databeat /\ Tail(input) \in Seq(Databeat) /\ demuxing /\ ~Compressed
        /\ demuxing' = ~Head(input).last /\ input' = Tail(input)
        /\ bypass' = Append(bypass, Head(input))
    BY TailElements DEF IInv, DecTypes, Dec!Around, Dec!Demultiplex, Compressed
  <1>2. /\ UNCHANGED <<conf, muxing, unzipped, in_data, unzip, inner, tmp, input_paused, reset_counter>>
        /\ (Compressed' <=> Compressed)
    BY DEF Dec!Around, Dec!wrapper_vars, Compressed, Dec!Page
  <1>3. Append(bypass, Head(input)) \in Seq(Databeat) /\ Head(input).last \in BOOLEAN
    BY <1>1, AppendElements DEF IInv, DecTypes, Databeat
  <1>4. DecTypes'
    BY <1>1, <1>2, <1>3 DEF IInv, DecTypes
  <1>5. AroundOK'
    <2>1. \A i \in 1..Len(bypass) : ~bypass[i].last
      BY <1>1 DEF IInv, AroundOK
    <2>2. Head(input).last => ~demuxing'
      BY <1>1, <1>3
    <2>3. \A i \in 1..Len(bypass') : bypass'[i].last => i = Len(bypass') /\ ~demuxing'
      BY <1>1, <2>1, <2>2, LastOfAppend DEF IInv, DecTypes
    <2>4. QED
      BY <1>1, <1>2, <2>3 DEF AroundOK, IInv
  <1>6. WrapperOK' /\ PageOK' /\ LastOK'
    BY <1>1, <1>2 DEF WrapperOK, PageOK, LastOK, Flushed, IInv
  <1>7. QED
    BY <1>4, <1>5, <1>6 DEF IInv

\* A databeat leaves through the multiplexer.
LEMMA MultiplexKeeps ==
  ASSUME IInv, Dec!Multiplex, UNCHANGED work
  PROVE  IInv'
  <1>1. /\ UNCHANGED <<input, conf, demuxing, in_data, unzip, inner, tmp, input_paused, reset_counter>>
        /\ (Compressed' <=> Compressed) /\ muxing
    BY DEF Dec!Multiplex, Dec!wrapper_vars, Compressed, Dec!Page
  <1>2. CASE /\ Dec!Page.compression = "RAW" /\ bypass # <<>> /\ muxing' = ~Head(bypass).last
             /\ bypass' = Tail(bypass) /\ unzipped' = unzipped
    <2>1. /\ Head(bypass) \in Databeat /\ Tail(bypass) \in Seq(Databeat) /\ Head(bypass).last \in BOOLEAN
          /\ ~Compressed
      <3>1. bypass \in Seq(Databeat)
        BY DEF IInv, DecTypes
      <3>2. Head(bypass) \in Databeat /\ Tail(bypass) \in Seq(Databeat)
        BY <1>2, <3>1, TailElements
      <3>3. QED
        BY <1>2, <3>2 DEF Databeat, Compressed
    <2>2. /\ \A i \in 1..Len(bypass') : bypass'[i].last => i = Len(bypass') /\ ~demuxing
          /\ Head(bypass).last => bypass' = <<>> /\ ~demuxing
      BY <1>2, LastOfTail DEF IInv, DecTypes, AroundOK
    <2>3. DecTypes'
      BY <1>1, <1>2, <2>1 DEF IInv, DecTypes
    <2>4. AroundOK'
      BY <1>1, <1>2, <2>1, <2>2 DEF IInv, AroundOK
    <2>5. WrapperOK' /\ LastOK'
      BY <1>1, <1>2 DEF IInv, WrapperOK, LastOK, Flushed
    <2>6. PageOK'
      BY <1>1, <1>2, <2>1 DEF IInv, PageOK
    <2>7. QED
      BY <2>3, <2>4, <2>5, <2>6 DEF IInv
  <1>3. CASE /\ Dec!Page.compression = "SNAPPY" /\ unzipped # <<>> /\ muxing' = ~Head(unzipped).last
             /\ unzipped' = Tail(unzipped) /\ bypass' = bypass
    <2>1. /\ Head(unzipped) \in Databeat /\ Tail(unzipped) \in Seq(Databeat) /\ Head(unzipped).last \in BOOLEAN
          /\ Compressed
      <3>1. unzipped \in Seq(Databeat)
        BY DEF IInv, DecTypes
      <3>2. Head(unzipped) \in Databeat /\ Tail(unzipped) \in Seq(Databeat)
        BY <1>3, <3>1, TailElements
      <3>3. QED
        BY <1>3, <3>2 DEF Databeat, Compressed
    <2>2. /\ \A i \in 1..Len(unzipped') : unzipped'[i].last => i = Len(unzipped') /\ tmp = Dec!Empty /\ Flushed
          /\ Head(unzipped).last => unzipped' = <<>> /\ tmp = Dec!Empty /\ Flushed
      <3> DEFINE P == tmp = Dec!Empty /\ Flushed
      <3>1. \A i \in 1..Len(unzipped) : unzipped[i].last => i = Len(unzipped) /\ P
        BY DEF IInv, LastOK
      <3> HIDE DEF P
      <3>2. /\ \A i \in 1..Len(unzipped') : unzipped'[i].last => i = Len(unzipped') /\ P
            /\ Head(unzipped).last => unzipped' = <<>> /\ P
        BY <1>3, <3>1, LastOfTail DEF IInv, DecTypes
      <3>3. QED
        BY <3>2 DEF P
    <2>3. DecTypes'
      BY <1>1, <1>3, <2>1 DEF IInv, DecTypes
    <2>4. AroundOK' /\ WrapperOK'
      BY <1>1, <1>3, <2>1, <2>2 DEF IInv, AroundOK, WrapperOK, Flushed
    <2>5. LastOK'
      BY <1>1, <1>3, <2>2 DEF IInv, LastOK, Flushed
    <2>6. PageOK'
      <3>1. CASE Head(unzipped).last
        BY <1>1, <1>3, <2>2, <3>1 DEF IInv, PageOK, Flushed, DecTypes
      <3>2. CASE ~Head(unzipped).last
        BY <1>1, <1>3, <2>1, <3>2 DEF IInv, PageOK
      <3>3. QED
        BY <3>1, <3>2
    <2>7. QED
      BY <2>3, <2>4, <2>5, <2>6 DEF IInv
  <1>4. QED
    BY <1>2, <1>3 DEF Dec!Multiplex

-----------------------------------------------------------------------------
(* The wrapper.                                                            *)

\* A databeat goes into the wrapper.
LEMMA LoadKeeps ==
  ASSUME IInv, Dec!Load, UNCHANGED work
  PROVE  IInv'
  <1>1. /\ demuxing /\ Compressed /\ reset_counter = 0 /\ in_data = Dec!Empty
        /\ demuxing' = ~Head(input).last /\ input' = Tail(input)
        /\ in_data' = [beat |-> Head(input), index |-> 0]
        /\ input_paused' = (input_paused \/ Head(input).last) /\ input # <<>>
    BY DEF Dec!Load, Dec!Demultiplex, Dec!InReady, Compressed
  <1>2. /\ UNCHANGED <<conf, muxing, bypass, unzipped, unzip, inner, tmp, reset_counter>>
        /\ (Compressed' <=> Compressed)
    BY DEF Dec!Load, Compressed, Dec!Page
  <1>3. Head(input) \in Databeat /\ Tail(input) \in Seq(Databeat)
    BY <1>1, TailElements DEF IInv, DecTypes
  <1>4. Head(input).last \in BOOLEAN /\ in_data'.beat = Head(input)
        /\ in_data' \in [beat : Databeat, index : Int]
    BY <1>1, <1>3, SMTT(60) DEF Databeat
  <1>5. DecTypes'
    BY <1>1, <1>2, <1>3, <1>4 DEF IInv, DecTypes
  <1>6. AroundOK' /\ LastOK'
    BY <1>1, <1>2 DEF IInv, AroundOK, LastOK, Flushed
  <1>7. WrapperOK'
    <2>1. ~unzip.ended
      BY <1>1 DEF IInv, WrapperOK
    <2>2. in_data'.beat.last => ~demuxing' /\ input_paused'
      BY <1>1, <1>4
    <2>3. QED
      BY <1>1, <1>2, <2>1, <2>2 DEF WrapperOK
  <1>8. PageOK'
    BY <1>1, <1>2 DEF IInv, PageOK, AroundOK
  <1>9. QED
    BY <1>5, <1>6, <1>7, <1>8 DEF IInv

\* vhsnunzip is fed.
LEMMA FeedKeeps ==
  ASSUME IInv, Dec!Feed, UNCHANGED work
  PROVE  IInv'
  <1> DEFINE co_last == Dec!CoLast(in_data.beat, in_data.index)
  <1>1. /\ reset_counter = 0 /\ in_data # Dec!Empty /\ ~unzip.ended
        /\ \/ in_data' = Dec!Empty
           \/ ~co_last /\ in_data' = [in_data EXCEPT !.index = in_data.index + 1]
        /\ unzip' = [unzip EXCEPT !.fed = TRUE, !.ended = co_last]
        /\ co_last => in_data' = Dec!Empty
    BY DEF Dec!Feed
  <1>2. /\ UNCHANGED <<input, conf, demuxing, muxing, bypass, unzipped, inner, tmp, input_paused, reset_counter>>
        /\ (Compressed' <=> Compressed)
    BY DEF Dec!Feed, Dec!mux_vars, Compressed, Dec!Page
  <1>3. co_last \in BOOLEAN /\ (co_last => in_data.beat.last)
    BY DEF Dec!CoLast
  <1>4. in_data \in [beat : Databeat, index : Int] /\ unzip \in [fed : BOOLEAN, ended : BOOLEAN, given : Nat]
    BY <1>1 DEF IInv, DecTypes
  <1> HIDE DEF co_last
  <1>5. /\ unzip' \in [fed : BOOLEAN, ended : BOOLEAN, given : Nat] /\ unzip'.fed = TRUE
        /\ unzip'.ended = co_last
    BY <1>1, <1>3, <1>4
  <1>6. in_data' # Dec!Empty => in_data' \in [beat : Databeat, index : Int] /\ in_data'.beat = in_data.beat
    BY <1>1, <1>4
  <1>7. DecTypes'
    BY <1>1, <1>2, <1>5, <1>6 DEF IInv, DecTypes
  <1>8. AroundOK' /\ LastOK'
    BY <1>1, <1>2 DEF IInv, AroundOK, LastOK, Flushed
  <1>9. WrapperOK'
    BY <1>1, <1>2, <1>3, <1>5, <1>6 DEF IInv, WrapperOK
  <1>10. PageOK'
    BY <1>1, <1>2, <1>5 DEF IInv, PageOK, WrapperOK
  <1>11. QED
    BY <1>7, <1>8, <1>9, <1>10 DEF IInv

\* vhsnunzip gives a databeat.
LEMMA UnzipKeeps ==
  ASSUME IInv, Dec!Unzip, UNCHANGED work
  PROVE  IInv'
  <1>1. PICK last \in BOOLEAN, ghost \in BOOLEAN :
          /\ reset_counter = 0 /\ inner = Dec!Empty /\ unzip.fed /\ (last => unzip.ended)
          /\ unzip' = [unzip EXCEPT !.given = unzip.given + 1]
          /\ inner' = [page |-> conf, k |-> unzip.given + 1, last |-> last, ghost |-> ghost]
    BY DEF Dec!Unzip
  <1>2. /\ UNCHANGED <<input, conf, demuxing, muxing, bypass, unzipped, in_data, tmp, input_paused, reset_counter>>
        /\ (Compressed' <=> Compressed)
    BY DEF Dec!Unzip, Dec!mux_vars, Compressed, Dec!Page
  <1>3. unzip \in [fed : BOOLEAN, ended : BOOLEAN, given : Nat] /\ conf \in Nat
    BY DEF IInv, DecTypes
  <1>4. /\ unzip' \in [fed : BOOLEAN, ended : BOOLEAN, given : Nat] /\ unzip'.fed = unzip.fed
        /\ unzip'.ended = unzip.ended
        /\ inner' \in Unzipped /\ inner'.page = conf /\ inner'.last = last
    <2>1. /\ unzip.given + 1 \in Nat /\ unzip' \in [fed : BOOLEAN, ended : BOOLEAN, given : Nat]
          /\ unzip'.fed = unzip.fed /\ unzip'.ended = unzip.ended
      <3>1. PICK n : n = unzip.given + 1
        OBVIOUS
      <3>2. n \in Nat
        BY <1>3, <3>1
      <3>3. unzip' = [unzip EXCEPT !.given = n]
        BY <1>1, <3>1
      <3>4. QED
        BY <1>3, <3>1, <3>2, <3>3
    <2>2. inner' \in Unzipped /\ inner'.page = conf /\ inner'.last = last
      BY <1>1, <1>3, <2>1 DEF Unzipped
    <2>3. QED
      BY <2>1, <2>2
  <1>5. DecTypes'
    BY <1>2, <1>4 DEF IInv, DecTypes
  <1>6. AroundOK' /\ LastOK'
    BY <1>1, <1>2 DEF IInv, AroundOK, LastOK, Flushed
  <1>7. WrapperOK'
    BY <1>1, <1>2, <1>4 DEF IInv, WrapperOK
  <1>8. PageOK'
    BY <1>1, <1>2, <1>4 DEF IInv, PageOK
  <1>9. QED
    BY <1>5, <1>6, <1>7, <1>8 DEF IInv

\* A cycle of the reset.
LEMMA ResetKeeps ==
  ASSUME IInv, Dec!Reset, UNCHANGED work
  PROVE  IInv'
  <1>1. /\ UNCHANGED <<input, conf, demuxing, muxing, bypass, unzipped, tmp>>
        /\ (Compressed' <=> Compressed)
    BY DEF Dec!Reset, Dec!mux_vars, Compressed, Dec!Page
  <1>2. /\ reset_counter > 0 /\ reset_counter' = reset_counter - 1
        /\ input_paused' \in BOOLEAN /\ in_data' = Dec!Empty /\ inner' = Dec!Empty
        /\ unzip' \in [fed : BOOLEAN, ended : BOOLEAN, given : Nat] /\ ~unzip'.fed /\ ~unzip'.ended
    BY DEF Dec!Reset, Dec!Idle
  <1>3. DecTypes'
    BY <1>1, <1>2 DEF IInv, DecTypes
  <1>4. AroundOK' /\ LastOK'
    BY <1>1, <1>2 DEF IInv, AroundOK, LastOK, Flushed
  <1>5. WrapperOK' /\ PageOK'
    BY <1>1, <1>2 DEF IInv, WrapperOK, PageOK
  <1>6. QED
    BY <1>3, <1>4, <1>5 DEF IInv

\* The reset that the last databeat of a page starts: all of the page was fed.
LEMMA LastStartsReset ==
  ASSUME IInv, Dec!TakeInner, inner # Dec!Empty,
         UNCHANGED <<demuxing, in_data, unzip>>
  PROVE  /\ inner' = Dec!Empty /\ reset_counter' \in 0..2 /\ reset_counter = 0
         /\ inner.last => reset_counter' = 2 /\ Flushed'
         /\ ~inner.last => reset_counter' = 0
         /\ reset_counter' > 0 => in_data = Dec!Empty
  <1>1. reset_counter = 0 /\ inner' = Dec!Empty
        /\ reset_counter' = IF input_paused /\ inner.last THEN 2 ELSE reset_counter
    BY DEF IInv, WrapperOK, DecTypes, Dec!TakeInner
  <1>2. inner.last => in_data = Dec!Empty /\ ~demuxing /\ input_paused
    BY <1>1 DEF IInv, PageOK, WrapperOK
  <1>3. QED
    BY <1>1, <1>2 DEF Flushed

\* A databeat is held back in tmp.
LEMMA FillTmpKeeps ==
  ASSUME IInv, Dec!FillTmp, UNCHANGED work
  PROVE  IInv'
  <1>1. /\ UNCHANGED <<input, conf, demuxing, muxing, bypass, unzipped, in_data, unzip, input_paused>>
        /\ (Compressed' <=> Compressed) /\ tmp = Dec!Empty /\ inner # Dec!Empty /\ Dec!TakeInner
    BY DEF Dec!FillTmp, Dec!mux_vars, Compressed, Dec!Page
  <1>2. tmp' = Dec!Empty \/ tmp' = inner
    BY <1>1 DEF Dec!TakeInner
  <1>3. inner \in Unzipped /\ inner.last \in BOOLEAN
    BY <1>1 DEF IInv, DecTypes, Unzipped
  <1>4. /\ inner' = Dec!Empty /\ reset_counter' \in 0..2 /\ reset_counter = 0
        /\ inner.last => reset_counter' = 2 /\ Flushed'
        /\ ~inner.last => reset_counter' = 0
        /\ reset_counter' > 0 => in_data = Dec!Empty
    BY <1>1, LastStartsReset
  <1>5. DecTypes'
    BY <1>1, <1>2, <1>3, <1>4 DEF IInv, DecTypes
  <1>6. AroundOK' /\ WrapperOK'
    BY <1>1, <1>4 DEF IInv, AroundOK, WrapperOK
  <1>7. PageOK'
    BY <1>1, <1>2, <1>4 DEF IInv, PageOK
  <1>8. \A i \in 1..Len(unzipped) : ~unzipped[i].last
    BY <1>1 DEF IInv, LastOK, Flushed
  <1>9. LastOK'
    BY <1>1, <1>2, <1>4, <1>8 DEF LastOK
  <1>10. QED
    BY <1>5, <1>6, <1>7, <1>9 DEF IInv

\* A databeat leaves tmp.
LEMMA PutTmpKeeps ==
  ASSUME IInv, Dec!PutTmp, UNCHANGED work
  PROVE  IInv'
  <1> DEFINE put == [page |-> tmp.page, k |-> tmp.k, last |-> Dec!OutLast]
  <1>1. /\ UNCHANGED <<input, conf, demuxing, muxing, bypass, in_data, unzip, input_paused>>
        /\ (Compressed' <=> Compressed) /\ tmp # Dec!Empty /\ (tmp.last \/ inner # Dec!Empty)
        /\ unzipped' = Append(unzipped, put)
    BY DEF Dec!PutTmp, Dec!mux_vars, Compressed, Dec!Page
  <1>2. tmp \in Unzipped /\ put \in Databeat /\ (put.last <=> tmp.last \/ Dec!IsGhost)
    BY <1>1 DEF IInv, DecTypes, Unzipped, Databeat, Dec!OutLast, Dec!IsGhost
  <1> HIDE DEF put
  <1>3. \A i \in 1..Len(unzipped) : ~unzipped[i].last
    BY <1>1 DEF IInv, LastOK
  <1>4. unzipped' \in Seq(Databeat)
    BY <1>1, <1>2, AppendElements DEF IInv, DecTypes
  <1>5. CASE inner # Dec!Empty
    <2>1. Dec!TakeInner /\ ~tmp.last
      BY <1>1, <1>5 DEF Dec!PutTmp, IInv, LastOK, Flushed
    <2>2. /\ inner' = Dec!Empty /\ reset_counter' \in 0..2 /\ reset_counter = 0
          /\ inner.last => reset_counter' = 2 /\ Flushed'
          /\ ~inner.last => reset_counter' = 0
          /\ reset_counter' > 0 => in_data = Dec!Empty
      BY <1>1, <1>5, <2>1, LastStartsReset
    <2>3. inner \in Unzipped /\ (tmp' = Dec!Empty \/ tmp' = inner) /\ (Dec!IsGhost => tmp' = Dec!Empty /\ inner.last)
      BY <1>5, <2>1 DEF IInv, DecTypes, Dec!TakeInner, Dec!IsGhost
    <2>4. DecTypes'
      BY <1>1, <1>4, <2>2, <2>3 DEF IInv, DecTypes
    <2>5. AroundOK' /\ WrapperOK'
      BY <1>1, <2>2 DEF IInv, AroundOK, WrapperOK
    <2>6. PageOK'
      BY <1>1, <1>5, <2>2, <2>3 DEF IInv, PageOK
    <2>7. put.last => tmp' = Dec!Empty /\ Flushed'
      BY <1>2, <2>1, <2>2, <2>3
    <2>8. \A i \in 1..Len(unzipped') : unzipped'[i].last => i = Len(unzipped') /\ (tmp' = Dec!Empty /\ Flushed')
      <3> DEFINE P == tmp' = Dec!Empty /\ Flushed'
      <3>1. put.last => P
        BY <2>7
      <3> HIDE DEF P
      <3>2. \A i \in 1..Len(unzipped') : unzipped'[i].last => i = Len(unzipped') /\ P
        BY <1>1, <1>2, <1>3, <3>1, LastOfAppend DEF IInv, DecTypes
      <3>3. QED
        BY <3>2 DEF P
    <2>9. LastOK'
      BY <1>5, <2>2, <2>3, <2>8 DEF LastOK
    <2>10. QED
      BY <2>4, <2>5, <2>6, <2>9 DEF IInv
  <1>6. CASE inner = Dec!Empty
    <2>1. tmp' = Dec!Empty /\ inner' = inner /\ reset_counter' = reset_counter /\ tmp.last
      BY <1>1, <1>6 DEF Dec!PutTmp
    <2>2. Flushed /\ Flushed'
      BY <1>1, <2>1 DEF IInv, LastOK, Flushed
    <2>3. DecTypes'
      BY <1>1, <1>4, <2>1 DEF IInv, DecTypes
    <2>4. AroundOK' /\ WrapperOK'
      BY <1>1, <2>1 DEF IInv, AroundOK, WrapperOK
    <2>5. PageOK'
      BY <1>1, <1>6, <2>1 DEF IInv, PageOK
    <2>6. \A i \in 1..Len(unzipped') : unzipped'[i].last => i = Len(unzipped')
      <3>1. put.last => TRUE
        OBVIOUS
      <3>2. QED
        BY <1>1, <1>2, <1>3, <3>1, LastOfAppend DEF IInv, DecTypes
    <2>7. LastOK'
      BY <2>1, <2>2, <2>6 DEF LastOK
    <2>8. QED
      BY <2>3, <2>4, <2>5, <2>7 DEF IInv
  <1>7. QED
    BY <1>5, <1>6

-----------------------------------------------------------------------------
(* The input of the Decompressor.                                          *)

IsInput(ps, b) == b.page \in 1..Len(ps) /\ b.k \in 1..ps[b.page].beats /\ (b.last <=> b.k = ps[b.page].beats)
Follows(a, b)  == IF a.last THEN b.page = a.page + 1 /\ b.k = 1 ELSE b.page = a.page /\ b.k = a.k + 1
InRow(ps, q) ==
  /\ \A i \in 1..Len(q) : IsInput(ps, q[i])
  /\ \A i \in 1..(Len(q) - 1) : Follows(q[i], q[i + 1])

\* f is the function that InputOf defines, for the first n pages.
PageInput(ps, i) == [k \in 1..ps[i].beats |-> [page |-> i, k |-> k, last |-> k = ps[i].beats]]
Makes(f, ps, n)  == f = [i \in 0..n |-> IF i = 0 THEN <<>> ELSE f[i - 1] \o PageInput(ps, i)]

\* InputOf is the function that the definition gives,
LEMMA MakesAt ==
  ASSUME NEW f, NEW ps, NEW n \in Nat, Makes(f, ps, n), NEW i \in 0..n
  PROVE  f[i] = IF i = 0 THEN <<>> ELSE f[i - 1] \o PageInput(ps, i)
BY Zenon DEF Makes

\* and there is one.
LEMMA MakesExists ==
  ASSUME NEW ps, NEW n \in Nat
  PROVE  \E f : Makes(f, ps, n)
  <1> DEFINE I == {m \in Nat : \E f : Makes(f, ps, m)}
  <1>1. 0 \in I
    <2>1. PICK f : f = [i \in 0..0 |-> <<>>]
      OBVIOUS
    <2>2. \A i \in 0..0 : i = 0
      OBVIOUS
    <2>3. f = [i \in 0..0 |-> IF i = 0 THEN <<>> ELSE f[i - 1] \o PageInput(ps, i)]
      BY <2>1, <2>2
    <2>4. QED
      BY <2>3 DEF Makes
  <1>2. ASSUME NEW m \in Nat, m \in I PROVE m + 1 \in I
    <2>1. PICK f : Makes(f, ps, m)
      BY <1>2
    <2>2. PICK g : g = [i \in 0..(m + 1) |-> IF i = 0 THEN <<>> ELSE f[i - 1] \o PageInput(ps, i)]
      OBVIOUS
    <2>3. \A i \in 0..m : g[i] = f[i]
      <3>1. SUFFICES ASSUME NEW i \in 0..m PROVE g[i] = f[i]
        OBVIOUS
      <3>2. i \in 0..(m + 1)
        OBVIOUS
      <3>3. g[i] = IF i = 0 THEN <<>> ELSE f[i - 1] \o PageInput(ps, i)
        BY <2>2, <3>2, Zenon
      <3>4. QED
        BY <2>1, <3>3, MakesAt
    <2>4. \A i \in 0..(m + 1) : i # 0 => i - 1 \in 0..m
      OBVIOUS
    <2>5. Makes(g, ps, m + 1)
      BY <2>2, <2>3, <2>4 DEF Makes
    <2>6. QED
      BY <2>5
  <1> HIDE DEF I
  <1>3. n \in I
    BY <1>1, <1>2, NatSetInduction
  <1>4. QED
    BY <1>3 DEF I

\* The elements of two queues, one behind the other.
LEMMA Concatenated ==
  ASSUME NEW B, NEW q \in Seq(B), NEW g \in Seq(B)
  PROVE  /\ q \o g \in Seq(B) /\ Len(q \o g) = Len(q) + Len(g) /\ Len(q) \in Nat /\ Len(g) \in Nat
         /\ \A i \in 1..Len(q) : (q \o g)[i] = q[i]
         /\ \A i \in 1..Len(g) : (q \o g)[Len(q) + i] = g[i]
OBVIOUS

\* The input of the first n pages.
InputUpTo(ps, q, n) ==
  /\ q \in Seq(Databeat) /\ InRow(ps, q)
  /\ n = 0 => q = <<>>
  /\ n # 0 => q # <<>> /\ q[1].page = 1 /\ q[1].k = 1 /\ q[Len(q)].page = n /\ q[Len(q)].last

\* The databeats of one page are in their row.
LEMMA PageInputInRow ==
  ASSUME NEW ps, NEW n \in Nat, n + 1 <= Len(ps), ps[n + 1].beats \in Nat \ {0}, Len(ps) \in Nat
  PROVE  LET g == PageInput(ps, n + 1) IN
         /\ g \in Seq(Databeat) /\ InRow(ps, g) /\ Len(g) = ps[n + 1].beats
         /\ g[1].page = n + 1 /\ g[1].k = 1
         /\ g[Len(g)].page = n + 1 /\ g[Len(g)].last
  <1>1. PICK p \in Nat, m \in Nat : p = n + 1 /\ m = ps[p].beats /\ m >= 1
    OBVIOUS
  <1> DEFINE beat(k) == [page |-> p, k |-> k, last |-> k = m]
             g == [k \in 1..m |-> beat(k)]
  <1>2. \A k \in 1..m : beat(k) \in Databeat
    BY DEF Databeat
  <1>3. g \in Seq(Databeat) /\ Len(g) = m
    BY <1>2
  <1>4. \A k \in 1..m : g[k] = beat(k)
    OBVIOUS
  <1> HIDE DEF g
  <1>5. ASSUME NEW k \in 1..m PROVE g[k].page = p /\ g[k].k = k /\ (g[k].last <=> k = m)
    <2>1. g[k] = [page |-> p, k |-> k, last |-> k = m]
      BY <1>4
    <2>2. g[k].page = p /\ g[k].k = k
      BY <2>1
    <2>3. PICK e \in BOOLEAN : e = (k = m)
      BY Zenon
    <2>4. g[k] = [page |-> p, k |-> k, last |-> e]
      BY <2>1, <2>3, Zenon
    <2>5. g[k].last = e
      BY <2>4
    <2>6. QED
      BY <2>2, <2>3, <2>5
  <1>6. InRow(ps, g)
    <2>1. \A k \in 1..m : IsInput(ps, g[k])
      BY <1>1, <1>5 DEF IsInput
    <2>2. ASSUME NEW k \in 1..(m - 1) PROVE Follows(g[k], g[k + 1])
      <3>1. k \in 1..m /\ k + 1 \in 1..m /\ k # m
        OBVIOUS
      <3>2. QED
        BY <1>5, <3>1 DEF Follows
    <2>3. QED
      BY <1>3, <2>1, <2>2 DEF InRow
  <1>7. 1 \in 1..m /\ m \in 1..m
    BY <1>1
  <1>8. g[1].page = p /\ g[1].k = 1 /\ g[m].page = p /\ g[m].last
    BY <1>5, <1>7
  <1>9. PageInput(ps, n + 1) = g
    BY <1>1 DEF PageInput, g
  <1>10. QED
    BY <1>1, <1>3, <1>6, <1>8, <1>9

\* The databeats of the next page go on where those before end.
LEMMA InputExtends ==
  ASSUME NEW ps, Len(ps) \in Nat, NEW n \in Nat, n + 1 <= Len(ps), ps[n + 1].beats \in Nat \ {0},
         NEW q, InputUpTo(ps, q, n)
  PROVE  InputUpTo(ps, q \o PageInput(ps, n + 1), n + 1)
  <1>1. PICK g : g = PageInput(ps, n + 1)
    OBVIOUS
  <1>2. /\ g \in Seq(Databeat) /\ InRow(ps, g) /\ Len(g) \in Nat \ {0}
        /\ g[1].page = n + 1 /\ g[1].k = 1
        /\ g[Len(g)].page = n + 1 /\ g[Len(g)].last
    BY <1>1, PageInputInRow
  <1>3. q \in Seq(Databeat) /\ InRow(ps, q)
    BY DEF InputUpTo
  <1>4. PICK r : r = q \o g
    OBVIOUS
  <1>5. PICK a \in Nat : a = Len(q)
    BY <1>3
  <1>6. PICK b \in Nat : b = Len(g) /\ b >= 1
    BY <1>2
  <1>7. /\ r \in Seq(Databeat) /\ Len(r) = a + b
        /\ \A i \in 1..a : r[i] = q[i]
        /\ \A i \in 1..b : r[a + i] = g[i]
    BY <1>2, <1>3, <1>4, <1>5, <1>6, Concatenated
  <1>8. r[a + 1] = g[1] /\ r[a + b] = g[b]
    BY <1>4, <1>5, <1>6, <1>7
  <1>9. InRow(ps, r)
    <2>1. ASSUME NEW i \in 1..(a + b) PROVE IsInput(ps, r[i])
      <3>1. CASE i \in 1..a
        BY <1>3, <1>4, <1>5, <1>6, <1>7, <3>1 DEF InRow
      <3>2. CASE ~(i \in 1..a)
        <4>1. PICK h \in 1..b : i = a + h
          <5>1. i - a \in 1..b /\ i = a + (i - a)
            BY <3>2
          <5>2. QED
            BY <5>1
        <4>2. r[i] = g[h] /\ IsInput(ps, g[h])
          BY <1>2, <1>4, <1>5, <1>6, <1>7, <4>1 DEF InRow
        <4>3. QED
          BY <4>2
      <3>3. QED
        BY <3>1, <3>2
    <2>2. ASSUME NEW i \in 1..(a + b - 1) PROVE Follows(r[i], r[i + 1])
      <3>1. CASE i < a
        <4>1. i \in 1..(a - 1) /\ i \in 1..a /\ i + 1 \in 1..a
          BY <3>1
        <4>2. Follows(q[i], q[i + 1])
          BY <1>3, <1>4, <1>5, <1>6, <4>1 DEF InRow
        <4>3. QED
          BY <1>7, <4>1, <4>2
      <3>2. CASE i = a
        <4>1. a \in 1..a /\ n # 0
          BY <1>4, <1>5, <1>6, <3>2 DEF InputUpTo
        <4>2. q[a].page = n /\ q[a].last
          BY <1>4, <1>5, <1>6, <4>1 DEF InputUpTo
        <4>3. r[i] = q[a] /\ r[i + 1] = g[1]
          BY <1>7, <1>8, <3>2, <4>1
        <4>4. QED
          BY <1>2, <4>2, <4>3 DEF Follows
      <3>3. CASE i > a
        <4>1. PICK h \in 1..(b - 1) : i = a + h /\ h \in 1..b /\ h + 1 \in 1..b /\ i + 1 = a + (h + 1)
          <5>1. i - a \in 1..(b - 1) /\ i = a + (i - a)
            BY <3>3
          <5>2. QED
            BY <5>1
        <4>2. Follows(g[h], g[h + 1])
          BY <1>2, <1>4, <1>5, <1>6 DEF InRow
        <4>3. r[i] = g[h] /\ r[i + 1] = g[h + 1]
          BY <1>7, <4>1
        <4>4. QED
          BY <4>2, <4>3
      <3>4. QED
        BY <3>1, <3>2, <3>3
    <2>3. QED
      BY <1>7, <2>1, <2>2 DEF InRow
  <1>10. r[1].page = 1 /\ r[1].k = 1
    <2>1. CASE n = 0
      <3>1. a = 0
        BY <1>4, <1>5, <1>6, <2>1 DEF InputUpTo
      <3>2. QED
        BY <1>2, <1>8, <2>1, <3>1
    <2>2. CASE n # 0
      <3>1. 1 \in 1..a /\ q[1].page = 1 /\ q[1].k = 1
        BY <1>3, <1>4, <1>5, <1>6, <2>2 DEF InputUpTo
      <3>2. QED
        BY <1>7, <3>1
    <2>3. QED
      BY <2>1, <2>2
  <1>11. r # <<>> /\ r[Len(r)].page = n + 1 /\ r[Len(r)].last
    BY <1>2, <1>4, <1>5, <1>6, <1>7, <1>8
  <1>12. InputUpTo(ps, r, n + 1)
    BY <1>7, <1>9, <1>10, <1>11 DEF InputUpTo
  <1>13. QED
    BY <1>1, <1>4, <1>5, <1>6, <1>12

\* What is read of memory are the databeats of all pages in their order.
LEMMA InputInRow ==
  ASSUME NEW ps, Len(ps) \in Nat, \A p \in 1..Len(ps) : ps[p].beats \in Nat \ {0}
  PROVE  InputUpTo(ps, Dec!InputOf(ps), Len(ps))
  <1> DEFINE f == CHOOSE g : Makes(g, ps, Len(ps))
             I == {n \in Nat : n <= Len(ps) => InputUpTo(ps, f[n], n)}
  <1>1. Makes(f, ps, Len(ps))
    BY MakesExists
  <1>2. Dec!InputOf(ps) = f[Len(ps)]
    BY Zenon DEF Dec!InputOf, Makes, PageInput
  <1> HIDE DEF f
  <1>3. 0 \in I
    <2>1. f[0] = <<>>
      BY <1>1, MakesAt
    <2>2. <<>> \in Seq(Databeat) /\ Len(<<>>) = 0
      OBVIOUS
    <2>3. InputUpTo(ps, <<>>, 0)
      BY <2>2 DEF InputUpTo, InRow
    <2>4. QED
      BY <2>1, <2>3
  <1>4. ASSUME NEW n \in Nat, n \in I PROVE n + 1 \in I
    <2>1. SUFFICES ASSUME n + 1 <= Len(ps) PROVE InputUpTo(ps, f[n + 1], n + 1)
      OBVIOUS
    <2>2. InputUpTo(ps, f[n], n)
      BY <1>4, <2>1
    <2>3. ps[n + 1].beats \in Nat \ {0}
      BY <2>1
    <2>4. f[n + 1] = f[n] \o PageInput(ps, n + 1)
      <3>1. PICK i \in 0..Len(ps) : i = n + 1 /\ i # 0 /\ i - 1 = n
        BY <2>1
      <3>2. f[i] = f[i - 1] \o PageInput(ps, i)
        BY <1>1, <3>1, MakesAt
      <3>3. QED
        BY <3>1, <3>2
    <2>5. InputUpTo(ps, f[n] \o PageInput(ps, n + 1), n + 1)
      BY <2>1, <2>2, <2>3, InputExtends
    <2>6. QED
      BY <2>4, <2>5
  <1> HIDE DEF I
  <1>5. Len(ps) \in I
    BY <1>3, <1>4, NatSetInduction
  <1>6. InputUpTo(ps, f[Len(ps)], Len(ps))
    BY <1>5 DEF I
  <1>7. QED
    BY <1>2, <1>6

-----------------------------------------------------------------------------
(* Where the databeats of a page are in the Decompressor. r of all         *)
(* databeats have left it.                                                 *)

Held(x) == IF x = Dec!Empty THEN 0 ELSE 1
Given   == IF unzip.fed /\ reset_counter = 0 THEN unzip.given ELSE 0

SelectPlace(r) ==
  /\ conf \in 0..Len(work.pages)
  /\ ~muxing => r = BeatsDone(work, conf)
  /\ muxing => conf # 0 /\ work.layout[conf].before <= r /\ r < BeatsDone(work, conf)

InputPlace ==
  /\ InRow(work.pages, input)
  /\ input # <<>> => IF demuxing THEN Head(input).page = conf ELSE Head(input).page = conf + 1 /\ Head(input).k = 1

InQueue(q, r) == Row(NumberedBeats(work), q, r) /\ \A i \in 1..Len(q) : q[i].page = conf

RawPlace(r) ==
  /\ InQueue(bypass, r)
  /\ muxing /\ ~Compressed =>
       IF demuxing
       THEN /\ r + Len(bypass) < BeatsDone(work, conf)
            /\ input # <<>> => work.layout[conf].before + Head(input).k = r + Len(bypass) + 1
       ELSE r + Len(bypass) = BeatsDone(work, conf)

\* Of the b databeats of a page, n have left the wrapper. vhsnunzip gives l, which are one
\* more if it ends with an empty one.
UnderWay(n)  == Given = n + Held(tmp) + Held(inner) /\ (tmp = Dec!Empty => n = 0)
AllOut(n, b) == Given = 0 /\ n + Held(tmp) = b /\ Flushed /\ (tmp # Dec!Empty => tmp.last)
WrapperPlace(n, b, l) ==
  /\ tmp # Dec!Empty => tmp.k = n + 1 /\ tmp.k <= b /\ (tmp.last <=> tmp.k = l)
  /\ inner # Dec!Empty => /\ inner.k = n + Held(tmp) + 1 /\ inner.k <= l
                          /\ (inner.last <=> inner.k = l) /\ (inner.ghost <=> inner.k = b + 1)
  /\ UnderWay(n) \/ AllOut(n, b)

Lasting == Beats(work, conf) + (IF work.pages[conf].ghost THEN 1 ELSE 0)
SnappyPlace(r) ==
  /\ InQueue(unzipped, r)
  /\ ~unzip.fed => unzip.given = 0
  /\ muxing /\ Compressed =>
       WrapperPlace(r + Len(unzipped) - work.layout[conf].before, Beats(work, conf), Lasting)

Left(r) == SelectPlace(r) /\ InputPlace /\ RawPlace(r) /\ SnappyPlace(r)

\* A register holds one databeat or none.
LEMMA NothingHeld ==
  /\ \A x : Held(x) \in {0, 1} /\ (Held(x) = 0 <=> x = Dec!Empty)
  /\ Held(Dec!Empty) = 0
BY DEF Held

\* What vhsnunzip gives is a databeat.
LEMMA UnzippedBeat ==
  ASSUME NEW x \in Unzipped
  PROVE  x # Dec!Empty /\ x.page \in Nat /\ x.k \in Nat /\ x.last \in BOOLEAN /\ x.ghost \in BOOLEAN
BY DEF Unzipped, Dec!Empty

\* vhsnunzip gives the next databeat.
LEMMA UnzipPlace ==
  ASSUME IInv, IInv', Dec!Unzip, NEW n \in Nat, NEW b \in Nat, NEW l \in Nat, b >= 1,
         Dec!Page.outs = b, Dec!Page.ghost \in BOOLEAN, l = b + (IF Dec!Page.ghost THEN 1 ELSE 0),
         WrapperPlace(n, b, l)
  PROVE  WrapperPlace(n, b, l)' /\ (~unzip'.fed => unzip'.given = 0)
  <1>1. /\ reset_counter = 0 /\ inner = Dec!Empty /\ unzip.fed /\ tmp' = tmp /\ reset_counter' = reset_counter
        /\ unzip' = [unzip EXCEPT !.given = unzip.given + 1]
        /\ inner' = [page |-> conf, k |-> unzip.given + 1,
                     last |-> unzip.given + 1 = b + (IF Dec!Page.ghost THEN 1 ELSE 0),
                     ghost |-> unzip.given + 1 = b + 1]
        /\ unzip.given + 1 <= b \/ (Dec!Page.ghost /\ unzip.given + 1 = b + 1)
    BY DEF Dec!Unzip
  <1>2. unzip \in [fed : BOOLEAN, ended : BOOLEAN, given : Nat]
    BY DEF IInv, DecTypes
  <1>3. PICK k \in Nat : k = unzip.given + 1
    BY <1>2
  <1>4. unzip'.fed /\ unzip'.given = k
    BY <1>1, <1>2, <1>3
  <1>5. ~Flushed
    BY <1>1 DEF Flushed
  <1>6. Given = unzip.given /\ Given' = k
    BY <1>1, <1>4 DEF Given
  <1>7. unzip.given = n + Held(tmp) /\ (tmp = Dec!Empty => n = 0)
    <2>1. UnderWay(n)
      BY <1>5 DEF WrapperPlace, AllOut
    <2>2. Held(inner) = 0 /\ Held(tmp) \in {0, 1}
      BY <1>1, NothingHeld
    <2>3. QED
      BY <1>6, <2>1, <2>2 DEF UnderWay
  <1>8. PICK last \in BOOLEAN, ghost \in BOOLEAN : last = (k = l) /\ ghost = (k = b + 1)
    BY Zenon
  <1>9. inner' = [page |-> conf, k |-> k, last |-> last, ghost |-> ghost]
    BY <1>1, <1>3, <1>8
  <1>10. inner' # Dec!Empty /\ inner'.k = k /\ inner'.last = last /\ inner'.ghost = ghost
    BY <1>9 DEF Dec!Empty
  <1>11. k <= l
    BY <1>1, <1>3
  <1>12. k = n + Held(tmp) + 1 /\ Held(tmp') = Held(tmp) /\ Held(inner') = 1 /\ Held(tmp) \in {0, 1}
    BY <1>1, <1>2, <1>3, <1>7, <1>10, NothingHeld
  <1>13. UnderWay(n)'
    BY <1>1, <1>6, <1>7, <1>12 DEF UnderWay
  <1>14. QED
    BY <1>1, <1>4, <1>8, <1>10, <1>11, <1>12, <1>13 DEF WrapperPlace

\* Feeding vhsnunzip moves no databeat that it has given.
LEMMA FeedPlace ==
  ASSUME IInv, Dec!Feed, NEW n \in Nat, NEW b \in Nat, NEW l \in Nat,
         WrapperPlace(n, b, l), ~unzip.fed => unzip.given = 0
  PROVE  WrapperPlace(n, b, l)' /\ (~unzip'.fed => unzip'.given = 0)
  <1>1. /\ reset_counter = 0 /\ in_data # Dec!Empty
        /\ UNCHANGED <<tmp, inner, reset_counter>>
        /\ unzip' = [unzip EXCEPT !.fed = TRUE, !.ended = Dec!CoLast(in_data.beat, in_data.index)]
    BY DEF Dec!Feed
  <1>2. unzip \in [fed : BOOLEAN, ended : BOOLEAN, given : Nat]
    BY DEF IInv, DecTypes
  <1>3. unzip'.fed /\ unzip'.given = unzip.given
    BY <1>1, <1>2
  <1>4. Given' = Given
    BY <1>1, <1>3 DEF Given
  <1>5. UnderWay(n)
    BY <1>1 DEF WrapperPlace, AllOut, Flushed
  <1>6. UnderWay(n)'
    BY <1>1, <1>4, <1>5 DEF UnderWay
  <1>7. QED
    BY <1>1, <1>3, <1>6 DEF WrapperPlace

\* Nor does a databeat that goes into the wrapper.
LEMMA LoadPlace ==
  ASSUME Dec!Load, NEW n, NEW b, NEW l, WrapperPlace(n, b, l)
  PROVE  WrapperPlace(n, b, l)'
  <1>1. /\ demuxing /\ UNCHANGED <<tmp, inner, reset_counter, unzip>>
    BY DEF Dec!Load, Dec!Demultiplex
  <1>2. UnderWay(n)
    BY <1>1 DEF WrapperPlace, AllOut, Flushed
  <1>3. UnderWay(n)'
    BY <1>1, <1>2 DEF UnderWay, Given
  <1>4. QED
    BY <1>1, <1>3 DEF WrapperPlace

\* The reset finds all of the page out of the wrapper.
LEMMA ResetPlace ==
  ASSUME IInv, Dec!Reset, NEW n, NEW b, NEW l, WrapperPlace(n, b, l)
  PROVE  WrapperPlace(n, b, l)' /\ (~unzip'.fed => unzip'.given = 0)
  <1>1. /\ reset_counter > 0 /\ UNCHANGED <<tmp, demuxing>> /\ inner' = Dec!Empty /\ in_data' = Dec!Empty
        /\ unzip'.fed = FALSE /\ unzip'.given = 0
    BY DEF Dec!Reset, Dec!mux_vars, Dec!Idle
  <1>2. inner = Dec!Empty
    BY <1>1 DEF IInv, WrapperOK
  <1>3. reset_counter # 0
    BY <1>1 DEF IInv, DecTypes
  <1>4. Given = 0 /\ Given' = 0
    BY <1>1, <1>3 DEF Given
  <1>5. UnderWay(n) => UnderWay(n)'
    BY <1>1, <1>2, <1>4 DEF UnderWay
  <1>6. AllOut(n, b) => AllOut(n, b)'
    BY <1>1, <1>4 DEF AllOut, Flushed
  <1>7. QED
    BY <1>1, <1>5, <1>6 DEF WrapperPlace

\* The last databeat that vhsnunzip gives leaves the internal wrapper, or another does.
LEMMA TakenPlace ==
  ASSUME IInv, Dec!TakeInner, inner # Dec!Empty, UNCHANGED <<demuxing, in_data, unzip>>,
         NEW n \in Nat, NEW b \in Nat, NEW l \in {b, b + 1},
         inner.k = n + 1, inner.k <= l, inner.last <=> inner.k = l, inner.ghost <=> inner.k = b + 1,
         Given = n + 1
  PROVE  LET taken == n + Held(tmp') IN
         /\ inner' = Dec!Empty /\ (Dec!IsGhost => tmp' = Dec!Empty /\ n = b)
         /\ ~Dec!IsGhost => tmp' # Dec!Empty /\ tmp'.k = n + 1 /\ tmp'.k <= b /\ (tmp'.last <=> tmp'.k = l)
         /\ inner.last => Given' = 0 /\ taken = b /\ Flushed' /\ (tmp' # Dec!Empty => tmp'.last)
         /\ ~inner.last => Given' = n + 1 /\ tmp' # Dec!Empty
  <1>1. inner \in Unzipped
    BY DEF IInv, DecTypes
  <1>2. /\ inner # Dec!Empty /\ inner.last \in BOOLEAN /\ inner.ghost \in BOOLEAN
    BY <1>1, UnzippedBeat
  <1>3. /\ inner' = Dec!Empty /\ reset_counter = 0
        /\ inner.last => reset_counter' = 2 /\ Flushed'
        /\ ~inner.last => reset_counter' = 0
    BY LastStartsReset
  <1>4. tmp' = IF Dec!IsGhost THEN Dec!Empty ELSE inner
    BY DEF Dec!TakeInner
  <1>5. Dec!IsGhost <=> inner.k = b + 1
    BY DEF Dec!IsGhost
  <1>6. inner.last => Given' = 0
    BY <1>3 DEF Given
  <1>7. ~inner.last => Given' = Given
    BY <1>3 DEF Given
  <1>8. CASE Dec!IsGhost
    <2>1. tmp' = Dec!Empty /\ n = b /\ inner.last
      BY <1>4, <1>5, <1>8 DEF Dec!IsGhost
    <2>2. Held(tmp') = 0
      BY <2>1, NothingHeld
    <2>3. QED
      BY <1>3, <1>6, <1>8, <2>1, <2>2
  <1>9. CASE ~Dec!IsGhost
    <2>1. tmp' = inner /\ tmp' # Dec!Empty /\ n + 1 <= b
      BY <1>2, <1>4, <1>5, <1>9
    <2>2. Held(tmp') = 1
      BY <2>1, NothingHeld
    <2>3. QED
      BY <1>2, <1>3, <1>6, <1>7, <1>9, <2>1, <2>2
  <1>10. QED
    BY <1>8, <1>9

\* A databeat is held back until the next tells whether it was the last.
LEMMA FillTmpPlace ==
  ASSUME IInv, Dec!FillTmp, NEW n \in Nat, NEW b \in Nat, b >= 1, NEW l \in {b, b + 1}, WrapperPlace(n, b, l)
  PROVE  WrapperPlace(n, b, l)'
  <1>1. /\ tmp = Dec!Empty /\ inner # Dec!Empty /\ Dec!TakeInner /\ UNCHANGED <<demuxing, in_data, unzip>>
    BY DEF Dec!FillTmp, Dec!mux_vars
  <1>2. Held(tmp) = 0 /\ Held(inner) = 1
    BY <1>1, NothingHeld
  <1>3. UnderWay(n)
    BY <1>1 DEF WrapperPlace, AllOut, Flushed
  <1>4. n = 0 /\ Given = n + 1
    BY <1>1, <1>2, <1>3 DEF UnderWay
  <1>5. inner.k = n + 1 /\ inner.k <= l /\ (inner.last <=> inner.k = l) /\ (inner.ghost <=> inner.k = b + 1)
    BY <1>1, <1>2 DEF WrapperPlace
  <1>6. /\ inner' = Dec!Empty /\ (Dec!IsGhost => tmp' = Dec!Empty /\ n = b)
        /\ ~Dec!IsGhost => tmp' # Dec!Empty /\ tmp'.k = n + 1 /\ tmp'.k <= b /\ (tmp'.last <=> tmp'.k = l)
        /\ inner.last => Given' = 0 /\ n + Held(tmp') = b /\ Flushed' /\ (tmp' # Dec!Empty => tmp'.last)
        /\ ~inner.last => Given' = n + 1 /\ tmp' # Dec!Empty
    BY <1>1, <1>4, <1>5, TakenPlace
  <1>7. ~Dec!IsGhost
    BY <1>4, <1>6
  <1>8. Held(tmp') = 1 /\ Held(inner') = 0 /\ tmp' # Dec!Empty
    BY <1>6, <1>7, NothingHeld
  <1>9. CASE inner.last
    <2>1. AllOut(n, b)'
      BY <1>6, <1>9 DEF AllOut
    <2>2. QED
      BY <1>6, <1>7, <2>1 DEF WrapperPlace
  <1>10. CASE ~inner.last
    <2>1. UnderWay(n)'
      BY <1>6, <1>8, <1>10 DEF UnderWay
    <2>2. QED
      BY <1>6, <1>7, <2>1 DEF WrapperPlace
  <1>11. QED
    BY <1>9, <1>10

\* tmp is passed on as the next databeat of the page.
LEMMA PutTmpPlace ==
  ASSUME IInv, Dec!PutTmp, NEW n \in Nat, NEW b \in Nat, b >= 1, NEW l \in {b, b + 1}, WrapperPlace(n, b, l)
  PROVE  /\ WrapperPlace(n + 1, b, l)' /\ UNCHANGED unzip
         /\ unzipped' = Append(unzipped, [page |-> tmp.page, k |-> tmp.k, last |-> Dec!OutLast])
         /\ tmp.k = n + 1 /\ tmp.k <= b /\ (Dec!OutLast <=> tmp.k = b) /\ tmp \in Unzipped
  <1>1. /\ tmp # Dec!Empty /\ (tmp.last \/ inner # Dec!Empty) /\ UNCHANGED <<demuxing, in_data, unzip>>
        /\ unzipped' = Append(unzipped, [page |-> tmp.page, k |-> tmp.k, last |-> Dec!OutLast])
    BY DEF Dec!PutTmp, Dec!mux_vars
  <1>2. tmp \in Unzipped /\ Held(tmp) = 1
    BY <1>1, NothingHeld DEF IInv, DecTypes
  <1>3. tmp.k = n + 1 /\ tmp.k <= b /\ (tmp.last <=> tmp.k = l)
    BY <1>1 DEF WrapperPlace
  <1>4. CASE inner # Dec!Empty
    <2>1. Dec!TakeInner /\ ~tmp.last
      BY <1>1, <1>4 DEF Dec!PutTmp, IInv, LastOK, Flushed
    <2>2. Held(inner) = 1 /\ UnderWay(n)
      BY <1>4, NothingHeld DEF WrapperPlace, AllOut, Flushed
    <2>3. Given = n + 2
      BY <1>2, <2>2 DEF UnderWay
    <2>4. /\ inner.k = n + 2 /\ inner.k <= l /\ (inner.last <=> inner.k = l) /\ (inner.ghost <=> inner.k = b + 1)
      BY <1>2, <1>4 DEF WrapperPlace
    <2>5. PICK m \in Nat : m = n + 1 /\ m + 1 = n + 2
      OBVIOUS
    <2>6. /\ inner' = Dec!Empty /\ (Dec!IsGhost => tmp' = Dec!Empty /\ m = b)
          /\ ~Dec!IsGhost => tmp' # Dec!Empty /\ tmp'.k = m + 1 /\ tmp'.k <= b /\ (tmp'.last <=> tmp'.k = l)
          /\ inner.last => Given' = 0 /\ m + Held(tmp') = b /\ Flushed' /\ (tmp' # Dec!Empty => tmp'.last)
          /\ ~inner.last => Given' = m + 1 /\ tmp' # Dec!Empty
      BY <1>1, <1>4, <2>1, <2>3, <2>4, <2>5, TakenPlace
    <2>7. Dec!OutLast <=> tmp.k = b
      <3>1. Dec!OutLast <=> Dec!IsGhost
        BY <2>1 DEF Dec!OutLast
      <3>2. Dec!IsGhost => m = b
        BY <2>6
      <3>3. n + 1 = b => Dec!IsGhost
        <4>1. n + 1 = b => inner.k = b + 1 /\ inner.k = l
          BY <2>4
        <4>2. QED
          BY <1>4, <2>4, <4>1 DEF Dec!IsGhost
      <3>4. QED
        BY <1>3, <2>5, <3>1, <3>2, <3>3
    <2>8. Held(inner') = 0 /\ (tmp' # Dec!Empty => Held(tmp') = 1) /\ (tmp' = Dec!Empty => Held(tmp') = 0)
      BY <2>6, NothingHeld
    <2>9. CASE inner.last
      <3>1. AllOut(m, b)'
        BY <2>6, <2>9 DEF AllOut
      <3>2. WrapperPlace(m, b, l)'
        BY <2>6, <3>1 DEF WrapperPlace
      <3>3. QED
        BY <1>1, <1>2, <1>3, <2>5, <2>7, <3>2
    <2>10. CASE ~inner.last
      <3>1. UnderWay(m)'
        BY <2>6, <2>8, <2>10 DEF UnderWay
      <3>2. WrapperPlace(m, b, l)'
        BY <2>6, <3>1 DEF WrapperPlace
      <3>3. QED
        BY <1>1, <1>2, <1>3, <2>5, <2>7, <3>2
    <2>11. QED
      BY <2>9, <2>10
  <1>5. CASE inner = Dec!Empty
    <2>1. tmp' = Dec!Empty /\ inner' = inner /\ reset_counter' = reset_counter /\ tmp.last
      BY <1>1, <1>5 DEF Dec!PutTmp
    <2>2. Flushed /\ Flushed' /\ Given' = Given
      BY <1>1, <2>1 DEF IInv, LastOK, Flushed, Given
    <2>3. Given = 0
      BY <2>2 DEF Flushed, Given
    <2>4. AllOut(n, b)
      <3>1. ~UnderWay(n)
        <4>1. Held(inner) = 0
          BY <1>5, NothingHeld
        <4>2. QED
          BY <1>2, <2>3, <4>1 DEF UnderWay
      <3>2. QED
        BY <3>1 DEF WrapperPlace
    <2>5. n + 1 = b
      BY <1>2, <2>4 DEF AllOut
    <2>6. Dec!OutLast <=> tmp.k = b
      BY <1>3, <2>1, <2>5 DEF Dec!OutLast
    <2>7. Held(tmp') = 0
      BY <2>1, NothingHeld
    <2>8. AllOut(n + 1, b)'
      BY <2>1, <2>2, <2>3, <2>5, <2>7 DEF AllOut
    <2>9. WrapperPlace(n + 1, b, l)'
      BY <1>5, <2>1, <2>8 DEF WrapperPlace
    <2>10. QED
      BY <1>1, <1>2, <1>3, <2>6, <2>9
  <1>6. QED
    BY <1>4, <1>5

\* The next databeat of the input is taken.
LEMMA InputTaken ==
  ASSUME input \in Seq(Databeat), InputPlace, demuxing, input # <<>>, input' = Tail(input),
         demuxing' = ~Head(input).last, UNCHANGED <<conf, work>>
  PROVE  /\ InputPlace' /\ Head(input) \in Databeat /\ IsInput(work.pages, Head(input)) /\ Head(input).page = conf
         /\ input' # <<>> /\ ~Head(input).last => Head(input').k = Head(input).k + 1
  <1>1. /\ Head(input) \in Databeat /\ Head(input) = input[1] /\ Tail(input) \in Seq(Databeat)
        /\ Len(input) \in Nat \ {0} /\ Len(Tail(input)) = Len(input) - 1
        /\ \A i \in 1..(Len(input) - 1) : Tail(input)[i] = input[i + 1]
    BY TailElements
  <1>2. /\ \A i \in 1..Len(input) : IsInput(work.pages, input[i])
        /\ \A i \in 1..(Len(input) - 1) : Follows(input[i], input[i + 1])
        /\ Head(input).page = conf
    BY DEF InputPlace, InRow
  <1>3. Head(input).last \in BOOLEAN /\ IsInput(work.pages, Head(input))
    BY <1>1, <1>2 DEF Databeat
  <1>4. InRow(work.pages, Tail(input))
    <2>1. \A i \in 1..(Len(input) - 1) : IsInput(work.pages, Tail(input)[i])
      BY <1>1, <1>2
    <2>2. ASSUME NEW i \in 1..(Len(input) - 2) PROVE Follows(Tail(input)[i], Tail(input)[i + 1])
      <3>1. /\ i \in 1..(Len(input) - 1) /\ i + 1 \in 1..(Len(input) - 1)
        BY <1>1
      <3>2. Tail(input)[i] = input[i + 1] /\ Tail(input)[i + 1] = input[(i + 1) + 1]
        BY <1>1, <3>1
      <3>3. QED
        BY <1>2, <3>1, <3>2
    <2>3. Len(Tail(input)) - 1 = Len(input) - 2
      BY <1>1
    <2>4. QED
      BY <1>1, <2>1, <2>2, <2>3 DEF InRow
  <1>5. ASSUME Tail(input) # <<>> PROVE Follows(Head(input), Head(Tail(input)))
    <2>1. Len(Tail(input)) \in Nat \ {0} /\ Head(Tail(input)) = Tail(input)[1]
      BY <1>1, <1>5
    <2>2. 1 \in 1..(Len(input) - 1)
      BY <1>1, <2>1
    <2>3. Head(Tail(input)) = input[1 + 1] /\ Follows(input[1], input[1 + 1])
      BY <1>1, <1>2, <2>1, <2>2
    <2>4. QED
      BY <1>1, <2>3
  <1>6. InputPlace'
    BY <1>2, <1>3, <1>4, <1>5 DEF InputPlace, Follows
  <1>7. QED
    BY <1>1, <1>2, <1>3, <1>5, <1>6 DEF Follows

\* What is needed of the page that the selectors are for.
LEMMA ConfFacts ==
  ASSUME WellFormed(work), conf \in 0..Len(work.pages), conf # 0
  PROVE  /\ conf \in Pages(work) /\ Beats(work, conf) \in Nat /\ Beats(work, conf) >= 1
         /\ work.layout[conf].before \in Nat /\ Dec!Page.ghost \in BOOLEAN /\ Dec!Page = work.pages[conf]
         /\ BeatsDone(work, conf) = work.layout[conf].before + Beats(work, conf)
         /\ (Compressed => Dec!Page.outs = Beats(work, conf))
         /\ (~Compressed => Dec!Page.beats = Beats(work, conf))
         /\ Lasting = Beats(work, conf) + (IF Dec!Page.ghost THEN 1 ELSE 0)
         /\ Lasting \in Nat /\ Lasting \in {Beats(work, conf), Beats(work, conf) + 1}
  <1>1. conf \in Pages(work)
    BY DEF Pages, WellFormed
  <1>2. Dec!Page = work.pages[conf]
    BY DEF Dec!Page
  <1>3. /\ Beats(work, conf) \in Nat /\ Beats(work, conf) >= 1 /\ work.layout[conf].before \in Nat
        /\ (work.pages[conf].compression # "SNAPPY" => work.pages[conf].beats = Beats(work, conf))
        /\ (work.pages[conf].compression = "SNAPPY" => work.pages[conf].outs = Beats(work, conf))
        /\ work.pages[conf].ghost \in BOOLEAN
    BY <1>1, PageFacts
  <1>4. BeatsDone(work, conf) = work.layout[conf].before + Beats(work, conf)
    BY DEF BeatsDone
  <1>5. Lasting = Beats(work, conf) + (IF Dec!Page.ghost THEN 1 ELSE 0)
    BY <1>2 DEF Lasting
  <1>6. Lasting \in Nat /\ Lasting \in {Beats(work, conf), Beats(work, conf) + 1}
    BY <1>3, <1>5
  <1>7. QED
    BY <1>1, <1>2, <1>3, <1>4, <1>5, <1>6 DEF Compressed

\* The selectors go to the next page once the one before is out.
LEMMA TakeConfPlace ==
  ASSUME WellFormed(work), IInv, Dec!TakeConf, UNCHANGED work, NEW r \in Nat, Left(r)
  PROVE  Left(r)'
  <1>1. /\ in_data = Dec!Empty /\ inner = Dec!Empty /\ tmp = Dec!Empty /\ unzipped = <<>>
        /\ bypass = <<>> /\ (unzip.fed => reset_counter > 0)
    BY DEF IInv, Dec!TakeConf, PageOK, AroundOK, DecTypes
  <1>2. UNCHANGED <<input, bypass, unzipped, in_data, unzip, inner, tmp, input_paused, reset_counter>>
        /\ demuxing' = TRUE /\ muxing' = TRUE /\ conf' = conf + 1 /\ ~demuxing /\ ~muxing /\ conf < Len(work.pages)
    BY DEF Dec!TakeConf, Dec!wrapper_vars
  <1>3. conf \in Nat /\ Len(work.pages) \in Nat /\ r = BeatsDone(work, conf) /\ reset_counter \in 0..2
    BY <1>2 DEF Left, SelectPlace, IInv, DecTypes, WellFormed
  <1>4. PICK p \in Pages(work) : p = conf + 1 /\ conf' = p /\ p # 0 /\ p \in 0..Len(work.pages) /\ work.layout[p].before = r
    BY <1>2, <1>3, NextPage DEF Pages
  <1>5. Beats(work, p) \in Nat /\ Beats(work, p) >= 1 /\ BeatsDone(work, p) = r + Beats(work, p)
    BY <1>4, PageFacts DEF BeatsDone
  <1>6. SelectPlace(r)'
    BY <1>2, <1>4, <1>5 DEF SelectPlace
  <1>7. InputPlace' /\ (input' # <<>> => Head(input').k = 1)
    BY <1>2, <1>4 DEF Left, InputPlace
  <1>8. Len(<<>>) = 0 /\ InQueue(<<>>, r) /\ InQueue(<<>>, r)'
    BY RowEmpty DEF InQueue
  <1>9. RawPlace(r)'
    <2>1. r + Len(bypass') < BeatsDone(work', conf')
      BY <1>1, <1>2, <1>4, <1>5, <1>8
    <2>2. input' # <<>> => work'.layout[conf'].before + Head(input').k = r + Len(bypass') + 1
      BY <1>1, <1>2, <1>4, <1>7, <1>8
    <2>3. QED
      BY <1>1, <1>2, <1>8, <2>1, <2>2 DEF RawPlace
  <1>10. SnappyPlace(r)'
    <2>1. Held(tmp') = 0 /\ Held(inner') = 0
      BY <1>1, <1>2, NothingHeld
    <2>2. Given' = 0
      BY <1>1, <1>2, <1>3 DEF Given
    <2>3. UnderWay(0)'
      BY <1>1, <1>2, <2>1, <2>2 DEF UnderWay
    <2>4. r + Len(unzipped') - work'.layout[conf'].before = 0
      BY <1>1, <1>2, <1>4, <1>8
    <2>5. WrapperPlace(0, Beats(work, conf), Lasting)'
      BY <1>1, <1>2, <2>3 DEF WrapperPlace
    <2>6. QED
      BY <1>1, <1>2, <1>8, <2>4, <2>5 DEF SnappyPlace, Left
  <1>11. QED
    BY <1>6, <1>7, <1>9, <1>10 DEF Left

\* A databeat of a raw page waits in the bypass.
LEMMA AroundPlace ==
  ASSUME WellFormed(work), IInv, Dec!Around, UNCHANGED work, NEW r \in Nat, Left(r)
  PROVE  Left(r)'
  <1>1. /\ demuxing /\ ~Compressed /\ input # <<>> /\ demuxing' = ~Head(input).last /\ input' = Tail(input)
        /\ bypass' = Append(bypass, Head(input)) /\ muxing
        /\ UNCHANGED <<conf, muxing, unzipped, in_data, unzip, inner, tmp, input_paused, reset_counter>>
        /\ (Compressed' <=> Compressed)
    BY DEF Dec!Around, Dec!Demultiplex, Compressed, Dec!wrapper_vars, Dec!Page, IInv, AroundOK
  <1>2. input \in Seq(Databeat) /\ bypass \in Seq(Databeat) /\ Len(bypass) \in Nat
    BY DEF IInv, DecTypes
  <1>3. /\ InputPlace' /\ Head(input) \in Databeat /\ IsInput(work.pages, Head(input)) /\ Head(input).page = conf
        /\ input' # <<>> /\ ~Head(input).last => Head(input').k = Head(input).k + 1
    BY <1>1, <1>2, InputTaken DEF Left
  <1>4. conf \in 0..Len(work.pages) /\ conf # 0
    BY <1>1 DEF Left, SelectPlace
  <1>5. /\ conf \in Pages(work) /\ Beats(work, conf) \in Nat /\ work.layout[conf].before \in Nat
        /\ BeatsDone(work, conf) = work.layout[conf].before + Beats(work, conf)
        /\ work.pages[conf].beats = Beats(work, conf)
    BY <1>1, <1>4, ConfFacts
  <1>6. PICK x \in Databeat, k \in Nat, n \in Nat :
          /\ x = Head(input) /\ k = x.k /\ n = r + Len(bypass) + 1
    <2>1. PICK n \in Nat : n = r + Len(bypass) + 1
      BY <1>2
    <2>2. PICK x \in Databeat : x = Head(input)
      BY <1>3
    <2>3. x.k \in Nat
      BY DEF Databeat
    <2>4. QED
      BY <2>1, <2>2, <2>3
  <1>7. work.layout[conf].before + k = n /\ n <= BeatsDone(work, conf)
    BY <1>1, <1>2, <1>5, <1>6 DEF Left, RawPlace
  <1>8. k \in 1..Beats(work, conf) /\ (x.last <=> k = Beats(work, conf)) /\ x.page = conf /\ x.last \in BOOLEAN
    BY <1>3, <1>5, <1>6 DEF IsInput, Databeat
  <1>9. IsBeat(work, x, n)
    BY <1>5, <1>6, <1>7, <1>8 DEF IsBeat
  <1>10. <<x, n>> \in NumberedBeats(work)
    BY <1>9, BeatNumber
  <1>11. InQueue(bypass, r)'
    <2>1. Row(NumberedBeats(work), bypass, r) /\ \A i \in 1..Len(bypass) : bypass[i].page = conf
      BY DEF Left, RawPlace, InQueue
    <2>2. Row(NumberedBeats(work), Append(bypass, x), r)
      BY <1>2, <1>6, <1>10, <2>1, RowAppend
    <2>3. \A i \in 1..Len(Append(bypass, x)) : Append(bypass, x)[i].page = conf
      BY <1>2, <1>8, <2>1, AppendElements
    <2>4. QED
      BY <1>1, <1>6, <2>2, <2>3 DEF InQueue
  <1>12. Len(bypass') = Len(bypass) + 1
    BY <1>1, <1>2, <1>3, AppendElements
  <1>13. RawPlace(r)'
    <2>1. CASE x.last
      <3>1. r + Len(bypass') = BeatsDone(work', conf')
        BY <1>1, <1>2, <1>5, <1>6, <1>7, <1>8, <1>12, <2>1
      <3>2. ~demuxing'
        BY <1>1, <1>6, <2>1
      <3>3. QED
        BY <1>11, <3>1, <3>2 DEF RawPlace
    <2>2. CASE ~x.last
      <3>1. r + Len(bypass') < BeatsDone(work', conf')
        <4>1. PICK f \in Nat, t \in Nat, u \in Nat :
                f = work.layout[conf].before /\ t = Beats(work, conf) /\ u = Len(bypass)
          BY <1>2, <1>5
        <4>2. n = r + u + 1 /\ f + k = n /\ n <= f + t /\ k # t
          BY <1>5, <1>6, <1>7, <1>8, <2>2, <4>1, Zenon
        <4>3. f \in Nat /\ t \in Nat /\ u \in Nat /\ k \in Nat
          BY <1>6, <4>1
        <4>4. r + (u + 1) < f + t
          BY <4>2, <4>3
        <4>5. Len(bypass') = u + 1 /\ BeatsDone(work', conf') = f + t
          BY <1>1, <1>5, <1>12, <4>1
        <4>6. QED
          BY <4>4, <4>5, Zenon
      <3>2. input' # <<>> => work'.layout[conf'].before + Head(input').k = r + Len(bypass') + 1
        <4>1. input' # <<>> => Head(input').k = k + 1
          BY <1>3, <1>6, <2>2
        <4>2. work'.layout[conf'].before = work.layout[conf].before
          BY <1>1
        <4>3. r + Len(bypass') + 1 = n + 1
          BY <1>2, <1>6, <1>12
        <4>4. PICK f \in Nat : f = work.layout[conf].before /\ f + k = n
          BY <1>5, <1>7
        <4>5. f \in Nat /\ k \in Nat /\ n \in Nat
          BY <1>6, <4>4
        <4>6. f + (k + 1) = n + 1
          <5>1. f + k = n
            BY <4>4, Zenon
          <5>2. QED
            BY <4>5, <5>1
        <4>7. QED
          BY <4>1, <4>2, <4>3, <4>4, <4>6, Zenon
      <3>3. demuxing'
        BY <1>1, <1>6, <2>2
      <3>4. QED
        BY <1>11, <3>1, <3>2, <3>3 DEF RawPlace
    <2>3. QED
      BY <2>1, <2>2
  <1>14. SelectPlace(r)'
    BY <1>1 DEF Left, SelectPlace
  <1>15. SnappyPlace(r)'
    BY <1>1 DEF Left, SnappyPlace, InQueue
  <1>16. QED
    BY <1>3, <1>13, <1>14, <1>15 DEF Left

\* What the wrapper does leaves the rest alone.
LEMMA WrapperPlaces ==
  ASSUME WellFormed(work), IInv, IInv', UNCHANGED work, NEW r \in Nat, Left(r),
         Dec!Feed \/ Dec!Unzip \/ Dec!FillTmp \/ Dec!PutTmp \/ Dec!Reset
  PROVE  Left(r)'
  <1>1. UNCHANGED <<input, conf, demuxing, muxing, bypass>> /\ (Compressed' <=> Compressed)
    BY DEF Dec!Feed, Dec!Unzip, Dec!FillTmp, Dec!PutTmp, Dec!Reset, Dec!mux_vars, Compressed, Dec!Page
  <1>2. SelectPlace(r)' /\ InputPlace' /\ RawPlace(r)'
    BY <1>1 DEF Left, SelectPlace, InputPlace, RawPlace, InQueue
  <1>3. /\ InQueue(unzipped, r) /\ (~unzip.fed => unzip.given = 0)
        /\ unzipped \in Seq(Databeat) /\ Len(unzipped) \in Nat
    BY DEF Left, SnappyPlace, IInv, DecTypes
  <1>4. CASE ~(muxing /\ Compressed)
    <2>1. unzipped' = unzipped /\ (~unzip'.fed => unzip'.given = 0)
      <3>1. in_data = Dec!Empty /\ inner = Dec!Empty /\ tmp = Dec!Empty /\ (unzip.fed => reset_counter # 0)
        BY <1>4 DEF IInv, PageOK
      <3>2. Dec!Reset
        BY <3>1 DEF Dec!Feed, Dec!Unzip, Dec!FillTmp, Dec!PutTmp
      <3>3. QED
        BY <3>2 DEF Dec!Reset, Dec!Idle
    <2>2. SnappyPlace(r)'
      BY <1>1, <1>3, <1>4, <2>1 DEF SnappyPlace, InQueue
    <2>3. QED
      BY <1>2, <2>2 DEF Left
  <1>5. CASE muxing /\ Compressed
    <2>1. conf \in 0..Len(work.pages) /\ conf # 0 /\ work.layout[conf].before <= r
      BY <1>5 DEF Left, SelectPlace
    <2>2. PICK b \in Nat, l \in Nat, n \in Nat :
            /\ b = Beats(work, conf) /\ l = Lasting /\ n = r + Len(unzipped) - work.layout[conf].before
            /\ b >= 1 /\ l \in {b, b + 1} /\ Dec!Page.outs = b /\ Dec!Page.ghost \in BOOLEAN
            /\ l = b + (IF Dec!Page.ghost THEN 1 ELSE 0)
            /\ conf \in Pages(work) /\ work.layout[conf].before \in Nat
      <3>1. r + Len(unzipped) - work.layout[conf].before \in Nat
        <4>1. PICK u \in Nat, f \in Nat : u = Len(unzipped) /\ f = work.layout[conf].before
          BY <1>3, <2>1, ConfFacts
        <4>2. u \in Nat /\ f \in Nat /\ f <= r
          BY <2>1, <4>1
        <4>3. r + u - f \in Nat
          BY <4>2
        <4>4. QED
          BY <4>1, <4>3, Zenon
      <3>2. QED
        BY <1>5, <2>1, <3>1, ConfFacts
    <2>3. WrapperPlace(n, b, l)
      BY <1>5, <2>2 DEF Left, SnappyPlace
    <2>4. b = Beats(work', conf') /\ l = Lasting' /\ work'.layout[conf'].before = work.layout[conf].before
      BY <1>1, <2>2 DEF Lasting
    <2>5. CASE ~Dec!PutTmp
      <3>1. unzipped' = unzipped
        BY <2>5 DEF Dec!Feed, Dec!Unzip, Dec!FillTmp, Dec!Reset
      <3>2. WrapperPlace(n, b, l)' /\ (~unzip'.fed => unzip'.given = 0)
        <4>1. Dec!FillTmp => unzip' = unzip
          BY DEF Dec!FillTmp
        <4>2. QED
          BY <1>3, <2>2, <2>3, <2>5, <4>1, FeedPlace, UnzipPlace, FillTmpPlace, ResetPlace
      <3>3. InQueue(unzipped, r)'
        BY <1>1, <1>3, <3>1 DEF InQueue
      <3>4. n = r + Len(unzipped') - work'.layout[conf'].before
        BY <2>2, <2>4, <3>1
      <3>5. SnappyPlace(r)'
        BY <2>4, <3>2, <3>3, <3>4 DEF SnappyPlace
      <3>6. QED
        BY <1>2, <3>5 DEF Left
    <2>6. CASE Dec!PutTmp
      <3>1. /\ WrapperPlace(n + 1, b, l)' /\ UNCHANGED unzip
            /\ unzipped' = Append(unzipped, [page |-> tmp.page, k |-> tmp.k, last |-> Dec!OutLast])
            /\ tmp.k = n + 1 /\ tmp.k <= b /\ (Dec!OutLast <=> tmp.k = b) /\ tmp \in Unzipped
        BY <2>2, <2>3, <2>6, PutTmpPlace
      <3>2. tmp.page = conf
        BY <2>6 DEF Dec!PutTmp, IInv, PageOK
      <3>3. PICK x : x = [page |-> tmp.page, k |-> tmp.k, last |-> Dec!OutLast]
        OBVIOUS
      <3>4. PICK last \in BOOLEAN : last = Dec!OutLast
        BY UnzippedBeat, <3>1 DEF Dec!OutLast, Dec!IsGhost
      <3>5. x = [page |-> conf, k |-> n + 1, last |-> last]
        BY <3>1, <3>2, <3>3, <3>4
      <3>6. x \in Databeat /\ x.page = conf /\ x.k = n + 1 /\ (x.last <=> x.k = b)
        <4>1. conf \in Nat /\ n + 1 \in Nat
          BY DEF IInv, DecTypes
        <4>2. x \in Databeat /\ x.page = conf /\ x.k = n + 1 /\ x.last = last
          BY <3>5, <4>1 DEF Databeat
        <4>3. last <=> n + 1 = b
          BY <3>1, <3>4
        <4>4. QED
          BY <4>2, <4>3
      <3>7. IsBeat(work, x, r + Len(unzipped) + 1)
        <4>1. r + Len(unzipped) + 1 = work.layout[conf].before + (n + 1)
          <5>1. PICK u \in Nat, f \in Nat : u = Len(unzipped) /\ f = work.layout[conf].before /\ n = r + u - f
            BY <1>3, <2>2
          <5>2. u \in Nat /\ f \in Nat
            BY <5>1
          <5>3. r + u + 1 = f + ((r + u - f) + 1)
            BY <5>2
          <5>4. QED
            BY <5>1, <5>3, Zenon
        <4>2. n + 1 \in 1..b
          <5>1. n + 1 <= b
            BY <3>1
          <5>2. n \in Nat /\ b \in Nat
            BY <2>2
          <5>3. QED
            BY <5>1, <5>2
        <4>3. QED
          BY <2>2, <3>6, <4>1, <4>2 DEF IsBeat
      <3>8. <<x, r + Len(unzipped) + 1>> \in NumberedBeats(work)
        BY <1>3, <3>6, <3>7, BeatNumber
      <3>9. unzipped' = Append(unzipped, x) /\ Len(unzipped') = Len(unzipped) + 1
        BY <1>3, <3>1, <3>3, <3>6, AppendElements
      <3>10. Row(NumberedBeats(work), Append(unzipped, x), r)
        BY <1>3, <3>6, <3>8, RowAppend DEF InQueue
      <3>11. \A i \in 1..Len(Append(unzipped, x)) : Append(unzipped, x)[i].page = conf
        BY <1>3, <3>6, AppendElements DEF InQueue
      <3>12. InQueue(unzipped, r)'
        BY <1>1, <3>9, <3>10, <3>11 DEF InQueue
      <3>13. n + 1 = r + Len(unzipped') - work'.layout[conf'].before
        <4>1. PICK u \in Nat, f \in Nat : u = Len(unzipped) /\ f = work.layout[conf].before /\ n = r + u - f
          BY <1>3, <2>2
        <4>2. Len(unzipped') = u + 1 /\ work'.layout[conf'].before = f
          BY <2>4, <3>9, <4>1
        <4>3. (r + u - f) + 1 = r + (u + 1) - f
          <5>1. u \in Nat /\ f \in Nat
            BY <4>1
          <5>2. QED
            BY <5>1
        <4>4. QED
          BY <4>1, <4>2, <4>3, Zenon
      <3>14. SnappyPlace(r)'
        BY <1>3, <2>4, <3>1, <3>12, <3>13 DEF SnappyPlace
      <3>15. QED
        BY <1>2, <3>14 DEF Left
    <2>7. QED
      BY <2>5, <2>6
  <1>6. QED
    BY <1>4, <1>5

\* A databeat of a compressed page is taken into the wrapper.
LEMMA LoadLeft ==
  ASSUME WellFormed(work), IInv, Dec!Load, UNCHANGED work, NEW r \in Nat, Left(r)
  PROVE  Left(r)'
  <1>1. /\ demuxing /\ Compressed /\ input # <<>> /\ demuxing' = ~Head(input).last /\ input' = Tail(input)
        /\ UNCHANGED <<conf, muxing, bypass, unzipped, unzip, inner, tmp, reset_counter>>
        /\ (Compressed' <=> Compressed) /\ muxing
    BY DEF Dec!Load, Dec!Demultiplex, Compressed, Dec!Page, IInv, AroundOK
  <1>2. input \in Seq(Databeat)
    BY DEF IInv, DecTypes
  <1>3. InputPlace'
    BY <1>1, <1>2, InputTaken DEF Left
  <1>4. SelectPlace(r)' /\ RawPlace(r)'
    BY <1>1 DEF Left, SelectPlace, RawPlace, InQueue
  <1>5. PICK n, b, l : /\ n = r + Len(unzipped) - work.layout[conf].before /\ b = Beats(work, conf) /\ l = Lasting
    OBVIOUS
  <1>6. WrapperPlace(n, b, l)
    BY <1>1, <1>5 DEF Left, SnappyPlace
  <1>7. WrapperPlace(n, b, l)'
    BY <1>6, LoadPlace
  <1>8. n = r + Len(unzipped') - work'.layout[conf'].before /\ b = Beats(work', conf') /\ l = Lasting'
    BY <1>1, <1>5 DEF Lasting
  <1>9. SnappyPlace(r)'
    BY <1>1, <1>7, <1>8 DEF Left, SnappyPlace, InQueue
  <1>10. QED
    BY <1>3, <1>4, <1>9 DEF Left

\* The head of a queue leaves the multiplexer.
LEMMA HeadLeaves ==
  ASSUME WellFormed(work), NEW r \in Nat, SelectPlace(r), muxing, NEW q \in Seq(Databeat), q # <<>>, InQueue(q, r)
  PROVE  LET x == Head(q) IN
         /\ x \in Databeat /\ x.last \in BOOLEAN /\ IsBeat(work, x, r + 1) /\ <<x, r + 1>> \in NumberedBeats(work)
         /\ (x.last <=> r + 1 = BeatsDone(work, conf)) /\ r + 1 <= BeatsDone(work, conf)
         /\ InQueue(Tail(q), r + 1) /\ Tail(q) \in Seq(Databeat) /\ Len(q) \in Nat \ {0} /\ Len(Tail(q)) = Len(q) - 1
  <1>1. /\ <<Head(q), r + 1>> \in NumberedBeats(work) /\ Row(NumberedBeats(work), Tail(q), r + 1)
        /\ Head(q) \in Databeat /\ Tail(q) \in Seq(Databeat) /\ Len(q) \in Nat \ {0} /\ Len(Tail(q)) = Len(q) - 1
    BY RowTail DEF InQueue
  <1>2. Head(q).page = conf /\ \A i \in 1..Len(Tail(q)) : Tail(q)[i].page = conf
    <2>1. /\ Head(q) = q[1] /\ \A i \in 1..(Len(q) - 1) : Tail(q)[i] = q[i + 1]
      BY TailElements
    <2>2. \A i \in 1..Len(q) : q[i].page = conf
      BY DEF InQueue
    <2>3. ASSUME NEW i \in 1..Len(Tail(q)) PROVE Tail(q)[i].page = conf
      <3>1. i \in 1..(Len(q) - 1) /\ i + 1 \in 1..Len(q)
        BY <1>1
      <3>2. QED
        BY <2>1, <2>2, <3>1
    <2>4. QED
      BY <1>1, <2>1, <2>2, <2>3
  <1>3. PICK x \in Databeat, n \in Nat : x = Head(q) /\ n = r + 1
    BY <1>1
  <1>4. IsBeat(work, x, n)
    BY <1>1, <1>3, BeatNumber
  <1>5. x.last \in BOOLEAN /\ x.k \in Nat
    BY DEF Databeat
  <1>6. conf \in 0..Len(work.pages) /\ conf # 0
    BY DEF SelectPlace
  <1>7. /\ work.layout[conf].before \in Nat /\ Beats(work, conf) \in Nat
        /\ BeatsDone(work, conf) = work.layout[conf].before + Beats(work, conf)
    BY <1>6, ConfFacts
  <1>8. x.k \in 1..Beats(work, conf) /\ n = work.layout[conf].before + x.k /\ (x.last <=> x.k = Beats(work, conf))
    BY <1>2, <1>3, <1>4 DEF IsBeat
  <1>9. (x.last <=> n = BeatsDone(work, conf)) /\ n <= BeatsDone(work, conf)
    BY <1>5, <1>7, <1>8
  <1>10. InQueue(Tail(q), r + 1)
    BY <1>1, <1>2 DEF InQueue
  <1>11. QED
    BY <1>1, <1>3, <1>4, <1>5, <1>9, <1>10

\* The databeat that leaves through the multiplexer is the next of the workload.
LEMMA MultiplexPlace ==
  ASSUME WellFormed(work), IInv, Dec!Multiplex, UNCHANGED work, NEW r \in Nat, Left(r)
  PROVE  /\ Left(r + 1)'
         /\ \E x \in Databeat : decompressed' = Append(decompressed, x) /\ <<x, r + 1>> \in NumberedBeats(work)
  <1>1. /\ UNCHANGED <<input, conf, demuxing, in_data, unzip, inner, tmp, input_paused, reset_counter>>
        /\ (Compressed' <=> Compressed) /\ muxing
    BY DEF Dec!Multiplex, Dec!wrapper_vars, Compressed, Dec!Page
  <1>2. /\ SelectPlace(r) /\ InputPlace /\ InQueue(bypass, r) /\ InQueue(unzipped, r)
        /\ bypass \in Seq(Databeat) /\ unzipped \in Seq(Databeat)
    BY DEF Left, RawPlace, SnappyPlace, IInv, DecTypes
  <1>3. PICK n : n = r + 1
    OBVIOUS
  <1>4. conf \in 0..Len(work.pages) /\ conf # 0 /\ work.layout[conf].before <= r
    BY <1>1, <1>2 DEF SelectPlace
  <1>5. work.layout[conf].before \in Nat /\ BeatsDone(work, conf) \in Nat
    BY <1>4, ConfFacts
  <1>6. ASSUME NEW q \in Seq(Databeat), q # <<>>, InQueue(q, r), muxing' = ~Head(q).last
        PROVE  SelectPlace(r + 1)'
    <2>1. PICK last \in BOOLEAN : /\ last = Head(q).last
                                  /\ (last <=> n = BeatsDone(work, conf)) /\ n <= BeatsDone(work, conf)
      BY <1>1, <1>2, <1>3, <1>6, HeadLeaves
    <2>2. n \in Nat /\ work.layout[conf].before <= n
      BY <1>3, <1>4, <1>5
    <2>3. muxing' = ~last
      BY <1>6, <2>1
    <2>4. n = BeatsDone(work, conf) \/ n < BeatsDone(work, conf)
      BY <1>5, <2>1, <2>2
    <2>5. /\ ~muxing' => n = BeatsDone(work, conf)
          /\ muxing' => n < BeatsDone(work, conf)
      BY <1>5, <2>1, <2>2, <2>3, <2>4
    <2>6. SelectPlace(n)'
      BY <1>1, <1>4, <2>2, <2>5 DEF SelectPlace
    <2>7. QED
      BY <1>3, <2>6
  <1>7. InputPlace'
    BY <1>1, <1>2 DEF InputPlace
  <1>8. CASE /\ Dec!Page.compression = "RAW" /\ bypass # <<>> /\ muxing' = ~Head(bypass).last
             /\ bypass' = Tail(bypass) /\ unzipped' = unzipped /\ decompressed' = Append(decompressed, Head(bypass))
    <2>1. /\ Head(bypass) \in Databeat /\ <<Head(bypass), r + 1>> \in NumberedBeats(work)
          /\ InQueue(Tail(bypass), r + 1) /\ Len(bypass) \in Nat \ {0} /\ Len(Tail(bypass)) = Len(bypass) - 1
      BY <1>1, <1>2, <1>8, HeadLeaves
    <2>2. ~Compressed /\ SelectPlace(r + 1)'
      BY <1>2, <1>6, <1>8 DEF Compressed
    <2>3. (r + 1) + Len(bypass') = r + Len(bypass)
      BY <1>8, <2>1
    <2>4. RawPlace(r + 1)'
      <3>1. InQueue(bypass, r + 1)'
        BY <1>1, <1>8, <2>1 DEF InQueue
      <3>2. QED
        BY <1>1, <2>2, <2>3, <3>1 DEF Left, RawPlace
    <2>5. unzipped = <<>> /\ Len(<<>>) = 0
      BY <2>2 DEF IInv, PageOK
    <2>6. InQueue(unzipped, r + 1)'
      BY <1>8, <2>5, RowEmpty DEF InQueue
    <2>7. SnappyPlace(r + 1)'
      BY <1>1, <2>2, <2>6 DEF Left, SnappyPlace
    <2>8. QED
      BY <1>7, <1>8, <2>1, <2>2, <2>4, <2>7 DEF Left
  <1>9. CASE /\ Dec!Page.compression = "SNAPPY" /\ unzipped # <<>> /\ muxing' = ~Head(unzipped).last
             /\ unzipped' = Tail(unzipped) /\ bypass' = bypass /\ decompressed' = Append(decompressed, Head(unzipped))
    <2>1. /\ Head(unzipped) \in Databeat /\ <<Head(unzipped), r + 1>> \in NumberedBeats(work)
          /\ InQueue(Tail(unzipped), r + 1) /\ Len(unzipped) \in Nat \ {0} /\ Len(Tail(unzipped)) = Len(unzipped) - 1
      BY <1>1, <1>2, <1>9, HeadLeaves
    <2>2. Compressed /\ SelectPlace(r + 1)'
      BY <1>2, <1>6, <1>9 DEF Compressed
    <2>3. bypass = <<>> /\ Len(<<>>) = 0
      BY <2>2 DEF IInv, AroundOK
    <2>4. RawPlace(r + 1)'
      <3>1. InQueue(bypass, r + 1)'
        BY <1>9, <2>3, RowEmpty DEF InQueue
      <3>2. QED
        BY <1>1, <2>2, <3>1 DEF RawPlace
    <2>5. PICK m, b, l : m = r + Len(unzipped) - work.layout[conf].before /\ b = Beats(work, conf) /\ l = Lasting
      OBVIOUS
    <2>6. WrapperPlace(m, b, l)
      BY <1>1, <2>2, <2>5 DEF Left, SnappyPlace
    <2>7. WrapperPlace(m, b, l)'
      BY <1>1, <2>6 DEF WrapperPlace, UnderWay, AllOut, Given, Flushed
    <2>8. m = (r + 1) + Len(unzipped') - work'.layout[conf'].before /\ b = Beats(work', conf') /\ l = Lasting'
      <3>1. PICK u \in Nat : u = Len(unzipped) /\ Len(unzipped') = u - 1
        BY <1>9, <2>1
      <3>2. PICK f \in Nat : f = work.layout[conf].before /\ f = work'.layout[conf'].before
        BY <1>1, <1>5
      <3>3. m = r + u - f
        BY <2>5, <3>1, <3>2, Zenon
      <3>4. r + u - f = (r + 1) + (u - 1) - f
        OBVIOUS
      <3>5. QED
        BY <1>1, <2>5, <3>1, <3>2, <3>3, <3>4 DEF Lasting
    <2>9. InQueue(unzipped, r + 1)'
      BY <1>1, <1>9, <2>1 DEF InQueue
    <2>10. SnappyPlace(r + 1)'
      BY <1>1, <2>7, <2>8, <2>9 DEF Left, SnappyPlace
    <2>11. QED
      BY <1>7, <1>9, <2>1, <2>2, <2>4, <2>10 DEF Left
  <1>10. QED
    BY <1>8, <1>9 DEF Dec!Multiplex

\* d databeats have been taken by StripLevels.
DecPlace(d) ==
  /\ decompressed \in Seq(Databeat) /\ Row(NumberedBeats(work), decompressed, d)
  /\ Left(d + Len(decompressed))

\* At first nothing has left the Decompressor.
LEMMA DecInit ==
  ASSUME WellFormed(work), Dec!Init
  PROVE  DecPlace(0) /\ input \in Seq(Databeat)
  <1>1. /\ conf = 0 /\ ~muxing /\ ~demuxing /\ bypass = <<>> /\ unzipped = <<>> /\ unzip.given = 0 /\ decompressed = <<>>
        /\ input = Dec!InputOf(work.pages)
    BY DEF Dec!Init, Dec!Idle
  <1>2. PICK ps : ps = work.pages
    OBVIOUS
  <1>3. Len(ps) \in Nat /\ Len(ps) # 0 /\ \A p \in 1..Len(ps) : ps[p].beats \in Nat \ {0}
    <2>1. Len(ps) \in Nat \ {0}
      BY <1>2 DEF WellFormed
    <2>2. ASSUME NEW p \in 1..Len(ps) PROVE ps[p].beats \in Nat \ {0}
      BY <1>2, PageFacts DEF Pages
    <2>3. QED
      BY <2>1, <2>2
  <1>4. InputUpTo(ps, input, Len(ps))
    BY <1>1, <1>2, <1>3, InputInRow
  <1>5. input \in Seq(Databeat) /\ InRow(ps, input) /\ input # <<>> /\ input[1].page = 1 /\ input[1].k = 1
    BY <1>3, <1>4 DEF InputUpTo
  <1>6. Head(input) = input[1]
    BY <1>5
  <1>7. InputPlace
    BY <1>1, <1>2, <1>5, <1>6 DEF InputPlace
  <1>8. Len(<<>>) = 0 /\ <<>> \in Seq(Databeat) /\ InQueue(<<>>, 0) /\ Row(NumberedBeats(work), <<>>, 0)
    BY RowEmpty DEF InQueue
  <1>9. SelectPlace(0) /\ RawPlace(0) /\ SnappyPlace(0)
    BY <1>1, <1>2, <1>3, <1>8 DEF SelectPlace, RawPlace, SnappyPlace, BeatsDone
  <1>10. QED
    BY <1>1, <1>5, <1>7, <1>8, <1>9 DEF DecPlace, Left

\* What leaves the Decompressor are the databeats of the workload in their order.
LEMMA DecStep ==
  ASSUME WellFormed(work), IInv, IInv', Decompress, NEW d \in Nat, DecPlace(d)
  PROVE  DecPlace(d)'
  <1>1. UNCHANGED work
    BY DEF Decompress
  <1>2. decompressed \in Seq(Databeat) /\ Row(NumberedBeats(work), decompressed, d) /\ Len(decompressed) \in Nat
    BY DEF DecPlace
  <1>3. PICK r \in Nat : r = d + Len(decompressed) /\ Left(r)
    BY <1>2 DEF DecPlace
  <1>4. CASE Dec!Multiplex
    <2>1. /\ Left(r + 1)'
          /\ \E x \in Databeat : decompressed' = Append(decompressed, x) /\ <<x, r + 1>> \in NumberedBeats(work)
      BY <1>1, <1>3, <1>4, MultiplexPlace
    <2>2. PICK x \in Databeat : decompressed' = Append(decompressed, x) /\ <<x, r + 1>> \in NumberedBeats(work)
      BY <2>1
    <2>3. decompressed' \in Seq(Databeat) /\ d + Len(decompressed') = r + 1
      BY <1>2, <1>3, <2>2, AppendElements
    <2>4. Row(NumberedBeats(work), Append(decompressed, x), d)
      BY <1>2, <1>3, <2>2, RowAppend
    <2>5. QED
      BY <1>1, <2>1, <2>2, <2>3, <2>4 DEF DecPlace
  <1>5. CASE ~Dec!Multiplex
    <2>1. Left(r)'
      BY <1>1, <1>3, <1>5, TakeConfPlace, AroundPlace, LoadLeft, WrapperPlaces DEF Decompress, Dec!Next
    <2>2. decompressed' = decompressed
      BY <1>5 DEF Decompress, Dec!Next, Dec!TakeConf, Dec!Around, Dec!Load, Dec!Feed, Dec!Unzip, Dec!FillTmp,
                  Dec!PutTmp, Dec!Reset
    <2>3. QED
      BY <1>1, <1>2, <1>3, <2>1, <2>2 DEF DecPlace
  <1>6. QED
    BY <1>4, <1>5

\* The next databeat is taken.
LEMMA DecTaken ==
  ASSUME WellFormed(work), UNCHANGED <<work, dec_vars>>, NEW d \in Nat, DecPlace(d),
         decompressed # <<>>, decompressed' = Tail(decompressed)
  PROVE  DecPlace(d + 1)'
  <1>1. /\ Row(NumberedBeats(work), Tail(decompressed), d + 1) /\ Tail(decompressed) \in Seq(Databeat)
        /\ Len(decompressed) \in Nat \ {0} /\ Len(Tail(decompressed)) = Len(decompressed) - 1
    BY RowTail DEF DecPlace
  <1>2. PICK r : r = d + Len(decompressed)
    OBVIOUS
  <1>3. r = (d + 1) + Len(decompressed')
    BY <1>1, <1>2
  <1>4. Left(r)'
    BY <1>2 DEF DecPlace, Left, SelectPlace, InputPlace, RawPlace, SnappyPlace, InQueue, WrapperPlace, UnderWay, AllOut,
                Given, Flushed, Lasting, Compressed, Dec!Page, dec_vars
  <1>5. QED
    BY <1>1, <1>3, <1>4 DEF DecPlace

-----------------------------------------------------------------------------
(* The lanes of StripLevels. Of page p, k databeats were taken; of these,  *)
(* q went through the pipe.                                                *)

Whole(w, p) == ValuesAt(w, p) \div NumBytes
Off(w, p)   == ValuesAt(w, p) % NumBytes
Shift(w, p) == (NumBytes - Off(w, p)) % NumBytes

\* Databeats that have been put out of q.
PutOf(w, p, q) == IF Off(w, p) = 0 \/ q = 0 THEN q ELSE q - 1

\* The bytes of page p from a on, in the lanes below h.
Slice(w, p, a, h) ==
  [i \in Strip!Lanes |-> IF i < h /\ a + i < w.contents[p].bytes THEN [page |-> p, at |-> a + i] ELSE Strip!Nothing]
RegisterAt(w, p, q) ==
  IF q = 0 \/ Off(w, p) = 0 THEN Strip!NoLanes
  ELSE Slice(w, p, ValuesAt(w, p) + (q - 1) * NumBytes, Shift(w, p))

\* Offset and shift of a page.
LEMMA StripNumbers ==
  ASSUME NEW w, WellFormed(w), NEW p \in Pages(w)
  PROVE  /\ Whole(w, p) \in Nat /\ Off(w, p) \in 0..(NumBytes - 1) /\ ValuesAt(w, p) = Whole(w, p) * NumBytes + Off(w, p)
         /\ Off(w, p) = 0 => Shift(w, p) = 0
         /\ Off(w, p) # 0 => Shift(w, p) = NumBytes - Off(w, p)
         /\ Shift(w, p) \in 0..(NumBytes - 1)
         /\ Whole(w, p) < Beats(w, p)
  <1>1. PICK nb \in Nat : nb = NumBytes /\ nb >= 4
    BY Width4
  <1>2. PICK x \in Nat : x = ValuesAt(w, p)
    BY PageFacts
  <1>3. Whole(w, p) = x \div nb /\ Off(w, p) = x % nb
    BY <1>1, <1>2 DEF Whole, Off
  <1>4. PICK f \in Nat, o \in 0..(nb - 1) : f = x \div nb /\ o = x % nb /\ x = f * nb + o
    BY <1>1
  <1>5. f = Whole(w, p) /\ o = Off(w, p)
    BY <1>3, <1>4
  <1>6. Shift(w, p) = (nb - o) % nb
    BY <1>1, <1>5 DEF Shift
  <1>7. o = 0 => (nb - o) % nb = 0
    BY <1>1
  <1>8. o # 0 => (nb - o) % nb = nb - o
    BY <1>1
  <1>9. /\ o = 0 => Shift(w, p) = 0
        /\ o # 0 => Shift(w, p) = nb - o
        /\ Shift(w, p) \in 0..(nb - 1)
    BY <1>1, <1>6, <1>7, <1>8
  <1>10. Whole(w, p) < Beats(w, p)
    <2>1. PICK b \in Nat : b = w.contents[p].bytes
      BY PageFacts
    <2>2. b > x
      <3>1. PICK v \in Nat : v = ValueBytes(w, p) /\ v >= 1
        BY PageFacts
      <3>2. b = x + v
        BY <1>2, <2>1, <3>1, PageFacts
      <3>3. QED
        BY <3>1, <3>2
    <2>3. f * nb \in Nat
      BY <1>1
    <2>4. b >= 1 /\ f * nb < b
      BY <1>1, <1>4, <2>2, <2>3
    <2>5. f < BeatsFor(b)
      BY <1>1, <2>4, BeatsBound
    <2>6. QED
      BY <1>5, <2>1, <2>5 DEF Beats
  <1>11. QED
    BY <1>1, <1>2, <1>4, <1>5, <1>9, <1>10

\* Where the (k + 1)-th databeat of a page is, if it is not levels to its last byte.
LEMMA PipeNumbers ==
  ASSUME NEW w, WellFormed(w), NEW p \in Pages(w), NEW k \in Nat, k < Beats(w, p), k >= Whole(w, p)
  PROVE  /\ k - Whole(w, p) \in Nat /\ k * NumBytes \in Nat /\ (k - Whole(w, p)) * NumBytes \in Nat
         /\ k * NumBytes + Off(w, p) = ValuesAt(w, p) + (k - Whole(w, p)) * NumBytes
         /\ k * NumBytes < w.contents[p].bytes
         /\ k + 1 = Beats(w, p) => w.contents[p].bytes <= k * NumBytes + NumBytes
         /\ k + 1 # Beats(w, p) => k * NumBytes + NumBytes < w.contents[p].bytes
  <1>1. PICK nb \in Nat : nb = NumBytes /\ nb >= 4
    BY Width4
  <1>2. PICK f \in Nat, o \in 0..(nb - 1), x \in Nat, b \in Nat :
          /\ f = Whole(w, p) /\ o = Off(w, p) /\ x = ValuesAt(w, p) /\ x = f * nb + o
          /\ b = w.contents[p].bytes /\ b >= 1
    <2>1. w.contents[p].bytes \in Nat /\ w.contents[p].bytes >= 1 /\ ValuesAt(w, p) \in Nat
      BY PageFacts
    <2>2. QED
      BY <1>1, <2>1, StripNumbers
  <1>3. PICK q \in Nat : q = k - f /\ k = f + q
    BY <1>2
  <1>4. k * nb = f * nb + q * nb /\ k * nb \in Nat /\ q * nb \in Nat /\ f * nb \in Nat
    BY <1>3
  <1>5. k * nb + o = x + q * nb
    BY <1>2, <1>4
  <1>6. k < BeatsFor(b) /\ Beats(w, p) = BeatsFor(b)
    BY <1>2 DEF Beats
  <1>7. k * nb < b
    BY <1>1, <1>2, <1>6, BeatsBound
  <1>8. (k + 1) * nb = k * nb + nb
    BY <1>4
  <1>9. k + 1 < BeatsFor(b) <=> (k + 1) * nb < b
    BY <1>1, <1>2, BeatsBound
  <1>10. BeatsFor(b) \in Nat
    BY <1>2, BeatsFit
  <1>11. k + 1 = Beats(w, p) => b <= k * nb + nb
    BY <1>2, <1>4, <1>6, <1>8, <1>9, <1>10
  <1>12. k + 1 # Beats(w, p) => k * nb + nb < b
    BY <1>2, <1>4, <1>6, <1>8, <1>9, <1>10
  <1>13. QED
    BY <1>1, <1>2, <1>3, <1>4, <1>5, <1>7, <1>11, <1>12

\* Cardinality inside the instance of StripLevels is Cardinality.
LEMMA StripCardinality ==
  ASSUME NEW S
  PROVE  Strip!Cardinality(S) = Cardinality(S)
BY Zenon DEF Cardinality, Strip!Cardinality

\* The bytes in lanes that are used from the first on.
LEMMA SliceBytes ==
  ASSUME NEW w, NEW p \in Nat, p >= 1, NEW a \in Nat, NEW h, NEW c \in 0..NumBytes,
         \A i \in Strip!Lanes : i < h /\ a + i < w.contents[p].bytes <=> i < c
  PROVE  /\ Strip!Used(Slice(w, p, a, h)) = 0..(c - 1)
         /\ Strip!Bytes(Slice(w, p, a, h)) = [i \in 1..c |-> [page |-> p, at |-> a + i - 1]]
  <1>1. NumBytes \in Nat /\ c \in Nat
    BY Width4
  <1> DEFINE l == Slice(w, p, a, h)
  <1>2. \A i \in Strip!Lanes : l[i] = IF i < c THEN [page |-> p, at |-> a + i] ELSE Strip!Nothing
    BY DEF Slice
  <1> HIDE DEF l
  <1>3. \A x : [page |-> p, at |-> x] # Strip!Nothing
    BY DEF Strip!Nothing
  <1>4. Strip!Used(l) = 0..(c - 1)
    <2>1. Strip!Used(l) = {i \in Strip!Lanes : i < c}
      BY <1>2, <1>3 DEF Strip!Used
    <2>2. {i \in Strip!Lanes : i < c} = 0..(c - 1)
      BY <1>1 DEF Strip!Lanes
    <2>3. QED
      BY <2>1, <2>2
  <1>5. Strip!Cardinality(0..(c - 1)) = c
    <2>1. c - 1 \in Int /\ (0 > c - 1 => c = 0)
      BY <1>1
    <2>2. Cardinality(0..(c - 1)) = IF 0 > c - 1 THEN 0 ELSE (c - 1) - 0 + 1
      BY <2>1, FS_Interval
    <2>3. Cardinality(0..(c - 1)) = c
      BY <1>1, <2>1, <2>2
    <2>4. QED
      BY <2>3, StripCardinality
  <1>6. ASSUME NEW j \in 1..c
        PROVE  l[CHOOSE i \in Strip!Used(l) : Strip!Cardinality({g \in Strip!Used(l) : g <= i}) = j] = [page |-> p, at |-> a + j - 1]
    <2>1. ASSUME NEW i \in 0..(c - 1) PROVE Strip!Cardinality({g \in 0..(c - 1) : g <= i}) = i + 1
      <3>1. {g \in 0..(c - 1) : g <= i} = 0..i
        BY <1>1
      <3>2. Cardinality(0..i) = i + 1
        <4>1. i \in Int /\ ~(0 > i)
          BY <1>1
        <4>2. QED
          BY <4>1, FS_Interval
      <3>3. QED
        BY <3>1, <3>2, StripCardinality
    <2>2. PICK i \in 0..(c - 1) : i = j - 1
      BY <1>1
    <2>3. \A x \in 0..(c - 1) : Strip!Cardinality({g \in 0..(c - 1) : g <= x}) = j <=> x = i
      BY <1>1, <2>1, <2>2
    <2>4. (CHOOSE x \in 0..(c - 1) : Strip!Cardinality({g \in 0..(c - 1) : g <= x}) = j) = i
      BY <2>3
    <2>5. l[i] = [page |-> p, at |-> a + i]
      BY <1>1, <1>2 DEF Strip!Lanes
    <2>6. a + i = a + j - 1
      BY <1>1, <2>2
    <2>7. QED
      BY <1>4, <2>4, <2>5, <2>6
  <1>7. Strip!Bytes(l) = [j \in 1..Strip!Cardinality(Strip!Used(l)) |->
          l[CHOOSE i \in Strip!Used(l) : Strip!Cardinality({g \in Strip!Used(l) : g <= i}) = j]]
    BY Zenon DEF Strip!Bytes
  <1>8. Strip!Cardinality(Strip!Used(l)) = c
    BY <1>4, <1>5
  <1>9. Strip!Bytes(l) = [j \in 1..c |->
          l[CHOOSE i \in Strip!Used(l) : Strip!Cardinality({g \in Strip!Used(l) : g <= i}) = j]]
    BY <1>7, <1>8, Zenon
  <1>10. Strip!Bytes(l) = [j \in 1..c |-> [page |-> p, at |-> a + j - 1]]
    BY <1>6, <1>9, Zenon
  <1>11. QED
    BY <1>4, <1>10 DEF l

\* What is in the lanes of a page's databeat is put on the page in the lanes below h.
LEMMA SliceAt ==
  ASSUME NEW w, NEW p, NEW a, NEW h, NEW i \in Strip!Lanes
  PROVE  Slice(w, p, a, h)[i] = IF i < h /\ a + i < w.contents[p].bytes THEN [page |-> p, at |-> a + i] ELSE Strip!Nothing
BY Zenon DEF Slice

\* Lanes outside a slice are empty,
LEMMA SliceOut ==
  ASSUME NEW w, NEW p, NEW a, NEW h, NEW i \in Strip!Lanes, ~(i < h) \/ ~(a + i < w.contents[p].bytes)
  PROVE  Slice(w, p, a, h)[i] = Strip!Nothing
BY SliceAt

\* and all of them in one of no lanes.
LEMMA SliceEmpty ==
  ASSUME NEW w, NEW p, NEW a
  PROVE  Slice(w, p, a, 0) = Strip!NoLanes
  <1>1. \A i \in Strip!Lanes : i \in Nat /\ ~(i < 0)
    BY Width4 DEF Strip!Lanes
  <1>2. QED
    BY <1>1 DEF Slice, Strip!NoLanes

\* Mask and rotation of the databeat behind k others of page p.
LEMMA RotatedLanes ==
  ASSUME WellFormed(work), NEW p \in Pages(work), NEW k \in Nat, k < Beats(work, p), k >= Whole(work, p),
         shift_offset = Shift(work, p), remaining_offset = IF k = Whole(work, p) THEN Off(work, p) ELSE 0,
         NEW b, b.page = p, b.k = k + 1, NEW i \in Strip!Lanes
  PROVE  Strip!Rotated(Strip!Masked(Strip!LanesOf(b)))[i] =
           LET at == IF Off(work, p) = 0 THEN k * NumBytes + i
                     ELSE IF i < Shift(work, p) THEN k * NumBytes + Off(work, p) + i
                     ELSE k * NumBytes + i - Shift(work, p)
           IN  IF at < work.contents[p].bytes /\ (Off(work, p) # 0 /\ k = Whole(work, p) => i < Shift(work, p))
               THEN [page |-> p, at |-> at] ELSE Strip!Nothing
  <1>1. PICK nb \in Nat : nb = NumBytes /\ nb >= 4
    BY Width4
  <1>2. PICK o \in 0..(nb - 1), s \in 0..(nb - 1), base \in Nat :
          /\ o = Off(work, p) /\ s = Shift(work, p) /\ base = k * nb
          /\ (o = 0 => s = 0) /\ (o # 0 => s = nb - o)
    <2>1. Off(work, p) \in 0..(nb - 1) /\ Shift(work, p) \in 0..(nb - 1) /\ k * nb \in Nat
      BY <1>1, StripNumbers, PipeNumbers
    <2>2. (Off(work, p) = 0 => Shift(work, p) = 0) /\ (Off(work, p) # 0 => Shift(work, p) = nb - Off(work, p))
      BY <1>1, StripNumbers
    <2>3. QED
      BY <2>1, <2>2
  <1>3. i \in 0..(nb - 1) /\ Strip!Lanes = 0..(nb - 1)
    BY <1>1 DEF Strip!Lanes
  <1>4. PICK e : e = (i + nb - s) % nb
    OBVIOUS
  <1>5. e = IF s = 0 THEN i ELSE IF i < s THEN i + o ELSE i - s
    <2>1. s = 0 => (i + nb - s) % nb = i
      BY <1>1, <1>3
    <2>2. s # 0 /\ i < s => (i + nb - s) % nb = i + nb - s
      BY <1>1, <1>3
    <2>3. s # 0 /\ ~(i < s) => (i + nb - s) % nb = i - s
      BY <1>1, <1>3
    <2>4. s # 0 => i + nb - s = i + o
      BY <1>1, <1>2, <1>3
    <2>5. QED
      BY <1>4, <2>1, <2>2, <2>3, <2>4
  <1>6. e \in 0..(nb - 1)
    BY <1>1, <1>2, <1>3, <1>5
  <1> DEFINE l == Strip!LanesOf(b)
  <1>7. l[e] = IF base + e < work.contents[p].bytes THEN [page |-> p, at |-> base + e] ELSE Strip!Nothing
    <2>1. (b.k - 1) * NumBytes + e = base + e
      <3>1. b.k - 1 = k
        OBVIOUS
      <3>2. QED
        BY <1>1, <1>2, <3>1
    <2>2. e \in Strip!Lanes
      BY <1>3, <1>6
    <2>3. l[e] = IF (b.k - 1) * NumBytes + e < work.contents[b.page].bytes
                 THEN [page |-> b.page, at |-> (b.k - 1) * NumBytes + e] ELSE Strip!Nothing
      BY <2>2, Zenon DEF Strip!LanesOf
    <2>4. QED
      BY <2>1, <2>3, Zenon
  <1> HIDE DEF l
  <1>8. remaining_offset % nb = IF k = Whole(work, p) THEN o ELSE 0
    <2>1. remaining_offset \in 0..(nb - 1) /\ remaining_offset = IF k = Whole(work, p) THEN o ELSE 0
      BY <1>1, <1>2
    <2>2. QED
      BY <1>1, <2>1
  <1>9. Strip!Masked(l)[e] = IF e < (IF k = Whole(work, p) THEN o ELSE 0) THEN Strip!Nothing ELSE l[e]
    <2>1. e \in Strip!Lanes
      BY <1>3, <1>6
    <2>2. Strip!Masked(l)[e] = IF e < remaining_offset % NumBytes THEN Strip!Nothing ELSE l[e]
      BY <2>1, Zenon DEF Strip!Masked
    <2>3. QED
      BY <1>1, <1>8, <2>2, Zenon
  <1>10. Strip!Rotated(Strip!Masked(l))[i] = Strip!Masked(l)[e]
    <2>1. Strip!Rotated(Strip!Masked(l))[i] = Strip!Masked(l)[(i + NumBytes - shift_offset) % NumBytes]
      BY Zenon DEF Strip!Rotated
    <2>2. QED
      BY <1>1, <1>2, <1>4, <2>1, Zenon
  <1>11. PICK at : at = IF o = 0 THEN base + i ELSE IF i < s THEN base + o + i ELSE base + i - s
    OBVIOUS
  <1>12. base + e = at
    BY <1>1, <1>2, <1>3, <1>5, <1>11
  <1>13. e < (IF k = Whole(work, p) THEN o ELSE 0) <=> o # 0 /\ k = Whole(work, p) /\ ~(i < s)
    BY <1>1, <1>2, <1>3, <1>5
  <1>14. Strip!Rotated(Strip!Masked(l))[i] = IF at < work.contents[p].bytes /\ (o # 0 /\ k = Whole(work, p) => i < s)
                                            THEN [page |-> p, at |-> at] ELSE Strip!Nothing
    BY <1>7, <1>9, <1>10, <1>12, <1>13
  <1>15. at = IF Off(work, p) = 0 THEN k * NumBytes + i
              ELSE IF i < Shift(work, p) THEN k * NumBytes + Off(work, p) + i
              ELSE k * NumBytes + i - Shift(work, p)
    BY <1>1, <1>2, <1>11
  <1>16. QED
    BY <1>2, <1>14, <1>15 DEF l

\* The lanes that Merge fills, and those it keeps.
Filled(lanes) == [i \in Strip!Lanes |-> IF register[i] # Strip!Nothing THEN register[i] ELSE lanes[i]]
Rest(lanes)   == [i \in Strip!Lanes |-> IF register[i] # Strip!Nothing THEN lanes[i] ELSE Strip!Nothing]

\* What they are if q databeats of page p went through the pipe.
Merging(p, q, lanes) ==
  /\ Off(work, p) = 0 => /\ Filled(lanes) = Slice(work, p, ValuesAt(work, p) + q * NumBytes, NumBytes)
                         /\ Rest(lanes) = Strip!NoLanes
  /\ Off(work, p) # 0 /\ q = 0 => /\ Filled(lanes) = Slice(work, p, ValuesAt(work, p) + q * NumBytes, Shift(work, p))
                                  /\ Rest(lanes) = Strip!NoLanes
  /\ Off(work, p) # 0 /\ q # 0 => /\ Filled(lanes) = Slice(work, p, ValuesAt(work, p) + (q - 1) * NumBytes, NumBytes)
                                  /\ Rest(lanes) = Slice(work, p, ValuesAt(work, p) + q * NumBytes, Shift(work, p))

\* The register and the rotated lanes hold the bytes of the page one after the other.
LEMMA MergedLanes ==
  ASSUME WellFormed(work), NEW p \in Pages(work), NEW k \in Nat, k < Beats(work, p), k >= Whole(work, p),
         shift_offset = Shift(work, p), remaining_offset = IF k = Whole(work, p) THEN Off(work, p) ELSE 0,
         register = RegisterAt(work, p, k - Whole(work, p)),
         NEW b, b.page = p, b.k = k + 1, NEW q \in Nat, q = k - Whole(work, p)
  PROVE  Merging(p, q, Strip!Rotated(Strip!Masked(Strip!LanesOf(b))))
  <1> DEFINE lanes == Strip!Rotated(Strip!Masked(Strip!LanesOf(b)))
  <1>1. PICK nb \in Nat : nb = NumBytes /\ nb >= 4
    BY Width4
  <1>2. PICK o \in 0..(nb - 1), s \in 0..(nb - 1), base \in Nat, size \in Nat, x \in Nat :
          /\ o = Off(work, p) /\ s = Shift(work, p) /\ base = k * nb /\ size = work.contents[p].bytes
          /\ (o = 0 => s = 0) /\ (o # 0 => s = nb - o) /\ x = ValuesAt(work, p) + q * nb /\ base + o = x /\ base < size
    <2>1. Off(work, p) \in 0..(nb - 1) /\ Shift(work, p) \in 0..(nb - 1)
      BY <1>1, StripNumbers
    <2>2. (Off(work, p) = 0 => Shift(work, p) = 0) /\ (Off(work, p) # 0 => Shift(work, p) = nb - Off(work, p))
      BY <1>1, StripNumbers
    <2>3. k * nb \in Nat /\ k * nb + Off(work, p) = ValuesAt(work, p) + q * nb /\ k * nb < work.contents[p].bytes
      BY <1>1, PipeNumbers
    <2>4. work.contents[p].bytes \in Nat
      BY PageFacts
    <2>5. PICK x \in Nat : x = ValuesAt(work, p) + q * nb
      BY <2>1, <2>3
    <2>6. QED
      BY <2>1, <2>2, <2>3, <2>4, <2>5
  <1>3. Strip!Lanes = 0..(nb - 1) /\ 0 <= nb - 1
    BY <1>1 DEF Strip!Lanes
  <1>4. k = Whole(work, p) <=> q = 0
    <2>1. Whole(work, p) \in Nat
      BY StripNumbers
    <2>2. QED
      BY <2>1
  <1>5. ASSUME NEW i \in Strip!Lanes
        PROVE  LET at == IF o = 0 THEN base + i ELSE IF i < s THEN base + o + i ELSE base + i - s
               IN  lanes[i] = IF at < size /\ (o # 0 /\ q = 0 => i < s) THEN [page |-> p, at |-> at] ELSE Strip!Nothing
    <2>1. PICK at : at = IF o = 0 THEN base + i ELSE IF i < s THEN base + o + i ELSE base + i - s
      OBVIOUS
    <2>2. at = IF Off(work, p) = 0 THEN k * NumBytes + i
               ELSE IF i < Shift(work, p) THEN k * NumBytes + Off(work, p) + i
               ELSE k * NumBytes + i - Shift(work, p)
      BY <1>1, <1>2, <2>1
    <2>3. lanes[i] =
            LET at_ == IF Off(work, p) = 0 THEN k * NumBytes + i
                       ELSE IF i < Shift(work, p) THEN k * NumBytes + Off(work, p) + i
                       ELSE k * NumBytes + i - Shift(work, p)
            IN  IF at_ < work.contents[p].bytes /\ (Off(work, p) # 0 /\ k = Whole(work, p) => i < Shift(work, p))
                THEN [page |-> p, at |-> at_] ELSE Strip!Nothing
      BY RotatedLanes
    <2>4. lanes[i] = IF at < work.contents[p].bytes /\ (Off(work, p) # 0 /\ k = Whole(work, p) => i < Shift(work, p))
                     THEN [page |-> p, at |-> at] ELSE Strip!Nothing
      BY <2>2, <2>3, Zenon
    <2>5. QED
      BY <1>2, <1>4, <2>1, <2>4
  <1>51. lanes = [i \in Strip!Lanes |-> lanes[i]]
    BY Zenon DEF Strip!Rotated
  <1> HIDE DEF lanes
  <1>6. \A y : [page |-> p, at |-> y] # Strip!Nothing
    <2>1. p # 0
      BY PageFacts
    <2>2. QED
      BY <2>1 DEF Strip!Nothing
  <1>7. ASSUME q = 0 \/ o = 0
        PROVE  Filled(lanes) = lanes /\ Rest(lanes) = Strip!NoLanes /\ \A y : Slice(work, p, y, 0) = Strip!NoLanes
    <2>1. \A i \in Strip!Lanes : register[i] = Strip!Nothing
      BY <1>2, <1>7 DEF RegisterAt, Strip!NoLanes
    <2>2. Filled(lanes) = lanes
      BY <1>51, <2>1 DEF Filled
    <2>3. QED
      BY <2>1, <2>2, SliceEmpty DEF Rest, Strip!NoLanes
  <1>8. CASE o = 0
    <2>1. lanes = Slice(work, p, x, nb)
      <3>1. ASSUME NEW i \in Strip!Lanes
            PROVE  lanes[i] = IF i < nb /\ x + i < size THEN [page |-> p, at |-> x + i] ELSE Strip!Nothing
        BY <1>2, <1>3, <1>5, <1>8
      <3>2. QED
        BY <1>2, <1>51, <3>1 DEF Slice
    <2>2. QED
      BY <1>1, <1>2, <1>7, <1>8, <2>1 DEF lanes, Merging
  <1>9. CASE o # 0 /\ q = 0
    <2>1. lanes = Slice(work, p, x, s)
      <3>1. ASSUME NEW i \in Strip!Lanes
            PROVE  lanes[i] = IF i < s /\ x + i < size THEN [page |-> p, at |-> x + i] ELSE Strip!Nothing
        BY <1>2, <1>3, <1>5, <1>9
      <3>2. QED
        BY <1>2, <1>51, <3>1 DEF Slice
    <2>2. QED
      BY <1>1, <1>2, <1>7, <1>9, <2>1 DEF lanes, Merging
  <1>10. CASE o # 0 /\ q # 0
    <2>0. s = nb - o /\ base + o = x /\ base < size /\ s \in Int /\ x \in Int /\ size \in Int /\ base \in Int /\ o \in Int
      BY <1>2, <1>10
    <2>1. PICK y \in Int : y = ValuesAt(work, p) + (q - 1) * nb /\ y = x - nb
      <3>1. ValuesAt(work, p) \in Nat /\ q * nb \in Nat /\ (q - 1) * nb = q * nb - nb
        BY <1>1, PageFacts
      <3>2. QED
        BY <1>2, <3>1
    <2>2. register = Slice(work, p, y, s)
      BY <1>1, <1>2, <1>10, <2>1 DEF RegisterAt
    <2>3. \A i \in Strip!Lanes : register[i] = IF i < s /\ y + i < size THEN [page |-> p, at |-> y + i] ELSE Strip!Nothing
      BY <1>2, <2>2, SliceAt
    <2>4. ASSUME NEW i \in Strip!Lanes, i < s
          PROVE  register[i] # Strip!Nothing /\ register[i] = [page |-> p, at |-> y + i] /\ y + i < size
      <3>1. y + i < size
        <4>1. i \in Int /\ y = x - nb
          BY <1>3, <2>1
        <4>2. QED
          BY <2>0, <2>4, <4>1
      <3>2. QED
        BY <1>6, <2>3, <2>4, <3>1
    <2>5. ASSUME NEW i \in Strip!Lanes, ~(i < s)
          PROVE  register[i] = Strip!Nothing
      BY <2>3, <2>5
    <2>6. ASSUME NEW i \in Strip!Lanes
          PROVE  Filled(lanes)[i] = IF i < nb /\ y + i < size THEN [page |-> p, at |-> y + i] ELSE Strip!Nothing
      <3>1. CASE i < s
        <4>1. Filled(lanes)[i] = register[i]
          BY <2>4, <3>1 DEF Filled
        <4>2. QED
          BY <1>3, <2>4, <3>1, <4>1
      <3>2. CASE ~(i < s)
        <4>1. Filled(lanes)[i] = lanes[i]
          BY <2>5, <3>2 DEF Filled
        <4>2. lanes[i] = IF base + i - s < size THEN [page |-> p, at |-> base + i - s] ELSE Strip!Nothing
          BY <1>5, <1>10, <3>2
        <4>3. base + i - s = y + i
          <5>1. i \in Int /\ y = x - nb
            BY <1>3, <2>1
          <5>2. QED
            BY <2>0, <5>1
        <4>4. QED
          BY <1>3, <4>1, <4>2, <4>3
      <3>3. QED
        BY <3>1, <3>2
    <2>7. ASSUME NEW i \in Strip!Lanes
          PROVE  Rest(lanes)[i] = IF i < s /\ x + i < size THEN [page |-> p, at |-> x + i] ELSE Strip!Nothing
      <3>1. CASE i < s
        <4>1. Rest(lanes)[i] = lanes[i]
          BY <2>4, <3>1 DEF Rest
        <4>2. QED
          BY <1>2, <1>3, <1>5, <1>10, <3>1, <4>1
      <3>2. CASE ~(i < s)
        BY <2>5, <3>2 DEF Rest
      <3>3. QED
        BY <3>1, <3>2
    <2>8. Filled(lanes) = Slice(work, p, y, nb)
      BY <1>2, <2>6 DEF Filled, Slice
    <2>9. Rest(lanes) = Slice(work, p, x, s)
      BY <1>2, <2>7 DEF Rest, Slice
    <2>10. QED
      BY <1>1, <1>2, <1>10, <2>1, <2>8, <2>9 DEF lanes, Merging
  <1>11. QED
    BY <1>2, <1>8, <1>9, <1>10

\* The lanes below h with what is on the page behind j databeats of values make the next
\* databeat, if they are all lanes or hold the rest of the page.
LEMMA SliceMakesPlain ==
  ASSUME NEW w, WellFormed(w), NEW p \in Pages(w), NEW j \in Nat, j * NumBytes < ValueBytes(w, p),
         NEW h \in 0..NumBytes, h = NumBytes \/ ValueBytes(w, p) <= j * NumBytes + h
  PROVE  LET l == Slice(w, p, ValuesAt(w, p) + j * NumBytes, h)
         IN  /\ j + 1 \in 1..Plains(w, p)
             /\ Strip!Bytes(l) = PlainOf(w, p, j + 1).bytes
             /\ Strip!Used(l) # {}
             /\ (j + 1) * NumBytes < ValueBytes(w, p) <=> j + 1 # Plains(w, p)
             /\ j + 1 # Plains(w, p) => Strip!Used(l) = Strip!Lanes
  <1>1. PICK nb \in Nat : nb = NumBytes /\ nb >= 4
    BY Width4
  <1>2. PICK v \in Nat, at \in Nat, x \in Nat : v = ValueBytes(w, p) /\ at = ValuesAt(w, p) /\ x = j * nb /\ v >= 1
    BY <1>1, PageFacts
  <1>3. w.contents[p].bytes = at + v /\ p \in Nat /\ p >= 1 /\ Plains(w, p) \in Nat
    BY <1>2, PageFacts
  <1>4. (j + 1) * nb = x + nb
    BY <1>1, <1>2
  <1>5. /\ j < Plains(w, p) /\ (j + 1 < Plains(w, p) <=> x + nb < v)
    BY <1>1, <1>2, <1>4, BeatsBound DEF Plains
  <1>6. j + 1 \in 1..Plains(w, p) /\ (x + nb < v <=> j + 1 # Plains(w, p))
    BY <1>3, <1>5
  <1>7. PICK c \in 0..nb : c = PlainSize(w, p, j + 1) /\ c >= 1 /\ c = IF x + nb < v THEN nb ELSE v - x
    <2>1. (j + 1) - 1 = j
      OBVIOUS
    <2>2. PlainSize(w, p, j + 1) = IF x + nb < v THEN nb ELSE v - x
      BY <1>1, <1>2, <1>6, <2>1 DEF PlainSize
    <2>3. PlainSize(w, p, j + 1) \in 1..nb
      BY <1>1, <1>6, PlainSizes
    <2>4. QED
      BY <1>1, <2>2, <2>3
  <1> DEFINE l == Slice(w, p, at + x, h)
  <1>8. \A i \in Strip!Lanes : i < h /\ at + x + i < w.contents[p].bytes <=> i < c
    <2>1. h \in 0..nb /\ (h = nb \/ v <= x + h) /\ x < v
      BY <1>1, <1>2
    <2>2. QED
      BY <1>1, <1>3, <1>7, <2>1 DEF Strip!Lanes
  <1>9. /\ Strip!Used(l) = 0..(c - 1)
        /\ Strip!Bytes(l) = [i \in 1..c |-> [page |-> p, at |-> at + x + i - 1]]
    <2>1. PICK y \in Nat : y = at + x
      BY <1>2
    <2>2. \A i \in Strip!Lanes : i < h /\ y + i < w.contents[p].bytes <=> i < c
      BY <1>8, <2>1
    <2>3. c \in 0..NumBytes
      BY <1>1
    <2>4. /\ Strip!Used(Slice(w, p, y, h)) = 0..(c - 1)
          /\ Strip!Bytes(Slice(w, p, y, h)) = [i \in 1..c |-> [page |-> p, at |-> y + i - 1]]
      BY <1>3, <2>2, <2>3, SliceBytes
    <2>5. QED
      BY <2>1, <2>4
  <1>10. PlainOf(w, p, j + 1).bytes = [i \in 1..c |-> [page |-> p, at |-> at + x + i - 1]]
    <2>1. PlainOf(w, p, j + 1).bytes =
            [i \in 1..PlainSize(w, p, j + 1) |-> [page |-> p, at |-> ValuesAt(w, p) + ((j + 1) - 1) * NumBytes + i - 1]]
      BY DEF PlainOf
    <2>2. ((j + 1) - 1) * NumBytes = x
      <3>1. (j + 1) - 1 = j
        OBVIOUS
      <3>2. QED
        BY <1>1, <1>2, <3>1
    <2>3. QED
      BY <1>2, <1>7, <2>1, <2>2, Zenon
  <1>11. Strip!Used(l) # {}
    <2>1. 0 \in 0..(c - 1)
      BY <1>7
    <2>2. QED
      BY <1>9, <2>1, Zenon
  <1>12. j + 1 # Plains(w, p) => Strip!Used(l) = Strip!Lanes
    <2>1. j + 1 # Plains(w, p) => c = nb
      BY <1>6, <1>7
    <2>2. QED
      BY <1>1, <1>9, <2>1 DEF Strip!Lanes
  <1>13. (j + 1) * NumBytes < ValueBytes(w, p) <=> j + 1 # Plains(w, p)
    BY <1>1, <1>2, <1>4, <1>6
  <1>14. l = Slice(w, p, ValuesAt(w, p) + j * NumBytes, h)
    BY <1>1, <1>2
  <1>15. QED
    BY <1>6, <1>9, <1>10, <1>11, <1>12, <1>13, <1>14, Zenon

-----------------------------------------------------------------------------
(* The place of StripLevels.                                               *)

\* Of page p, k databeats were taken.
Within(p, k, m) ==
  IF strip_state = "CONSUME"
  THEN /\ k < Whole(work, p) /\ remaining_offset = ValuesAt(work, p) - k * NumBytes
       /\ register = Strip!NoLanes /\ m = work.layout[p].plains
  ELSE /\ k >= Whole(work, p) /\ remaining_offset = (IF k = Whole(work, p) THEN Off(work, p) ELSE 0)
       /\ register = RegisterAt(work, p, k - Whole(work, p))
       /\ m = work.layout[p].plains + PutOf(work, p, k - Whole(work, p))

\* d databeats were taken, m put out.
StripPlace(d, m) ==
  /\ stripped \in 0..Len(work.pages) /\ strip_state \in {"WAIT", "CONSUME", "PIPE"}
  /\ strip_state = "WAIT" => d = BeatsDone(work, stripped) /\ m = PlainsDone(work, stripped) /\ register = Strip!NoLanes
  /\ strip_state # "WAIT" => /\ stripped < Len(work.pages) /\ shift_offset = Shift(work, stripped + 1)
                             /\ \E k \in Nat : /\ k < Beats(work, stripped + 1)
                                               /\ d = work.layout[stripped + 1].before + k
                                               /\ Within(stripped + 1, k, m)

\* At first nothing was taken by StripLevels.
LEMMA StripInit ==
  ASSUME WellFormed(work), Strip!Init
  PROVE  StripPlace(0, 0)
BY DEF Strip!Init, StripPlace, BeatsDone, PlainsDone, WellFormed

\* No databeat is behind the last page.
LEMMA BeatsEnd ==
  ASSUME NEW w, WellFormed(w), NEW p \in Pages(w)
  PROVE  w.layout[p].before + Beats(w, p) <= BeatsDone(w, Len(w.pages))
  <1>1. PICK e \in Pages(w) : e = Len(w.pages) /\ e # 0 /\ e \in Nat
    BY DEF WellFormed, Pages
  <1>2. /\ w.layout[p].before \in Nat /\ Beats(w, p) \in Nat /\ p \in Nat /\ p <= e
        /\ e \in Nat /\ w.layout[e].before \in Nat /\ Beats(w, e) \in Nat
    BY <1>1, PageFacts
  <1>3. p < e => w.layout[e].before >= w.layout[p].before + Beats(w, p)
    BY PagesBehind
  <1>4. BeatsDone(w, e) = w.layout[e].before + Beats(w, e)
    BY <1>1 DEF BeatsDone
  <1>5. w.layout[p].before + Beats(w, p) <= BeatsDone(w, e)
    <2>1. CASE p < e
      BY <1>2, <1>3, <1>4, <2>1
    <2>2. CASE p = e
      BY <1>2, <1>4, <2>2
    <2>3. QED
      BY <1>2, <2>1, <2>2
  <1>6. QED
    BY <1>1, <1>5

\* The databeat at the input of StripLevels is the next of the page it is at.
LEMMA BeatIs ==
  ASSUME WellFormed(work), NEW d \in Nat, DecPlace(d), decompressed # <<>>, NEW p \in Pages(work),
         NEW k \in Nat, k < Beats(work, p), d = work.layout[p].before + k
  PROVE  Strip!Beat.page = p /\ Strip!Beat.k = k + 1 /\ (Strip!Beat.last <=> k + 1 = Beats(work, p))
  <1>1. PICK b \in Databeat : b = Strip!Beat /\ <<b, d + 1>> \in NumberedBeats(work)
    <2>1. decompressed \in Seq(Databeat) /\ Row(NumberedBeats(work), decompressed, d)
      BY DEF DecPlace
    <2>2. Head(decompressed) \in Databeat /\ <<Head(decompressed), d + 1>> \in NumberedBeats(work)
      BY <2>1, RowTail
    <2>3. QED
      BY <2>2, Zenon DEF Strip!Beat
  <1>2. IsBeat(work, b, d + 1)
    BY <1>1, BeatNumber
  <1>3. /\ b.page \in Pages(work) /\ b.k \in 1..Beats(work, b.page) /\ d + 1 = work.layout[b.page].before + b.k
        /\ (b.last <=> b.k = Beats(work, b.page))
    BY <1>2 DEF IsBeat
  <1>4. Beats(work, p) \in Nat /\ work.layout[p].before \in Nat
    BY PageFacts
  <1>5. k + 1 \in 1..Beats(work, p) /\ work.layout[b.page].before + b.k = work.layout[p].before + (k + 1)
    <2>1. PICK f \in Nat, t \in Nat : f = work.layout[p].before /\ t = Beats(work, p)
      BY <1>4
    <2>2. d = f + k /\ k < t
      BY <2>1, Zenon
    <2>3. f \in Nat /\ t \in Nat
      BY <2>1
    <2>4. k + 1 \in 1..t /\ d + 1 = f + (k + 1)
      BY <2>2, <2>3
    <2>5. QED
      BY <1>3, <2>1, <2>4, Zenon
  <1>6. b.page = p /\ b.k = k + 1
    BY <1>3, <1>5, BeatUnique
  <1>7. QED
    BY <1>1, <1>3, <1>6, Zenon

\* ST_WAIT reads the length of the levels off the first databeat of the page.
LEMMA WaitPlace ==
  ASSUME WellFormed(work), Strip!Wait, UNCHANGED work, NEW d \in Nat, DecPlace(d), NEW m \in Nat, StripPlace(d, m)
  PROVE  StripPlace(d, m)'
  <1>1. /\ strip_state = "WAIT" /\ decompressed # <<>>
        /\ remaining_offset' = 4 + Strip!Prefix
        /\ shift_offset' = (NumBytes - ((4 + Strip!Prefix) % NumBytes)) % NumBytes
        /\ strip_state' = IF 4 + Strip!Prefix >= NumBytes THEN "CONSUME" ELSE "PIPE"
        /\ UNCHANGED <<decompressed, register, stripped>>
    BY DEF Strip!Wait
  <1>2. /\ stripped \in 0..Len(work.pages) /\ d = BeatsDone(work, stripped) /\ m = PlainsDone(work, stripped)
        /\ register = Strip!NoLanes
    BY <1>1 DEF StripPlace
  <1>3. Len(work.pages) \in Nat /\ Len(work.pages) # 0
    BY DEF WellFormed
  <1>4. stripped # Len(work.pages)
    <2>1. SUFFICES ASSUME stripped = Len(work.pages) PROVE FALSE
      OBVIOUS
    <2>2. decompressed \in Seq(Databeat) /\ Row(NumberedBeats(work), decompressed, d)
      BY DEF DecPlace
    <2>3. PICK b \in Databeat : <<b, d + 1>> \in NumberedBeats(work)
      BY <1>1, <2>2, RowTail
    <2>4. b.page \in Pages(work) /\ b.k \in 1..Beats(work, b.page) /\ d + 1 = work.layout[b.page].before + b.k
      BY <2>3, BeatNumber DEF IsBeat
    <2>5. work.layout[b.page].before + Beats(work, b.page) <= d
      BY <1>2, <2>1, <2>4, BeatsEnd
    <2>6. work.layout[b.page].before \in Nat /\ Beats(work, b.page) \in Nat
      BY <2>4, PageFacts
    <2>7. QED
      BY <2>4, <2>5, <2>6
  <1>5. PICK p \in Pages(work) : p = stripped + 1 /\ work.layout[p].before = d /\ work.layout[p].plains = m
    BY <1>2, <1>3, <1>4, NextPage
  <1>6. Beats(work, p) \in Nat /\ 0 < Beats(work, p)
    BY PageFacts
  <1>7. Strip!Beat.page = p /\ Strip!Beat.k = 1
    BY <1>1, <1>5, <1>6, BeatIs
  <1>8. 4 + Strip!Prefix = ValuesAt(work, p)
    BY <1>7 DEF Strip!Prefix, ValuesAt
  <1>9. PICK nb \in Nat : nb = NumBytes /\ nb >= 4
    BY Width4
  <1>10. PICK f \in Nat, o \in 0..(nb - 1), x \in Nat :
           f = Whole(work, p) /\ o = Off(work, p) /\ x = ValuesAt(work, p) /\ x = f * nb + o
    <2>1. ValuesAt(work, p) \in Nat
      BY PageFacts
    <2>2. QED
      BY <1>9, <2>1, StripNumbers
  <1>11. x >= nb <=> f > 0
    <2>1. f > 0 => f * nb >= nb
      BY <1>9
    <2>2. f = 0 => f * nb = 0
      BY <1>9
    <2>3. f * nb \in Nat
      BY <1>9
    <2>4. QED
      BY <1>9, <1>10, <2>1, <2>2, <2>3
  <1>12. Within(p, 0, m)'
    <2>1. 0 * NumBytes = 0
      BY <1>9
    <2>2. CASE x >= nb
      <3>1. strip_state' = "CONSUME" /\ remaining_offset' = ValuesAt(work, p) - 0 * NumBytes /\ 0 < Whole(work, p)
        BY <1>1, <1>8, <1>9, <1>10, <1>11, <2>1, <2>2
      <3>2. QED
        BY <1>1, <1>2, <1>5, <3>1 DEF Within
    <2>3. CASE ~(x >= nb)
      <3>1. f = 0 /\ x = o
        <4>1. f = 0
          BY <1>11, <2>3
        <4>2. QED
          BY <1>9, <1>10, <4>1
      <3>2. strip_state' = "PIPE" /\ remaining_offset' = Off(work, p) /\ Whole(work, p) = 0
        BY <1>1, <1>8, <1>9, <1>10, <2>3, <3>1
      <3>3. register' = RegisterAt(work, p, 0) /\ PutOf(work, p, 0) = 0 /\ m + 0 = m
        BY <1>1, <1>2 DEF RegisterAt, PutOf
      <3>4. 0 - Whole(work, p) = 0 /\ 0 >= Whole(work, p)
        BY <3>2
      <3>5. QED
        BY <1>5, <3>2, <3>3, <3>4 DEF Within
    <2>4. QED
      BY <2>2, <2>3
  <1>13. shift_offset' = Shift(work, p)
    BY <1>1, <1>8 DEF Shift, Off
  <1>14. stripped < Len(work.pages) /\ d = work.layout[p].before + 0
    BY <1>2, <1>3, <1>4, <1>5
  <1>15. \E k \in Nat : k < Beats(work, p) /\ d = work.layout[p].before + k /\ Within(p, k, m)'
    BY <1>6, <1>12, <1>14
  <1>16. strip_state' \in {"WAIT", "CONSUME", "PIPE"} /\ strip_state' # "WAIT"
    BY <1>1
  <1>17. QED
    BY <1>1, <1>2, <1>5, <1>13, <1>14, <1>15, <1>16 DEF StripPlace

\* What StripPlace says of a page that has begun.
LEMMA StripWithin ==
  ASSUME WellFormed(work), NEW d, NEW m \in Nat, StripPlace(d, m), strip_state # "WAIT"
  PROVE  /\ stripped + 1 \in Pages(work) /\ stripped \in Nat /\ stripped < Len(work.pages)
         /\ shift_offset = Shift(work, stripped + 1)
         /\ \E k \in Nat : /\ k < Beats(work, stripped + 1) /\ d = work.layout[stripped + 1].before + k
                           /\ Within(stripped + 1, k, m)
  <1>1. Len(work.pages) \in Nat
    BY DEF WellFormed
  <1>2. QED
    BY <1>1 DEF StripPlace, Pages

\* A databeat of levels only is discarded.
LEMMA ConsumePlace ==
  ASSUME WellFormed(work), Strip!Consume, UNCHANGED work, NEW d \in Nat, DecPlace(d), NEW m \in Nat, StripPlace(d, m)
  PROVE  StripPlace(d + 1, m)'
  <1>1. /\ strip_state = "CONSUME" /\ remaining_offset' = remaining_offset - NumBytes
        /\ strip_state' = IF remaining_offset' < NumBytes THEN "PIPE" ELSE "CONSUME"
        /\ UNCHANGED <<shift_offset, register, stripped>>
    BY DEF Strip!Consume, Strip!Discard
  <1>2. PICK p \in Pages(work) : p = stripped + 1 /\ shift_offset = Shift(work, p) /\ stripped \in Nat /\ stripped < Len(work.pages)
    BY <1>1, StripWithin
  <1>3. PICK k \in Nat : k < Beats(work, p) /\ d = work.layout[p].before + k /\ Within(p, k, m)
    BY <1>1, <1>2, StripWithin
  <1>4. PICK nb \in Nat : nb = NumBytes /\ nb >= 4
    BY Width4
  <1>5. PICK f \in Nat, o \in 0..(nb - 1), x \in Nat :
          f = Whole(work, p) /\ o = Off(work, p) /\ x = ValuesAt(work, p) /\ x = f * nb + o
    <2>1. ValuesAt(work, p) \in Nat
      BY PageFacts
    <2>2. QED
      BY <1>4, <2>1, StripNumbers
  <1>6. k < f /\ remaining_offset = x - k * nb /\ register = Strip!NoLanes /\ m = work.layout[p].plains
    BY <1>1, <1>3, <1>4, <1>5 DEF Within
  <1>7. PICK e \in Nat : e = f - (k + 1) /\ f = k + 1 + e
    BY <1>6
  <1>8. remaining_offset' = e * nb + o /\ remaining_offset' = x - (k + 1) * nb
    <2>1. f * nb = k * nb + nb + e * nb /\ (k + 1) * nb = k * nb + nb /\ k * nb \in Nat /\ e * nb \in Nat
      BY <1>4, <1>7
    <2>2. QED
      BY <1>1, <1>4, <1>5, <1>6, <2>1
  <1>9. k + 1 < Beats(work, p) /\ d + 1 = work.layout[p].before + (k + 1)
    <2>1. f < Beats(work, p) /\ Beats(work, p) \in Nat /\ work.layout[p].before \in Nat
      BY <1>5, StripNumbers, PageFacts
    <2>2. QED
      BY <1>3, <1>6, <2>1
  <1>10. Within(p, k + 1, m)'
    <2>1. CASE e = 0
      <3>1. k + 1 = f /\ remaining_offset' = o
        BY <1>4, <1>7, <1>8, <2>1
      <3>2. strip_state' = "PIPE"
        BY <1>1, <1>4, <3>1
      <3>3. (k + 1) - Whole(work, p) = 0 /\ k + 1 >= Whole(work, p) /\ k + 1 = Whole(work, p)
        BY <1>5, <3>1
      <3>4. register' = RegisterAt(work, p, 0) /\ PutOf(work, p, 0) = 0 /\ m + 0 = m
        BY <1>1, <1>6 DEF RegisterAt, PutOf
      <3>5. QED
        BY <1>5, <1>6, <3>1, <3>2, <3>3, <3>4 DEF Within
    <2>2. CASE e # 0
      <3>1. k + 1 < f
        BY <1>7, <2>2
      <3>2. e * nb >= nb
        BY <1>4, <2>2
      <3>3. remaining_offset' >= nb /\ remaining_offset' \in Int
        BY <1>4, <1>8, <3>2
      <3>4. strip_state' = "CONSUME"
        BY <1>1, <1>4, <3>3
      <3>5. QED
        BY <1>1, <1>4, <1>5, <1>6, <1>8, <3>1, <3>4 DEF Within
    <2>3. QED
      BY <2>1, <2>2
  <1>11. QED
    <2>1. strip_state' \in {"CONSUME", "PIPE"}
      BY <1>1
    <2>2. k + 1 \in Nat /\ stripped \in 0..Len(work.pages)
      BY <1>2
    <2>3. \E g \in Nat : g < Beats(work, p) /\ d + 1 = work.layout[p].before + g /\ Within(p, g, m)'
      BY <1>9, <1>10, <2>2
    <2>4. QED
      BY <1>1, <1>2, <2>1, <2>2, <2>3 DEF StripPlace

\* The databeat that Merge makes of lanes, and what Merge does with a databeat of page p.
Made(p, lanes, end) == [typ |-> work.contents[p].typ, bytes |-> Strip!Bytes(lanes), last |-> end]
Merges(p, lanes, last) ==
  /\ last => /\ register' = Strip!NoLanes /\ stripped' = stripped + 1
             /\ plain' = plain \o (IF Strip!Used(Rest(lanes)) = {} THEN << Made(p, Filled(lanes), TRUE) >>
                                   ELSE << Made(p, Filled(lanes), FALSE), Made(p, Rest(lanes), TRUE) >>)
  /\ ~last => /\ stripped' = stripped
              /\ IF Strip!Used(Filled(lanes)) = Strip!Lanes
                 THEN plain' = Append(plain, Made(p, Filled(lanes), FALSE)) /\ register' = Rest(lanes)
                 ELSE register' = Filled(lanes) /\ plain' = plain

\* Merge by what it does,
LEMMA MergeIs ==
  ASSUME NEW p, p = stripped + 1, NEW lanes, NEW last \in BOOLEAN, Strip!Merge(lanes, last)
  PROVE  Merges(p, lanes, last)
BY DEF Strip!Merge, Filled, Rest, Made, Merges

\* and the databeat it makes.
LEMMA MadeIs ==
  ASSUME NEW p, NEW j, NEW l, Strip!Bytes(l) = PlainOf(work, p, j).bytes,
         NEW end \in BOOLEAN, end <=> j = Plains(work, p)
  PROVE  Made(p, l, end) = PlainOf(work, p, j)
  <1>1. PICK e \in BOOLEAN : e = (j = Plains(work, p))
    OBVIOUS
  <1>2. e = end
    BY <1>1
  <1>3. PICK z : z = PlainOf(work, p, j).bytes
    OBVIOUS
  <1>4. PlainOf(work, p, j) = [typ |-> work.contents[p].typ, bytes |-> z, last |-> e]
    BY <1>1, <1>3 DEF PlainOf
  <1>5. QED
    BY <1>2, <1>3, <1>4 DEF Made

\* Two databeats are put one after the other.
LEMMA AppendTwo ==
  ASSUME NEW S, NEW s \in Seq(S), NEW x \in S, NEW y \in S
  PROVE  s \o <<x, y>> = Append(Append(s, x), y)
  <1>1. <<x>> \in Seq(S) /\ <<y>> \in Seq(S) /\ <<x>> \o <<y>> = <<x, y>>
    <2>1. <<x>> \in Seq(S) /\ <<y>> \in Seq(S)
      OBVIOUS
    <2>2. Append(<<x>>, y) = <<x, y>>
      <3>1. Append(<<x>>, y) \in Seq(S) /\ <<x, y>> \in Seq(S) /\ Len(Append(<<x>>, y)) = 2 /\ Len(<<x, y>>) = 2
        OBVIOUS
      <3>2. \A i \in 1..2 : Append(<<x>>, y)[i] = <<x, y>>[i]
        OBVIOUS
      <3>3. QED
        BY <3>1, <3>2, SeqEqual
    <2>3. QED
      BY <2>1, <2>2, AppendIsConcat
  <1>2. (s \o <<x>>) \o <<y>> = s \o (<<x>> \o <<y>>)
    BY <1>1, ConcatAssociative
  <1>3. Append(s, x) = s \o <<x>> /\ Append(s, x) \in Seq(S)
    BY AppendIsConcat
  <1>4. Append(Append(s, x), y) = Append(s, x) \o <<y>>
    BY <1>3, AppendIsConcat
  <1>5. QED
    BY <1>1, <1>2, <1>3, <1>4, Zenon

\* What a Pipe step does: n databeats are put.
Puts(n, m) ==
  \/ n = 0 /\ plain' = plain
  \/ n = 1 /\ \E x \in PlainBeat : plain' = Append(plain, x) /\ <<x, m + 1>> \in NumberedPlains(work)
  \/ n = 2 /\ \E x, y \in PlainBeat : /\ plain' = Append(Append(plain, x), y)
                                      /\ <<x, m + 1>> \in NumberedPlains(work) /\ <<y, m + 2>> \in NumberedPlains(work)

\* m databeats are put when q databeats of page p have gone through the pipe.
PutUpTo(p, q, m) == m = work.layout[p].plains + PutOf(work, p, q)

\* The (q + 1)-th databeat through the pipe is followed by another, or it is the last.
MoreBehind(p, q) ==
  /\ Off(work, p) = 0 => (q + 1) * NumBytes < ValueBytes(work, p)
  /\ Off(work, p) # 0 => q * NumBytes < ValueBytes(work, p)
LastOfPage(p, q) ==
  /\ Off(work, p) = 0 => q * NumBytes < ValueBytes(work, p) /\ ValueBytes(work, p) <= (q + 1) * NumBytes
  /\ Off(work, p) # 0 => ValueBytes(work, p) <= q * NumBytes + Shift(work, p)
  /\ Off(work, p) # 0 /\ q # 0 => (q - 1) * NumBytes < ValueBytes(work, p)

\* A databeat that is not the last of its page.
LEMMA MergeMore ==
  ASSUME WellFormed(work), NEW p \in Pages(work), NEW q \in Nat, NEW m \in Nat,
         PutUpTo(p, q, m), plain \in Seq(PlainBeat),
         NEW lanes, Merges(p, lanes, FALSE),
         Merging(p, q, lanes),
         MoreBehind(p, q)
  PROVE  /\ stripped' = stripped /\ register' = RegisterAt(work, p, q + 1)
         /\ \E n \in 0..2 : Puts(n, m) /\ PutUpTo(p, q + 1, m + n)
  <1>1. /\ stripped' = stripped
        /\ IF Strip!Used(Filled(lanes)) = Strip!Lanes
           THEN plain' = Append(plain, Made(p, Filled(lanes), FALSE)) /\ register' = Rest(lanes)
           ELSE register' = Filled(lanes) /\ plain' = plain
    BY DEF Merges
  <1>2. PICK nb \in Nat : nb = NumBytes /\ nb >= 4
    BY Width4
  <1>3. PICK o \in 0..(nb - 1), s \in 0..(nb - 1) :
          o = Off(work, p) /\ s = Shift(work, p) /\ (o = 0 => s = 0) /\ (o # 0 => s = nb - o)
    BY <1>2, StripNumbers
  <1>4. work.layout[p].plains \in Nat
    BY PageFacts
  <1>5. ASSUME NEW j \in Nat, Filled(lanes) = Slice(work, p, ValuesAt(work, p) + j * NumBytes, NumBytes),
               (j + 1) * NumBytes < ValueBytes(work, p), m = work.layout[p].plains + j
        PROVE  register' = Rest(lanes) /\ Puts(1, m)
    <2>1. j * NumBytes < ValueBytes(work, p)
      <3>1. (j + 1) * nb = j * nb + nb /\ j * nb \in Nat
        BY <1>2
      <3>2. ValueBytes(work, p) \in Nat
        BY PageFacts
      <3>3. QED
        BY <1>2, <1>5, <3>1, <3>2
    <2>2. NumBytes \in 0..NumBytes
      BY <1>2
    <2>3. /\ j + 1 \in 1..Plains(work, p)
          /\ Strip!Bytes(Filled(lanes)) = PlainOf(work, p, j + 1).bytes
          /\ j + 1 # Plains(work, p)
          /\ Strip!Used(Filled(lanes)) = Strip!Lanes
      <3>1. PICK z : z = Slice(work, p, ValuesAt(work, p) + j * NumBytes, NumBytes)
        OBVIOUS
      <3>2. /\ j + 1 \in 1..Plains(work, p)
            /\ Strip!Bytes(z) = PlainOf(work, p, j + 1).bytes
            /\ (j + 1) * NumBytes < ValueBytes(work, p) <=> j + 1 # Plains(work, p)
            /\ j + 1 # Plains(work, p) => Strip!Used(z) = Strip!Lanes
        <4>1. j \in Nat
          BY <1>5
        <4>2. QED
          BY <2>1, <2>2, <3>1, <4>1, SliceMakesPlain
      <3>3. z = Filled(lanes) /\ (j + 1) * NumBytes < ValueBytes(work, p)
        BY <1>5, <3>1
      <3>4. QED
        BY <3>2, <3>3, Zenon
    <2>4. Made(p, Filled(lanes), FALSE) = PlainOf(work, p, j + 1)
      BY <2>3, MadeIs
    <2>5. /\ PlainOf(work, p, j + 1) \in PlainBeat
          /\ <<PlainOf(work, p, j + 1), work.layout[p].plains + (j + 1)>> \in NumberedPlains(work)
      BY <2>3, PlainSizes
    <2>6. work.layout[p].plains + (j + 1) = m + 1
      <3>1. j \in Nat /\ m = work.layout[p].plains + j
        BY <1>5
      <3>2. QED
        <4>1. PICK z \in Nat : z = work.layout[p].plains
          BY <1>4
        <4>2. m = z + j
          BY <3>1, <4>1, Zenon
        <4>3. z \in Nat /\ j \in Nat
          BY <3>1, <4>1
        <4>4. z + (j + 1) = m + 1
          BY <4>2, <4>3
        <4>5. QED
          BY <4>1, <4>4, Zenon
    <2>7. QED
      BY <1>1, <2>3, <2>4, <2>5, <2>6 DEF Puts
  <1>6. CASE o = 0
    <2>1. PutOf(work, p, q) = q /\ PutOf(work, p, q + 1) = q + 1 /\ RegisterAt(work, p, q + 1) = Strip!NoLanes
      BY <1>3, <1>6 DEF PutOf, RegisterAt
    <2>2. Filled(lanes) = Slice(work, p, ValuesAt(work, p) + q * NumBytes, NumBytes) /\ Rest(lanes) = Strip!NoLanes
      BY <1>3, <1>6 DEF Merging
    <2>3. (q + 1) * NumBytes < ValueBytes(work, p) /\ m = work.layout[p].plains + q
      BY <1>3, <1>6, <2>1 DEF MoreBehind, PutUpTo
    <2>4. register' = Rest(lanes) /\ Puts(1, m)
      BY <1>5, <2>2, <2>3
    <2>5. m + 1 = work.layout[p].plains + (q + 1)
      BY <1>4, <2>3
    <2>6. QED
      BY <1>1, <2>1, <2>2, <2>4, <2>5 DEF PutUpTo
  <1>7. CASE o # 0 /\ q = 0
    <2>1. PutOf(work, p, q) = 0 /\ PutOf(work, p, q + 1) = 0
      BY <1>3, <1>7 DEF PutOf
    <2>2. /\ Filled(lanes) = Slice(work, p, ValuesAt(work, p) + q * NumBytes, Shift(work, p))
          /\ RegisterAt(work, p, q + 1) = Slice(work, p, ValuesAt(work, p) + q * NumBytes, Shift(work, p))
      BY <1>3, <1>7 DEF Merging, RegisterAt
    <2>3. Strip!Used(Filled(lanes)) # Strip!Lanes
      <3>1. nb - 1 \in Strip!Lanes /\ ~(nb - 1 < s)
        BY <1>2, <1>3, <1>7 DEF Strip!Lanes
      <3>2. Filled(lanes)[nb - 1] = Strip!Nothing
        BY <1>3, <2>2, <3>1, SliceOut
      <3>3. nb - 1 \notin Strip!Used(Filled(lanes))
        BY <3>2 DEF Strip!Used
      <3>4. QED
        BY <3>1, <3>3
    <2>4. Puts(0, m)
      BY <1>1, <2>3 DEF Puts
    <2>5. m + 0 = work.layout[p].plains + 0
      BY <1>4, <2>1 DEF PutUpTo
    <2>6. QED
      BY <1>1, <2>1, <2>2, <2>3, <2>4, <2>5 DEF PutUpTo
  <1>8. CASE o # 0 /\ q # 0
    <2>1. PICK j \in Nat : j = q - 1 /\ j + 1 = q
      BY <1>8
    <2>2. PutOf(work, p, q) = j /\ PutOf(work, p, q + 1) = q
      BY <1>3, <1>8, <2>1 DEF PutOf
    <2>3. /\ Filled(lanes) = Slice(work, p, ValuesAt(work, p) + j * NumBytes, NumBytes)
          /\ Rest(lanes) = RegisterAt(work, p, q + 1)
      BY <1>3, <1>8, <2>1 DEF Merging, RegisterAt
    <2>4. (j + 1) * NumBytes < ValueBytes(work, p)
      BY <1>3, <1>8, <2>1 DEF MoreBehind
    <2>5. m = work.layout[p].plains + j
      BY <2>2 DEF PutUpTo
    <2>6. register' = Rest(lanes) /\ Puts(1, m)
      BY <1>5, <2>3, <2>4, <2>5
    <2>7. m + 1 = work.layout[p].plains + q
      BY <1>4, <2>1, <2>5
    <2>8. QED
      BY <1>1, <2>2, <2>3, <2>6, <2>7 DEF PutUpTo
  <1>9. QED
    BY <1>6, <1>7, <1>8

\* The last databeat of a page.
LEMMA MergeEnd ==
  ASSUME WellFormed(work), NEW p \in Pages(work), NEW q \in Nat, NEW m \in Nat,
         PutUpTo(p, q, m), plain \in Seq(PlainBeat),
         NEW lanes, Merges(p, lanes, TRUE),
         Merging(p, q, lanes),
         LastOfPage(p, q)
  PROVE  /\ stripped' = stripped + 1 /\ register' = Strip!NoLanes
         /\ \E n \in 0..2 : Puts(n, m) /\ m + n = PlainsDone(work, p)
  <1>1. /\ stripped' = stripped + 1 /\ register' = Strip!NoLanes
        /\ plain' = plain \o (IF Strip!Used(Rest(lanes)) = {} THEN << Made(p, Filled(lanes), TRUE) >>
                              ELSE << Made(p, Filled(lanes), FALSE), Made(p, Rest(lanes), TRUE) >>)
    BY DEF Merges
  <1>2. PICK nb \in Nat : nb = NumBytes /\ nb >= 4
    BY Width4
  <1>3. PICK o \in 0..(nb - 1), s \in 0..(nb - 1) :
          o = Off(work, p) /\ s = Shift(work, p) /\ (o = 0 => s = 0) /\ (o # 0 => s = nb - o)
    BY <1>2, StripNumbers
  <1>4. PICK u \in Nat, t \in Nat :
          /\ u = work.layout[p].plains /\ t = Plains(work, p) /\ PlainsDone(work, p) = u + t
          /\ u \in Nat /\ t \in Nat
    <2>1. work.layout[p].plains \in Nat /\ Plains(work, p) \in Nat /\ p # 0
      BY PageFacts
    <2>2. QED
      BY <2>1 DEF PlainsDone
  <1>41. u \in Nat /\ t \in Nat
    BY <1>4
  <1>42. PlainsDone(work, p) = u + t
    BY <1>4
  <1>5. PICK v \in Nat : v = ValueBytes(work, p) /\ v >= 1
    BY PageFacts
  <1>6. ASSUME NEW j \in Nat, NEW h \in 0..nb, NEW l, l = Slice(work, p, ValuesAt(work, p) + j * NumBytes, h),
               j * nb < v, h = nb \/ v <= j * nb + h, NEW end \in BOOLEAN, end <=> ~((j + 1) * nb < v)
        PROVE  /\ Made(p, l, end) = PlainOf(work, p, j + 1) /\ Strip!Used(l) # {} /\ (end <=> j + 1 = Plains(work, p))
               /\ PlainOf(work, p, j + 1) \in PlainBeat
               /\ <<PlainOf(work, p, j + 1), work.layout[p].plains + j + 1>> \in NumberedPlains(work)
    <2>1. /\ j + 1 \in 1..Plains(work, p)
          /\ Strip!Bytes(l) = PlainOf(work, p, j + 1).bytes
          /\ Strip!Used(l) # {}
          /\ (j + 1) * NumBytes < ValueBytes(work, p) <=> j + 1 # Plains(work, p)
      <3>1. j * NumBytes < ValueBytes(work, p) /\ h \in 0..NumBytes
        BY <1>2, <1>5, <1>6
      <3>2. h = NumBytes \/ ValueBytes(work, p) <= j * NumBytes + h
        BY <1>2, <1>5, <1>6
      <3>3. PICK z : z = Slice(work, p, ValuesAt(work, p) + j * NumBytes, h)
        OBVIOUS
      <3>4. /\ j + 1 \in 1..Plains(work, p)
            /\ Strip!Bytes(z) = PlainOf(work, p, j + 1).bytes
            /\ Strip!Used(z) # {}
            /\ (j + 1) * NumBytes < ValueBytes(work, p) <=> j + 1 # Plains(work, p)
        BY <3>1, <3>2, <3>3, SliceMakesPlain
      <3>5. z = l
        BY <1>6, <3>3
      <3>6. QED
        BY <3>4, <3>5, Zenon
    <2>2. end <=> j + 1 = Plains(work, p)
      BY <1>2, <1>5, <1>6, <2>1
    <2>3. Made(p, l, end) = PlainOf(work, p, j + 1)
      BY <2>1, <2>2, MadeIs
    <2>4. /\ PlainOf(work, p, j + 1) \in PlainBeat
          /\ <<PlainOf(work, p, j + 1), work.layout[p].plains + (j + 1)>> \in NumberedPlains(work)
      BY <2>1, PlainSizes
    <2>5. work.layout[p].plains + (j + 1) = work.layout[p].plains + j + 1
      <3>1. j \in Nat
        BY <1>6
      <3>2. u + (j + 1) = u + j + 1
        BY <1>41, <3>1
      <3>3. QED
        BY <1>4, <3>2, Zenon
    <2>6. QED
      BY <2>1, <2>2, <2>3, <2>4, <2>5
  \* One databeat.
  <1>7. ASSUME NEW j \in Nat, NEW h \in 0..nb, Filled(lanes) = Slice(work, p, ValuesAt(work, p) + j * NumBytes, h),
               j * nb < v, h = nb \/ v <= j * nb + h, ~((j + 1) * nb < v), m = work.layout[p].plains + j,
               Strip!Used(Rest(lanes)) = {}
        PROVE  Puts(1, m) /\ m + 1 = PlainsDone(work, p)
    <2>1. /\ Made(p, Filled(lanes), TRUE) = PlainOf(work, p, j + 1) /\ j + 1 = Plains(work, p)
          /\ PlainOf(work, p, j + 1) \in PlainBeat
          /\ <<PlainOf(work, p, j + 1), m + 1>> \in NumberedPlains(work)
      BY <1>6, <1>7
    <2>2. PICK x \in PlainBeat : x = PlainOf(work, p, j + 1)
      BY <2>1
    <2>3. plain' = plain \o <<x>>
      BY <1>1, <1>7, <2>1, <2>2
    <2>4. plain' = Append(plain, x)
      BY <2>3
    <2>5. m + 1 = PlainsDone(work, p)
      <3>1. m = u + j /\ j + 1 = t /\ j \in Nat
        BY <1>4, <1>7, <2>1
      <3>2. QED
        BY <1>41, <1>42, <3>1
    <2>6. QED
      BY <2>1, <2>2, <2>4, <2>5 DEF Puts
  <1>8. Strip!Used(Strip!NoLanes) = {}
    BY DEF Strip!Used, Strip!NoLanes
  <1>9. CASE o = 0
    <2>1. m = work.layout[p].plains + q /\ Strip!Used(Rest(lanes)) = {} /\ nb \in 0..nb
      BY <1>2, <1>3, <1>8, <1>9 DEF PutOf, PutUpTo, Merging
    <2>2. Filled(lanes) = Slice(work, p, ValuesAt(work, p) + q * NumBytes, nb)
      BY <1>2, <1>3, <1>9 DEF Merging
    <2>3. q * nb < v /\ v <= (q + 1) * nb
      BY <1>2, <1>3, <1>5, <1>9 DEF LastOfPage
    <2>4. ~((q + 1) * nb < v)
      <3>1. (q + 1) * nb \in Nat
        BY <1>2
      <3>2. QED
        BY <2>3, <3>1
    <2>5. Puts(1, m) /\ m + 1 = PlainsDone(work, p)
      BY <1>7, <2>1, <2>2, <2>3, <2>4
    <2>6. QED
      BY <1>1, <2>5
  <1>10. CASE o # 0 /\ q = 0
    <2>1. m = work.layout[p].plains + 0 /\ Strip!Used(Rest(lanes)) = {} /\ s \in 0..nb
      BY <1>2, <1>3, <1>4, <1>8, <1>10 DEF PutOf, PutUpTo, Merging
    <2>2. Filled(lanes) = Slice(work, p, ValuesAt(work, p) + 0 * NumBytes, s)
      BY <1>2, <1>3, <1>10 DEF Merging
    <2>3. 0 * nb = 0 /\ (0 + 1) * nb = nb
      BY <1>2
    <2>4. v <= 0 * nb + s
      BY <1>2, <1>3, <1>5, <1>10 DEF LastOfPage
    <2>5. 0 * nb < v /\ ~((0 + 1) * nb < v)
      BY <1>2, <1>3, <1>5, <2>3, <2>4
    <2>6. Puts(1, m) /\ m + 1 = PlainsDone(work, p)
      BY <1>7, <2>1, <2>2, <2>4, <2>5
    <2>7. QED
      BY <1>1, <2>6
  <1>11. CASE o # 0 /\ q # 0
    <2>1. PICK j : j \in Nat /\ j = q - 1 /\ j + 1 = q
      BY <1>11
    <2>2. /\ m = work.layout[p].plains + j /\ nb \in 0..nb /\ s \in 0..nb
          /\ Filled(lanes) = Slice(work, p, ValuesAt(work, p) + j * NumBytes, nb)
          /\ Rest(lanes) = Slice(work, p, ValuesAt(work, p) + q * NumBytes, s)
      BY <1>2, <1>3, <1>11, <2>1 DEF PutOf, PutUpTo, Merging
    <2>3. PICK a \in Nat : a = q * nb /\ v <= a + s /\ (q + 1) * nb = a + nb
      <3>1. v <= q * nb + s /\ q * nb \in Nat /\ (q + 1) * nb = q * nb + nb
        BY <1>2, <1>3, <1>5, <1>11 DEF LastOfPage
      <3>2. QED
        BY <3>1
    <2>4. j * nb < v
      BY <1>2, <1>3, <1>5, <1>11, <2>1 DEF LastOfPage
    <2>5. CASE v <= a
      <3>1. Strip!Used(Rest(lanes)) = {}
        <4>1. ASSUME NEW i \in Strip!Lanes PROVE Rest(lanes)[i] = Strip!Nothing
          <5>1. PICK b \in Nat, y \in Nat : b = work.contents[p].bytes /\ y = ValuesAt(work, p) /\ b = y + v
            BY <1>5, PageFacts
          <5>2. i \in Nat
            BY Width4 DEF Strip!Lanes
          <5>3. PICK z : z = y + a
            OBVIOUS
          <5>4. ~(z + i < b)
            BY <2>5, <5>1, <5>2, <5>3
          <5>5. Rest(lanes) = Slice(work, p, z, s)
            BY <1>2, <2>2, <2>3, <5>1, <5>3
          <5>6. ~(z + i < work.contents[p].bytes)
            BY <5>1, <5>4, Zenon
          <5>7. Slice(work, p, z, s)[i] = Strip!Nothing
            BY <5>6, SliceOut, Zenon
          <5>8. QED
            BY <5>5, <5>7, Zenon
        <4>2. QED
          BY <4>1 DEF Strip!Used
      <3>2. ~((j + 1) * nb < v)
        BY <2>1, <2>3, <2>5
      <3>3. Puts(1, m) /\ m + 1 = PlainsDone(work, p)
        BY <1>7, <2>1, <2>2, <2>4, <3>1, <3>2, Zenon
      <3>4. QED
        BY <1>1, <3>3
    <2>6. CASE ~(v <= a)
      <3>1. (j + 1) * nb < v /\ q * nb < v
        BY <2>1, <2>3, <2>6
      <3>2. /\ Made(p, Filled(lanes), FALSE) = PlainOf(work, p, j + 1) /\ PlainOf(work, p, j + 1) \in PlainBeat
            /\ <<PlainOf(work, p, j + 1), work.layout[p].plains + j + 1>> \in NumberedPlains(work)
        <4>1. FALSE <=> ~((j + 1) * nb < v)
          BY <3>1
        <4>2. QED
          BY <1>6, <2>1, <2>2, <2>4, <4>1, Zenon
      <3>3. v <= q * nb + s /\ ~((q + 1) * nb < v)
        BY <1>3, <2>3
      <3>4. /\ Made(p, Rest(lanes), TRUE) = PlainOf(work, p, q + 1) /\ PlainOf(work, p, q + 1) \in PlainBeat
            /\ <<PlainOf(work, p, q + 1), work.layout[p].plains + q + 1>> \in NumberedPlains(work)
            /\ q + 1 = Plains(work, p) /\ Strip!Used(Rest(lanes)) # {}
        BY <1>6, <2>2, <3>1, <3>3
      <3>5. PICK x \in PlainBeat, y \in PlainBeat : x = PlainOf(work, p, j + 1) /\ y = PlainOf(work, p, q + 1)
        BY <3>2, <3>4
      <3>6. plain' = plain \o <<x, y>>
        BY <1>1, <3>2, <3>4, <3>5
      <3>7. plain' = Append(Append(plain, x), y)
        BY <3>6, AppendTwo
      <3>8. u + j + 1 = m + 1 /\ u + q + 1 = m + 2 /\ m = u + j
        <4>1. m = u + j
          BY <1>4, <2>2, Zenon
        <4>2. QED
          BY <1>41, <2>1, <4>1
      <3>9. m + 2 = PlainsDone(work, p)
        <4>1. q + 1 = t
          BY <1>4, <3>4
        <4>2. m + 2 = u + t
          BY <1>41, <2>1, <3>8, <4>1
        <4>3. QED
          BY <1>42, <4>2, Zenon
      <3>10. Puts(2, m)
        <4>1. <<x, m + 1>> \in NumberedPlains(work) /\ <<y, m + 2>> \in NumberedPlains(work)
          BY <1>4, <3>2, <3>4, <3>5, <3>8, Zenon
        <4>2. QED
          BY <3>5, <3>7, <4>1 DEF Puts
      <3>11. QED
        BY <1>1, <3>9, <3>10
    <2>7. QED
      BY <2>5, <2>6
  <1>12. QED
    BY <1>9, <1>10, <1>11

\* Bytes of the page follow the databeat in the pipe, or it is the last.
LEMMA PipeBounds ==
  ASSUME WellFormed(work), NEW p \in Pages(work), NEW k \in Nat, k < Beats(work, p), k >= Whole(work, p),
         NEW q \in Nat, q = k - Whole(work, p)
  PROVE  /\ k + 1 # Beats(work, p) => MoreBehind(p, q)
         /\ k + 1 = Beats(work, p) => LastOfPage(p, q)
  <1>1. PICK nb \in Nat : nb = NumBytes /\ nb >= 4
    BY Width4
  <1>2. PICK o \in 0..(nb - 1), s \in 0..(nb - 1) :
          o = Off(work, p) /\ s = Shift(work, p) /\ (o = 0 => s = 0) /\ (o # 0 => s = nb - o)
    BY <1>1, StripNumbers
  <1>3. PICK v \in Nat, at \in Nat, size \in Nat :
          /\ v = ValueBytes(work, p) /\ at = ValuesAt(work, p) /\ size = work.contents[p].bytes
          /\ size = at + v /\ v >= 1
    BY PageFacts
  <1>4. PICK base, x : base \in Nat /\ x \in Nat /\ base = k * nb /\ x = q * nb
    BY <1>1
  <1>5. (q + 1) * nb = x + nb /\ (q - 1) * nb = x - nb
    BY <1>1, <1>4
  <1>6. /\ base + o = at + x /\ base < size
        /\ k + 1 = Beats(work, p) => size <= base + nb
        /\ k + 1 # Beats(work, p) => base + nb < size
    <2>1. /\ k * NumBytes + Off(work, p) = ValuesAt(work, p) + q * NumBytes
          /\ k * NumBytes < work.contents[p].bytes
          /\ k + 1 = Beats(work, p) => work.contents[p].bytes <= k * NumBytes + NumBytes
          /\ k + 1 # Beats(work, p) => k * NumBytes + NumBytes < work.contents[p].bytes
      BY PipeNumbers
    <2>2. k * NumBytes = base /\ q * NumBytes = x
      BY <1>1, <1>4, Zenon
    <2>3. QED
      BY <1>1, <1>2, <1>3, <2>1, <2>2, Zenon
  <1>7. o \in Nat /\ o < nb /\ s \in Nat
    BY <1>1, <1>2
  <1>8. ASSUME k + 1 # Beats(work, p) PROVE MoreBehind(p, q)
    <2>1. (o = 0 => x + nb < v) /\ (o # 0 => x < v)
      <3>1. base + nb < size
        BY <1>6, <1>8
      <3>2. base + o = at + x /\ size = at + v
        BY <1>3, <1>6
      <3>3. base \in Nat /\ x \in Nat /\ at \in Nat /\ v \in Nat
        BY <1>3, <1>4
      <3>4. QED
        BY <1>1, <1>7, <3>1, <3>2, <3>3
    <2>2. (o = 0 => (q + 1) * nb < v) /\ (o # 0 => q * nb < v)
      BY <1>4, <1>5, <2>1
    <2>3. QED
      BY <1>1, <1>2, <1>3, <2>2 DEF MoreBehind
  <1>9. ASSUME k + 1 = Beats(work, p) PROVE LastOfPage(p, q)
    <2>1. /\ o = 0 => x < v /\ v <= x + nb
          /\ o # 0 => v <= x + s /\ x - nb < v
      <3>1. size <= base + nb /\ base < size
        BY <1>6, <1>9
      <3>2. base + o = at + x /\ size = at + v
        BY <1>3, <1>6
      <3>3. base \in Nat /\ x \in Nat /\ at \in Nat /\ v \in Nat
        BY <1>3, <1>4
      <3>4. o # 0 => s = nb - o
        BY <1>2
      <3>5. QED
        BY <1>1, <1>7, <3>1, <3>2, <3>3, <3>4
    <2>2. /\ o = 0 => q * nb < v /\ v <= (q + 1) * nb
          /\ o # 0 => v <= q * nb + s /\ (q - 1) * nb < v
      BY <1>4, <1>5, <2>1
    <2>3. QED
      BY <1>1, <1>2, <1>3, <2>2 DEF LastOfPage
  <1>10. QED
    BY <1>8, <1>9

\* ST_PIPE puts the next databeats of the page, or none while the register fills.
LEMMA PipePlace ==
  ASSUME WellFormed(work), Strip!Pipe, UNCHANGED work, NEW d \in Nat, DecPlace(d), NEW m \in Nat, StripPlace(d, m),
         plain \in Seq(PlainBeat)
  PROVE  \E n \in 0..2 : Puts(n, m) /\ StripPlace(d + 1, m + n)'
  <1>1. /\ strip_state = "PIPE" /\ decompressed # <<>> /\ remaining_offset' = 0
        /\ strip_state' = IF Strip!Beat.last THEN "WAIT" ELSE "PIPE"
        /\ Strip!Merge(Strip!Rotated(Strip!Masked(Strip!LanesOf(Strip!Beat))), Strip!Beat.last)
        /\ shift_offset' = shift_offset
    BY DEF Strip!Pipe
  <1>2. PICK p \in Pages(work) : p = stripped + 1 /\ shift_offset = Shift(work, p) /\ stripped \in Nat /\ stripped < Len(work.pages)
    BY <1>1, StripWithin
  <1>3. PICK k \in Nat : k < Beats(work, p) /\ d = work.layout[p].before + k /\ Within(p, k, m)
    BY <1>1, <1>2, StripWithin
  <1>4. /\ k >= Whole(work, p) /\ remaining_offset = (IF k = Whole(work, p) THEN Off(work, p) ELSE 0)
        /\ register = RegisterAt(work, p, k - Whole(work, p))
        /\ m = work.layout[p].plains + PutOf(work, p, k - Whole(work, p))
    BY <1>1, <1>3 DEF Within
  <1>5. PICK q \in Nat : q = k - Whole(work, p)
    <2>1. Whole(work, p) \in Nat
      BY StripNumbers
    <2>2. QED
      BY <1>4, <2>1
  <1>6. PutUpTo(p, q, m)
    BY <1>4, <1>5 DEF PutUpTo
  <1>7. PICK b : b = Strip!Beat
    OBVIOUS
  <1>8. b.page = p /\ b.k = k + 1 /\ (b.last <=> k + 1 = Beats(work, p))
    BY <1>1, <1>3, <1>7, BeatIs
  <1>9. b.last \in BOOLEAN
    <2>1. decompressed \in Seq(Databeat)
      BY DEF DecPlace
    <2>2. Head(decompressed) \in Databeat
      BY <1>1, <2>1
    <2>3. b \in Databeat
      BY <1>7, <2>2, Zenon DEF Strip!Beat
    <2>4. QED
      BY <2>3 DEF Databeat
  <1>10. PICK lanes : lanes = Strip!Rotated(Strip!Masked(Strip!LanesOf(b)))
    OBVIOUS
  <1>11. Merging(p, q, lanes)
    BY <1>2, <1>3, <1>4, <1>5, <1>8, <1>10, MergedLanes
  <1>12. Merges(p, lanes, b.last)
    <2>1. Strip!Merge(lanes, b.last)
      BY <1>1, <1>7, <1>10, Zenon
    <2>2. QED
      BY <1>2, <1>9, <2>1, MergeIs
  <1>13. work.layout[p].before \in Nat /\ work.layout[p].plains \in Nat /\ Beats(work, p) \in Nat
    BY PageFacts
  <1>14. CASE ~b.last
    <2>1. MoreBehind(p, q)
      BY <1>3, <1>4, <1>5, <1>8, <1>14, PipeBounds
    <2>2. Merges(p, lanes, FALSE)
      BY <1>12, <1>14 DEF Merges
    <2>3. /\ stripped' = stripped /\ register' = RegisterAt(work, p, q + 1)
          /\ \E n \in 0..2 : Puts(n, m) /\ PutUpTo(p, q + 1, m + n)
      BY <1>6, <1>11, <2>1, <2>2, MergeMore
    <2>4. PICK n \in 0..2 : Puts(n, m) /\ PutUpTo(p, q + 1, m + n)
      BY <2>3
    <2>5. PICK g \in Nat : g = k + 1
      OBVIOUS
    <2>6. g - Whole(work, p) = q + 1 /\ g # Whole(work, p) /\ g >= Whole(work, p)
      <3>1. Whole(work, p) \in Nat
        BY StripNumbers
      <3>2. QED
        BY <1>4, <1>5, <2>5, <3>1
    <2>7. strip_state' = "PIPE"
      BY <1>1, <1>7, <1>14
    <2>8. PICK x \in Nat : x = m + n
      OBVIOUS
    <2>9. Within(p, g, x)'
      <3>1. x = work.layout[p].plains + PutOf(work, p, g - Whole(work, p))
        BY <2>4, <2>6, <2>8, Zenon DEF PutUpTo
      <3>2. register' = RegisterAt(work, p, g - Whole(work, p))
        BY <2>3, <2>6, Zenon
      <3>3. QED
        BY <1>1, <2>6, <2>7, <3>1, <3>2 DEF Within
    <2>10. g < Beats(work, p) /\ d + 1 = work.layout[p].before + g
      <3>1. k + 1 # Beats(work, p)
        BY <1>8, <1>14
      <3>2. PICK u, t : u \in Nat /\ t \in Nat /\ u = work.layout[p].before /\ t = Beats(work, p)
        BY <1>13
      <3>3. k < t /\ k + 1 # t /\ d = u + k
        BY <1>3, <3>1, <3>2, Zenon
      <3>4. u \in Nat /\ t \in Nat
        BY <3>2
      <3>5. g < t /\ d + 1 = u + g
        BY <2>5, <3>3, <3>4
      <3>6. QED
        BY <3>2, <3>5, Zenon
    <2>11. StripPlace(d + 1, x)'
      <3>1. stripped' + 1 = p /\ stripped' < Len(work.pages) /\ stripped' \in 0..Len(work.pages)
        <4>1. Len(work.pages) \in Nat
          BY DEF WellFormed
        <4>2. QED
          BY <1>2, <2>3, <4>1
      <3>2. \E y \in Nat : y < Beats(work, p) /\ d + 1 = work.layout[p].before + y /\ Within(p, y, x)'
        BY <2>9, <2>10
      <3>3. QED
        BY <1>1, <1>2, <2>7, <3>1, <3>2 DEF StripPlace
    <2>12. QED
      BY <2>4, <2>8, <2>11
  <1>15. CASE b.last
    <2>1. LastOfPage(p, q)
      BY <1>3, <1>4, <1>5, <1>8, <1>15, PipeBounds
    <2>2. Merges(p, lanes, TRUE)
      BY <1>12, <1>15 DEF Merges
    <2>3. /\ stripped' = stripped + 1 /\ register' = Strip!NoLanes
          /\ \E n \in 0..2 : Puts(n, m) /\ m + n = PlainsDone(work, p)
      BY <1>6, <1>11, <2>1, <2>2, MergeEnd
    <2>4. PICK n \in 0..2 : Puts(n, m) /\ m + n = PlainsDone(work, p)
      BY <2>3
    <2>5. PICK x \in Nat : x = m + n
      OBVIOUS
    <2>6. strip_state' = "WAIT"
      BY <1>1, <1>7, <1>15
    <2>7. stripped' = p /\ p \in 0..Len(work.pages) /\ p # 0
      BY <1>2, <2>3 DEF Pages
    <2>8. d + 1 = BeatsDone(work, p)
      <3>1. d + 1 = work.layout[p].before + Beats(work, p)
        <4>1. k + 1 = Beats(work, p)
          BY <1>8, <1>15
        <4>2. PICK u, t : u \in Nat /\ t \in Nat /\ u = work.layout[p].before /\ t = Beats(work, p)
          BY <1>13
        <4>3. k + 1 = t /\ d = u + k
          BY <1>3, <4>1, <4>2, Zenon
        <4>4. u \in Nat /\ t \in Nat
          BY <4>2
        <4>5. d + 1 = u + t
          BY <4>3, <4>4
        <4>6. QED
          BY <4>2, <4>5, Zenon
      <3>2. QED
        BY <2>7, <3>1 DEF BeatsDone
    <2>9. StripPlace(d + 1, x)'
      BY <2>3, <2>4, <2>5, <2>6, <2>7, <2>8 DEF StripPlace
    <2>10. QED
      BY <2>4, <2>5, <2>9
  <1>16. QED
    BY <1>9, <1>14, <1>15

\* What TypeOK says of StripLevels.
LEMMA StripTypes ==
  ASSUME WellFormed(work), NEW d \in Nat, NEW m \in Nat, StripPlace(d, m)
  PROVE  /\ strip_state \in {"WAIT", "CONSUME", "PIPE"}
         /\ strip_state = "CONSUME" => remaining_offset >= NumBytes
         /\ strip_state = "PIPE" => remaining_offset < NumBytes
  <1>1. PICK nb \in Nat : nb = NumBytes /\ nb >= 4
    BY Width4
  <1>2. strip_state \in {"WAIT", "CONSUME", "PIPE"}
    BY DEF StripPlace
  <1>3. ASSUME strip_state # "WAIT"
        PROVE  /\ strip_state = "CONSUME" => remaining_offset >= NumBytes
               /\ strip_state = "PIPE" => remaining_offset < NumBytes
    <2>1. PICK p \in Pages(work), k \in Nat : Within(p, k, m)
      BY <1>3, StripWithin
    <2>2. PICK f, o : f \in Nat /\ o \in 0..(nb - 1) /\ f = Whole(work, p) /\ o = Off(work, p) /\ ValuesAt(work, p) = f * nb + o
      BY <1>1, StripNumbers
    <2>3. CASE strip_state = "CONSUME"
      <3>1. k < f /\ remaining_offset = (f * nb + o) - k * nb
        BY <1>1, <2>1, <2>2, <2>3 DEF Within
      <3>2. PICK e : e \in Nat /\ e >= 1 /\ f = k + e
        <4>1. f - k \in Nat /\ f - k >= 1 /\ f = k + (f - k)
          BY <2>2, <3>1
        <4>2. QED
          BY <4>1
      <3>3. f * nb = k * nb + e * nb /\ e * nb >= nb /\ k * nb \in Nat /\ e * nb \in Nat
        BY <1>1, <3>2
      <3>4. remaining_offset >= nb
        BY <1>1, <2>2, <3>1, <3>3
      <3>5. QED
        BY <1>1, <2>3, <3>4
    <2>4. CASE strip_state = "PIPE"
      <3>1. remaining_offset = o \/ remaining_offset = 0
        BY <2>1, <2>2, <2>4 DEF Within
      <3>2. QED
        BY <1>1, <2>2, <2>4, <3>1
    <2>5. QED
      BY <1>2, <1>3, <2>3, <2>4
  <1>4. QED
    BY <1>2, <1>3

-----------------------------------------------------------------------------
(* The place of TypedNormalizeUntil.                                       *)

\* Values of type typ that fit a databeat.
PerBeat(typ) == NumBytes \div Width[typ]

\* A databeat holds at least one value.
LEMMA PerBeatFits ==
  ASSUME NEW typ \in DOMAIN Width
  PROVE  PerBeat(typ) \in Nat /\ PerBeat(typ) >= 1 /\ NumBytes = PerBeat(typ) * Width[typ]
  <1>1. PICK nb \in Nat : nb = NumBytes /\ nb >= 4
    BY Width4
  <1>2. PICK c \in 1..nb : c = Width[typ] /\ nb % c = 0
    BY <1>1, PathSizes
  <1>3. PICK n \in Nat, r \in 0..(c - 1) : n = nb \div c /\ r = nb % c /\ nb = n * c + r
    <2>1. c \in Nat /\ c >= 1
      BY <1>1, <1>2
    <2>2. nb \div c \in Nat /\ nb % c \in 0..(c - 1) /\ nb = (nb \div c) * c + (nb % c)
      BY <1>1, <2>1, Division
    <2>3. QED
      BY <2>2
  <1>4. r = 0 /\ nb = n * c
    BY <1>2, <1>3
  <1>5. n >= 1
    <2>1. n = 0 => n * c = 0
      BY <1>2
    <2>2. QED
      BY <1>1, <1>3, <1>4, <2>1
  <1>6. QED
    BY <1>1, <1>2, <1>3, <1>4, <1>5 DEF PerBeat

\* The quotient of a multiple.
LEMMA Divided ==
  ASSUME NEW x \in Nat, NEW c \in Nat, c >= 1
  PROVE  (x * c) \div c = x
  <1>1. x * c \in Nat
    OBVIOUS
  <1>2. PICK n \in Nat, r \in 0..(c - 1) : n = (x * c) \div c /\ x * c = n * c + r
    BY <1>1
  <1>3. 0 \in 0..(c - 1) /\ n * c + r = x * c + 0
    BY <1>1, <1>2
  <1>4. n = x
    BY <1>2, <1>3, Quotients
  <1>5. QED
    BY <1>2, <1>4

\* Products keep the order.
LEMMA ProductLess ==
  ASSUME NEW x \in Nat, NEW y \in Nat, NEW c \in Nat, c >= 1
  PROVE  x * c < y * c <=> x < y
  <1>1. CASE x < y
    <2>1. x + 1 \in Nat /\ x + 1 <= y
      BY <1>1
    <2>2. (x + 1) * c <= y * c /\ (x + 1) * c = x * c + c /\ x * c \in Nat /\ y * c \in Nat
      BY <2>1, Product
    <2>3. QED
      BY <1>1, <2>2
  <1>2. CASE ~(x < y)
    <2>1. y * c <= x * c /\ x * c \in Nat /\ y * c \in Nat
      BY <1>2, Product
    <2>2. QED
      BY <1>2, <2>1
  <1>3. QED
    BY <1>1, <1>2

\* The values of the j-th databeat of a page.
LEMMA PlainValues ==
  ASSUME NEW w, WellFormed(w), NEW p \in Pages(w), NEW j \in 1..Plains(w, p),
         NEW c \in Nat, c = Width[w.contents[p].typ], NEW n \in Nat, n = PerBeat(w.contents[p].typ)
  PROVE  /\ j # Plains(w, p) => PlainSize(w, p, j) \div c = n /\ j * n < w.layout[p].values
         /\ j = Plains(w, p) => /\ PlainSize(w, p, j) \div c = w.layout[p].values - (j - 1) * n
                                /\ w.layout[p].values - (j - 1) * n >= 1
  <1>1. PICK nb \in Nat : nb = NumBytes /\ nb >= 4
    BY Width4
  <1>2. c >= 1 /\ n >= 1 /\ nb = n * c /\ w.contents[p].typ \in DOMAIN Width
    BY <1>1, PageFacts, PerBeatFits
  <1>3. PICK v : v \in Nat /\ v = w.layout[p].values /\ v >= 1
    BY PageFacts
  <1>4. ValueBytes(w, p) = v * c /\ v * c \in Nat /\ v * c >= 1
    <2>1. ValueBytes(w, p) = v * c
      BY <1>3 DEF ValueBytes
    <2>2. QED
      BY <2>1, PageFacts
  <1>5. PICK i : i \in Nat /\ i = j - 1 /\ j = i + 1 /\ Plains(w, p) \in Nat
    <2>1. Plains(w, p) \in Nat
      BY PageFacts
    <2>2. j - 1 \in Nat /\ j = (j - 1) + 1
      BY <2>1
    <2>3. QED
      BY <2>1, <2>2
  \* x databeats are fewer than the page has exactly if they do not hold its values.
  <1>6. ASSUME NEW x \in Nat PROVE x < Plains(w, p) <=> x * n < v
    <2>1. x < Plains(w, p) <=> x * nb < v * c
      BY <1>1, <1>4, BeatsBound DEF Plains
    <2>2. x * n \in Nat /\ x * nb = (x * n) * c
      BY <1>2
    <2>3. PICK y \in Nat : y = x * n
      BY <2>2
    <2>4. y * c < v * c <=> y < v
      BY <1>2, <1>3, ProductLess
    <2>5. x * nb = y * c
      BY <2>2, <2>3, Zenon
    <2>6. QED
      BY <2>1, <2>3, <2>4, <2>5, Zenon
  <1>7. CASE j # Plains(w, p)
    <2>1. j \in Nat /\ j < Plains(w, p)
      BY <1>5, <1>7
    <2>2. j * n < v
      BY <1>6, <2>1
    <2>3. PlainSize(w, p, j) = n * c
      BY <1>1, <1>2, <1>7 DEF PlainSize
    <2>4. (n * c) \div c = n
      BY <1>2, Divided
    <2>5. QED
      BY <1>3, <1>7, <2>2, <2>3, <2>4
  <1>8. CASE j = Plains(w, p)
    <2>1. i < Plains(w, p)
      BY <1>5, <1>8
    <2>2. i * n < v /\ i * n \in Nat
      BY <1>5, <1>6, <2>1
    <2>3. PICK x : x \in Nat /\ x >= 1 /\ x = v - i * n
      <3>1. v - i * n \in Nat /\ v - i * n >= 1
        BY <1>3, <2>2
      <3>2. QED
        BY <3>1
    <2>4. PlainSize(w, p, j) = x * c
      <3>1. PlainSize(w, p, j) = v * c - i * nb
        BY <1>1, <1>4, <1>5, <1>8 DEF PlainSize
      <3>2. i * nb = (i * n) * c
        BY <1>2, <1>5
      <3>3. (v - i * n) * c = v * c - (i * n) * c
        BY <1>3, <2>2
      <3>4. QED
        BY <2>3, <3>1, <3>2, <3>3
    <2>5. (x * c) \div c = x
      BY <1>2, <2>3, Divided
    <2>6. v - (j - 1) * n = x
      BY <1>5, <2>3
    <2>7. QED
      BY <1>3, <1>8, <2>3, <2>4, <2>5, <2>6
  <1>9. QED
    BY <1>7, <1>8

\* m databeats were put at the input, g went through the gate.
NormRows(m, g) ==
  /\ skid \in Seq(PlainBeat) /\ plain \in Seq(PlainBeat) /\ Len(skid) <= SkidDepth
  /\ m = g + Len(skid) + Len(plain)
  /\ Row(NumberedPlains(work), skid, g) /\ Row(NumberedPlains(work), plain, g + Len(skid))

\* Of which page and chunk the next databeat through the gate is.
Between(g) ==
  /\ in_typ = Norm!NoType /\ Len(skid) < SkidDepth
  /\ \E q \in 0..Len(work.pages) : g = PlainsDone(work, q) /\ Ends(work, q, chunk)
Amid(g, p, j) ==
  /\ g + 1 = work.layout[p].plains + j /\ work.layout[p].chunk = chunk /\ in_typ = work.contents[p].typ
  /\ remaining = work.sizes[chunk] - (work.layout[p].upto - work.layout[p].values)
                   - (j - 1) * PerBeat(work.contents[p].typ)
Counting(g) ==
  /\ chunk \in 0..Len(work.sizes) /\ remaining \in Nat
  /\ chunk = 0 => remaining = 0 /\ skid = <<>>
  /\ IF remaining = 0 THEN Between(g)
     ELSE \E p \in Pages(work) : \E j \in 1..Plains(work, p) : Amid(g, p, j)

NormPlace(m, g) == NormRows(m, g) /\ Counting(g)

\* At first nothing went through the gate.
LEMMA NormInit ==
  ASSUME WellFormed(work), Norm!Init, plain = <<>>
  PROVE  NormPlace(0, 0)
  <1>1. /\ chunk = 0 /\ remaining = 0 /\ in_typ = Norm!NoType /\ skid = <<>>
    BY DEF Norm!Init
  <1>2. Len(<<>>) = 0 /\ <<>> \in Seq(PlainBeat)
    OBVIOUS
  <1>3. SkidDepth \in Nat /\ SkidDepth >= 1 /\ Len(work.pages) \in Nat /\ Len(work.sizes) \in Nat
    BY PathSizes DEF WellFormed
  <1>4. NormRows(0, 0)
    BY <1>1, <1>2, <1>3, RowEmpty DEF NormRows
  <1>5. Between(0)
    BY <1>1, <1>2, <1>3 DEF Between, PlainsDone, Ends
  <1>6. QED
    BY <1>1, <1>3, <1>4, <1>5 DEF NormPlace, Counting

\* Nothing is at the input when the last chunk has been counted.
LEMMA NothingBehind ==
  ASSUME WellFormed(work), NEW m \in Nat, NEW g \in Nat, NormPlace(m, g), remaining = 0, chunk = Len(work.sizes)
  PROVE  plain = <<>>
  <1>1. SUFFICES ASSUME plain # <<>> PROVE FALSE
    OBVIOUS
  <1>2. plain \in Seq(PlainBeat) /\ skid \in Seq(PlainBeat) /\ Row(NumberedPlains(work), plain, g + Len(skid))
    BY DEF NormPlace, NormRows
  <1>3. PICK u \in Nat : u = g + Len(skid) /\ u >= g
    BY <1>2
  <1>4. PICK x \in PlainBeat : <<x, u + 1>> \in NumberedPlains(work)
    BY <1>1, <1>2, <1>3, RowTail
  <1>5. PICK p \in Pages(work) : \E j \in 1..Plains(work, p) : u + 1 = work.layout[p].plains + j
    BY <1>4 DEF NumberedPlains
  <1>6. PICK q \in 0..Len(work.pages) : g = PlainsDone(work, q) /\ Ends(work, q, chunk)
    BY DEF NormPlace, Counting, Between
  <1>7. Len(work.sizes) \in Nat
    BY DEF WellFormed
  <1>8. q = Len(work.pages)
    <2>1. q # Len(work.pages) => chunk < Len(work.sizes)
      BY <1>6, <1>7, NextChunk
    <2>2. QED
      BY <1>7, <2>1
  <1>9. work.layout[p].plains + Plains(work, p) <= g
    BY <1>6, <1>8, PlainsBound
  <1>10. PICK f, b : f \in Nat /\ b \in Nat /\ f = work.layout[p].plains /\ b = Plains(work, p)
    BY PageFacts
  <1>11. PICK j \in 1..b : u + 1 = f + j
    BY <1>5, <1>10
  <1>12. f + b <= g /\ f \in Nat /\ b \in Nat
    BY <1>9, <1>10
  <1>13. QED
    BY <1>3, <1>11, <1>12

\* The databeats when one is passed, or one is taken, or both.
LEMMA RowsMove ==
  ASSUME NEW take \in BOOLEAN, NEW pass \in BOOLEAN, UNCHANGED work, NEW m \in Nat, NEW g \in Nat, NormRows(m, g),
         take => plain # <<>> /\ Len(skid) < SkidDepth, pass => skid # <<>>,
         plain' = IF take THEN Tail(plain) ELSE plain,
         skid' = (IF pass THEN Tail(skid) ELSE skid) \o (IF take THEN << Head(plain) >> ELSE <<>>)
  PROVE  /\ NormRows(m, IF pass THEN g + 1 ELSE g)'
         /\ pass => Len(skid') < SkidDepth
         /\ ~take /\ ~pass => skid' = skid
         /\ pass => <<Head(skid), g + 1>> \in NumberedPlains(work)
         /\ take => Head(plain) \in PlainBeat /\ <<Head(plain), g + Len(skid) + 1>> \in NumberedPlains(work)
  <1>1. /\ skid \in Seq(PlainBeat) /\ plain \in Seq(PlainBeat)
        /\ Row(NumberedPlains(work), skid, g) /\ Row(NumberedPlains(work), plain, g + Len(skid))
    BY DEF NormRows
  <1>2. PICK s, l, depth : /\ s \in Nat /\ l \in Nat /\ depth \in Nat /\ s = Len(skid) /\ l = Len(plain) /\ depth = SkidDepth
    <2>1. Len(skid) \in Nat /\ Len(plain) \in Nat
      BY <1>1
    <2>2. SkidDepth \in Nat
      BY PathSizes
    <2>3. QED
      BY <2>1, <2>2
  <1>21. s \in Nat /\ l \in Nat /\ depth \in Nat
    BY <1>2
  <1>3. s <= depth /\ m = g + s + l /\ (take => s < depth)
    BY <1>2 DEF NormRows
  <1>4. PICK h \in Nat : h = IF pass THEN g + 1 ELSE g
    OBVIOUS
  <1>5. PICK a : a = IF pass THEN Tail(skid) ELSE skid
    OBVIOUS
  <1>6. /\ a \in Seq(PlainBeat) /\ Row(NumberedPlains(work), a, h) /\ h + Len(a) = g + s /\ Len(a) \in Nat
        /\ pass => <<Head(skid), g + 1>> \in NumberedPlains(work) /\ Len(a) = s - 1
        /\ ~pass => a = skid
    <2>1. CASE pass
      <3>1. /\ <<Head(skid), g + 1>> \in NumberedPlains(work) /\ Row(NumberedPlains(work), Tail(skid), g + 1)
            /\ Tail(skid) \in Seq(PlainBeat) /\ Len(skid) \in Nat \ {0} /\ Len(Tail(skid)) = Len(skid) - 1
        BY <1>1, <2>1, RowTail
      <3>2. QED
        BY <1>2, <1>4, <1>5, <2>1, <3>1
    <2>2. CASE ~pass
      BY <1>1, <1>2, <1>4, <1>5, <2>2
    <2>3. QED
      BY <2>1, <2>2
  <1>7. CASE take
    <2>1. /\ <<Head(plain), g + Len(skid) + 1>> \in NumberedPlains(work)
          /\ Row(NumberedPlains(work), Tail(plain), g + Len(skid) + 1) /\ Head(plain) \in PlainBeat
          /\ Tail(plain) \in Seq(PlainBeat) /\ Len(plain) \in Nat \ {0} /\ Len(Tail(plain)) = Len(plain) - 1
      <3>1. PICK t \in Nat : t = g + Len(skid)
        BY <1>1
      <3>2. Row(NumberedPlains(work), plain, t)
        BY <1>1, <3>1
      <3>3. /\ <<Head(plain), t + 1>> \in NumberedPlains(work)
            /\ Row(NumberedPlains(work), Tail(plain), t + 1) /\ Head(plain) \in PlainBeat
            /\ Tail(plain) \in Seq(PlainBeat) /\ Len(plain) \in Nat \ {0} /\ Len(Tail(plain)) = Len(plain) - 1
        BY <1>1, <1>7, <3>2, RowTail
      <3>4. QED
        BY <3>1, <3>3
    <2>2. PICK x \in PlainBeat : x = Head(plain)
      BY <2>1
    <2>3. skid' = a \o <<x>>
      BY <1>5, <1>7, <2>2
    <2>4. skid' = Append(a, x)
      BY <1>6, <2>3, AppendIsConcat
    <2>5. PICK n \in Nat : n = g + s + 1 /\ n = h + Len(a) + 1
      BY <1>2, <1>6
    <2>6. <<x, n>> \in NumberedPlains(work)
      BY <1>2, <2>1, <2>2, <2>5
    <2>7. Row(NumberedPlains(work), Append(a, x), h)
      BY <1>6, <2>5, <2>6, RowAppend
    <2>8. Append(a, x) \in Seq(PlainBeat) /\ Len(Append(a, x)) = Len(a) + 1
      BY <1>6
    <2>9. PICK b \in Nat, f \in Nat : b = Len(a) /\ f = Len(plain') /\ f = Len(plain) - 1
      <3>1. Len(plain) - 1 \in Nat
        BY <2>1
      <3>2. Len(plain') = Len(plain) - 1
        BY <1>7, <2>1, Zenon
      <3>3. QED
        BY <1>6, <3>1, <3>2
    <2>91. PICK e \in Nat : e = b + 1 /\ e = Len(skid')
      <3>1. Len(skid') = b + 1
        BY <2>4, <2>8, <2>9, Zenon
      <3>2. b + 1 \in Nat
        <4>1. b \in Nat
          BY <2>9
        <4>2. QED
          BY <4>1
      <3>3. QED
        BY <3>1, <3>2
    <2>92. h + e = n /\ b \in Nat /\ e \in Nat /\ f \in Nat
      <3>1. e = b + 1 /\ n = h + b + 1
        BY <2>5, <2>9, <2>91, Zenon
      <3>2. b \in Nat /\ f \in Nat
        BY <2>9
      <3>3. QED
        BY <3>1, <3>2
    <2>93. f + 1 = l
      <3>1. f = l - 1
        BY <1>2, <2>9, Zenon
      <3>2. QED
        BY <1>21, <3>1
    <2>10. e <= depth /\ (pass => e < depth)
      <3>1. b = IF pass THEN s - 1 ELSE s
        BY <1>2, <1>6, <2>9
      <3>2. e = IF pass THEN s ELSE s + 1
        BY <1>21, <2>91, <2>92, <3>1
      <3>3. QED
        BY <1>21, <1>3, <1>7, <3>2
    <2>11. m = h + e + f
      <3>1. m = g + s + l /\ n = g + s + 1 /\ s \in Nat /\ l \in Nat
        BY <1>2, <1>3, <2>5
      <3>2. QED
        BY <2>92, <2>93, <3>1
    <2>12. Row(NumberedPlains(work), plain', h + Len(skid')) /\ plain' \in Seq(PlainBeat)
      <3>1. h + Len(skid') = n
        BY <2>91, <2>92, Zenon
      <3>2. n = g + Len(skid) + 1
        BY <1>2, <2>5, Zenon
      <3>3. QED
        BY <1>7, <2>1, <3>1, <3>2, Zenon
    <2>13. NormRows(m, h)'
      <3>1. skid' \in Seq(PlainBeat) /\ Row(NumberedPlains(work), skid', h)
        BY <2>4, <2>7, <2>8, Zenon
      <3>2. Len(skid') <= SkidDepth /\ m = h + Len(skid') + Len(plain')
        BY <1>2, <2>9, <2>91, <2>10, <2>11, Zenon
      <3>3. QED
        BY <2>12, <3>1, <3>2 DEF NormRows
    <2>14. QED
      BY <1>2, <1>4, <1>6, <1>7, <2>1, <2>91, <2>10, <2>13
  <1>8. CASE ~take
    <2>1. skid' = a /\ plain' = plain
      <3>1. skid' = a \o <<>>
        BY <1>5, <1>8
      <3>2. a \o <<>> = a
        BY <1>6, ConcatEmptySeq
      <3>3. QED
        BY <1>8, <3>1, <3>2, Zenon
    <2>2. Len(a) <= depth /\ (pass => Len(a) < depth)
      BY <1>2, <1>3, <1>6
    <2>3. m = h + Len(a) + l
      BY <1>2, <1>3, <1>6
    <2>4. Row(NumberedPlains(work), plain, h + Len(a))
      BY <1>1, <1>2, <1>6
    <2>5. NormRows(m, h)'
      BY <1>1, <1>2, <1>6, <2>1, <2>2, <2>3, <2>4 DEF NormRows
    <2>6. QED
      BY <1>2, <1>4, <1>6, <1>8, <2>1, <2>2, <2>5
  <1>9. QED
    BY <1>7, <1>8

\* The type that is taken with the size of a chunk is the type of its pages: the databeat at the
\* input then is of that chunk.
LEMMA ConfigurePlace ==
  ASSUME WellFormed(work), NEW m \in Nat, NEW g \in Nat, NormPlace(m, g), Norm!Configure, UNCHANGED work,
         chunk' = chunk + 1, remaining' = work.sizes[chunk + 1], in_typ' = Head(plain).typ
  PROVE  Counting(g)' /\ in_typ' # Norm!NoType /\ remaining' # 0
  <1>1. /\ remaining = 0 /\ plain # <<>> /\ chunk < Len(work.sizes)
    BY DEF Norm!Configure, Norm!Unconfigured
  <1>2. /\ plain \in Seq(PlainBeat) /\ skid \in Seq(PlainBeat) /\ Row(NumberedPlains(work), plain, g + Len(skid))
        /\ chunk \in 0..Len(work.sizes) /\ (chunk = 0 => skid = <<>>) /\ Len(skid) < SkidDepth
    BY <1>1 DEF NormPlace, NormRows, Counting, Between
  <1>3. PICK q \in 0..Len(work.pages) : g = PlainsDone(work, q) /\ Ends(work, q, chunk)
    BY <1>1 DEF NormPlace, Counting, Between
  <1>4. Len(work.sizes) \in Nat /\ Len(work.pages) \in Nat /\ chunk \in Nat /\ chunk + 1 \in 1..Len(work.sizes)
    <2>1. Len(work.sizes) \in Nat /\ Len(work.pages) \in Nat
      BY DEF WellFormed
    <2>2. QED
      BY <1>1, <1>2, <2>1
  <1>5. /\ q + 1 \in Pages(work) /\ work.layout[q + 1].chunk = chunk + 1
        /\ work.layout[q + 1].upto = work.layout[q + 1].values
        /\ work.layout[q + 1].plains = PlainsDone(work, q)
    <2>1. q # Len(work.pages)
      BY <1>1, <1>3, <1>4, NextChunk
    <2>2. QED
      BY <1>3, <1>4, <2>1, NextChunk
  <1>6. PICK p \in Pages(work) : p = q + 1 /\ p \in Nat /\ p >= 1
    <2>1. q \in Nat
      BY <1>3, <1>4
    <2>2. QED
      BY <1>5, <2>1
  <1>7. /\ work.layout[p].chunk = chunk + 1 /\ work.layout[p].upto = work.layout[p].values
        /\ work.layout[p].plains = g
    BY <1>3, <1>5, <1>6, Zenon
  <1>8. PICK u \in Nat : u = Len(skid) /\ u < SkidDepth /\ (p = 1 => u = 0)
    <2>1. p = 1 => Len(skid) = 0
      <3>1. p = 1 => q = 0
        BY <1>3, <1>4, <1>6
      <3>2. q = 0 => chunk = 0
        BY <1>3 DEF Ends
      <3>3. Len(<<>>) = 0
        OBVIOUS
      <3>4. QED
        BY <1>2, <3>1, <3>2, <3>3
    <2>2. Len(skid) \in Nat
      BY <1>2
    <2>3. QED
      BY <1>2, <2>1, <2>2
  <1>9. PICK x \in PlainBeat, t \in Nat : x = Head(plain) /\ t = g + u + 1 /\ <<x, t>> \in NumberedPlains(work)
    <2>1. PICK z \in Nat : z = g + u
      OBVIOUS
    <2>2. Row(NumberedPlains(work), plain, z)
      BY <1>2, <1>8, <2>1
    <2>3. Head(plain) \in PlainBeat /\ <<Head(plain), z + 1>> \in NumberedPlains(work)
      BY <1>1, <1>2, <2>2, RowTail
    <2>4. z + 1 \in Nat /\ z + 1 = g + u + 1
      BY <2>1
    <2>5. QED
      BY <2>3, <2>4
  <1>10. PICK e \in Pages(work) : \E j \in 1..Plains(work, e) : x = PlainOf(work, e, j) /\ t = work.layout[e].plains + j
    BY <1>9 DEF NumberedPlains
  <1>11. PICK j \in 1..Plains(work, e) : x = PlainOf(work, e, j) /\ t = work.layout[e].plains + j
    BY <1>10
  <1>12. work.contents[e].typ = work.contents[p].typ
    <2>1. work.layout[e].plains + j = work.layout[p].plains + 1 + u
      BY <1>7, <1>8, <1>9, <1>11
    <2>2. p > 1 => work.layout[p].chunk # work.layout[p - 1].chunk
      <3>1. ASSUME p > 1 PROVE work.layout[p].chunk # work.layout[p - 1].chunk
        <4>1. q # 0 /\ p - 1 = q
          BY <1>3, <1>4, <1>6, <3>1
        <4>2. work.layout[q].chunk = chunk
          BY <1>3, <4>1 DEF Ends
        <4>3. chunk # chunk + 1
          BY <1>4
        <4>4. QED
          BY <1>7, <4>1, <4>2, <4>3
      <3>2. QED
        BY <3>1
    <2>3. QED
      BY <1>8, <2>1, <2>2, SameChunk
  <1>13. in_typ' = work.contents[p].typ
    <2>1. x.typ = work.contents[e].typ
      BY <1>11 DEF PlainOf
    <2>2. QED
      BY <1>9, <1>12, <2>1, Zenon
  <1>14. Plains(work, p) \in Nat /\ Plains(work, p) >= 1 /\ work.contents[p].typ \in DOMAIN Width
    BY PageFacts
  <1>15. in_typ' # Norm!NoType
    BY <1>13, <1>14, NoTypeAssumption
  <1>16. work.sizes[chunk + 1] \in Nat /\ work.sizes[chunk + 1] # 0
    <2>1. \A i \in 1..Len(work.sizes) : work.sizes[i] \in Nat \ {0}
      BY DEF WellFormed
    <2>2. QED
      BY <1>4, <2>1
  <1>17. Amid(g, p, 1)'
    <2>1. (1 - 1) * PerBeat(work.contents[p].typ) = 0
      BY <1>14, PerBeatFits
    <2>2. PICK v : v \in Nat /\ v = work.layout[p].values /\ v = work.layout[p].upto
      BY <1>7, PageFacts
    <2>3. PICK s : s \in Nat /\ s = work.sizes[chunk + 1]
      BY <1>16
    <2>4. s = s - (v - v) - 0
      BY <2>2, <2>3
    <2>5. remaining' = work.sizes[chunk + 1] - (work.layout[p].upto - work.layout[p].values)
                         - (1 - 1) * PerBeat(work.contents[p].typ)
      BY <2>1, <2>2, <2>3, <2>4, Zenon
    <2>6. g + 1 = work.layout[p].plains + 1
      BY <1>7
    <2>7. QED
      BY <1>7, <1>13, <2>5, <2>6 DEF Amid
  <1>18. QED
    <2>1. chunk' \in 0..Len(work.sizes) /\ chunk' # 0 /\ remaining' \in Nat /\ remaining' # 0
      BY <1>4, <1>16
    <2>2. 1 \in 1..Plains(work, p)
      BY <1>14
    <2>3. \E y \in Pages(work) : \E z \in 1..Plains(work, y) : Amid(g, y, z)'
      BY <1>17, <2>2
    <2>4. QED
      BY <1>15, <2>1, <2>3 DEF Counting

\* The databeat that passes the gate, and its values.
LEMMA GateCounts ==
  ASSUME WellFormed(work), NEW g \in Nat, NEW p \in Pages(work), NEW j \in 1..Plains(work, p), Amid(g, p, j),
         <<Head(skid), g + 1>> \in NumberedPlains(work),
         NEW n \in Nat, n = PerBeat(work.contents[p].typ)
  PROVE  /\ Head(skid) = PlainOf(work, p, j) /\ (Head(skid).last <=> j = Plains(work, p))
         /\ j # Plains(work, p) => Norm!NumValues = n /\ j * n < work.layout[p].values
         /\ j = Plains(work, p) => Norm!NumValues = work.layout[p].values - (j - 1) * n
  <1>1. PICK e \in Pages(work) : \E i \in 1..Plains(work, e) : Head(skid) = PlainOf(work, e, i) /\ g + 1 = work.layout[e].plains + i
    BY DEF NumberedPlains
  <1>2. PICK i \in 1..Plains(work, e) : Head(skid) = PlainOf(work, e, i) /\ g + 1 = work.layout[e].plains + i
    BY <1>1
  <1>3. g + 1 = work.layout[p].plains + j /\ in_typ = work.contents[p].typ
    BY DEF Amid
  <1>4. e = p /\ i = j
    <2>1. work.layout[e].plains + i = work.layout[p].plains + j
      BY <1>2, <1>3, Zenon
    <2>2. QED
      BY <2>1, PlainUnique
  <1>5. Head(skid) = PlainOf(work, p, j)
    BY <1>2, <1>4, Zenon
  <1>6. /\ Len(Head(skid).bytes) = PlainSize(work, p, j) /\ (Head(skid).last <=> j = Plains(work, p))
    BY <1>5, PlainSizes
  <1>7. PICK c \in Nat : c = Width[work.contents[p].typ]
    BY PageFacts
  <1>8. in_typ # Norm!NoType
    BY <1>3, PageFacts, NoTypeAssumption
  <1>9. Norm!NumValues = PlainSize(work, p, j) \div c
    BY <1>3, <1>6, <1>7, <1>8, Zenon DEF Norm!NumValues
  <1>10. QED
    BY <1>5, <1>6, <1>7, <1>9, PlainValues

\* Each databeat through the gate takes its values off the count, which comes to zero exactly with
\* the last databeat of the chunk.
LEMMA PassPlace ==
  ASSUME WellFormed(work), NEW g \in Nat, remaining # 0, Counting(g), UNCHANGED <<work, chunk>>,
         <<Head(skid), g + 1>> \in NumberedPlains(work), Len(skid') < SkidDepth,
         remaining' = Norm!NextRemaining, in_typ' = IF Norm!GateLast THEN Norm!NoType ELSE in_typ
  PROVE  Counting(g + 1)' /\ (remaining' = 0 <=> Norm!GateLast) /\ in_typ # Norm!NoType /\ Norm!GateLast \in BOOLEAN
  <1>1. chunk \in 0..Len(work.sizes) /\ chunk # 0
    BY DEF Counting
  <1>2. PICK p \in Pages(work) : \E j \in 1..Plains(work, p) : Amid(g, p, j)
    BY DEF Counting
  <1>3. PICK j \in 1..Plains(work, p) : Amid(g, p, j)
    BY <1>2
  <1>4. PICK n \in Nat : n = PerBeat(work.contents[p].typ)
    BY PageFacts, PerBeatFits
  <1>5. /\ Head(skid).last <=> j = Plains(work, p)
        /\ j # Plains(work, p) => Norm!NumValues = n /\ j * n < work.layout[p].values
        /\ j = Plains(work, p) => Norm!NumValues = work.layout[p].values - (j - 1) * n
    BY <1>3, <1>4, GateCounts
  <1>6. PICK v, u, s : /\ v \in Nat /\ u \in Nat /\ s \in Nat
                       /\ v = work.layout[p].values /\ u = work.layout[p].upto /\ s = work.sizes[chunk] /\ u <= s
    <2>1. work.layout[p].chunk = chunk
      BY <1>3 DEF Amid
    <2>2. work.layout[p].values \in Nat /\ work.layout[p].upto \in Nat
      BY PageFacts
    <2>3. work.sizes[chunk] \in Nat
      <3>1. chunk \in 1..Len(work.sizes)
        BY <1>1 DEF WellFormed
      <3>2. QED
        BY <3>1 DEF WellFormed
    <2>4. work.layout[p].upto <= work.sizes[chunk]
      <3>1. work.layout[p].upto <= work.sizes[work.layout[p].chunk]
        BY UptoBound
      <3>2. QED
        BY <2>1, <3>1, Zenon
    <2>5. QED
      BY <2>2, <2>3, <2>4
  <1>7. v \in Nat /\ u \in Nat /\ s \in Nat /\ u <= s
    BY <1>6
  <1>8. PICK x, y : x \in Nat /\ y \in Nat /\ x = (j - 1) * n /\ y = j * n /\ y = x + n
    <2>1. j \in Nat /\ j - 1 \in Nat /\ Plains(work, p) \in Nat
      <3>1. Plains(work, p) \in Nat
        BY PageFacts
      <3>2. QED
        BY <3>1
    <2>2. PICK i \in Nat : i = j - 1 /\ j = i + 1
      BY <2>1
    <2>3. i * n \in Nat /\ (i + 1) * n = i * n + n /\ (i + 1) * n \in Nat
      BY Product
    <2>4. QED
      BY <2>2, <2>3
  <1>9. x \in Nat /\ y \in Nat /\ y = x + n
    BY <1>8
  <1>10. remaining = s - (u - v) - x
    BY <1>3, <1>4, <1>6, <1>8, Zenon DEF Amid
  <1>11. /\ g + 1 = work.layout[p].plains + j /\ work.layout[p].chunk = chunk /\ in_typ = work.contents[p].typ
    BY <1>3 DEF Amid
  <1>12. in_typ # Norm!NoType
    BY <1>11, PageFacts, NoTypeAssumption
  <1>13. PICK f, b : f \in Nat /\ b \in Nat /\ f = work.layout[p].plains /\ b = Plains(work, p)
    BY PageFacts
  <1>14. f \in Nat /\ b \in Nat /\ j \in 1..b /\ g + 1 = f + j
    BY <1>11, <1>13
  <1>15. CASE j # Plains(work, p)
    <2>1. Norm!NumValues = n /\ y < v /\ ~Head(skid).last
      BY <1>5, <1>6, <1>8, <1>15
    <2>2. remaining' = s - (u - v) - y /\ remaining' \in Nat /\ remaining' # 0
      <3>1. remaining' = (s - (u - v) - x) - n
        BY <1>10, <2>1, Zenon DEF Norm!NextRemaining
      <3>2. QED
        BY <1>7, <1>9, <2>1, <3>1
    <2>3. ~Norm!GateLast /\ in_typ' = in_typ
      BY <2>1 DEF Norm!GateLast
    <2>4. PICK i \in Nat : i = j + 1 /\ i - 1 = j /\ i \in 1..b /\ (g + 1) + 1 = f + i
      <3>1. j # b
        BY <1>13, <1>15
      <3>2. QED
        BY <1>14, <3>1
    <2>5. Amid(g + 1, p, i)'
      <3>1. remaining' = work.sizes[chunk] - (work.layout[p].upto - work.layout[p].values)
                           - (i - 1) * PerBeat(work.contents[p].typ)
        BY <1>4, <1>6, <1>8, <2>2, <2>4, Zenon
      <3>2. (g + 1) + 1 = work.layout[p].plains + i
        BY <1>13, <2>4, Zenon
      <3>3. QED
        BY <1>11, <2>3, <3>1, <3>2 DEF Amid
    <2>6. \E e \in Pages(work) : \E z \in 1..Plains(work, e) : Amid(g + 1, e, z)'
      BY <1>13, <2>4, <2>5
    <2>7. chunk' \in 0..Len(work'.sizes) /\ chunk' # 0 /\ in_typ' # Norm!NoType
      BY <1>1, <1>12, <2>3
    <2>8. Counting(g + 1)'
      BY <2>2, <2>6, <2>7 DEF Counting
    <2>9. (remaining' = 0 <=> Norm!GateLast) /\ Norm!GateLast \in BOOLEAN
      BY <2>1, <2>2 DEF Norm!GateLast
    <2>10. QED
      BY <1>12, <2>8, <2>9
  <1>16. CASE j = Plains(work, p)
    <2>1. Norm!NumValues = v - x /\ Head(skid).last
      BY <1>5, <1>6, <1>8, <1>16, Zenon
    <2>2. remaining' = s - u /\ remaining' \in Nat
      <3>1. remaining' = (s - (u - v) - x) - (v - x)
        BY <1>10, <2>1, Zenon DEF Norm!NextRemaining
      <3>2. QED
        BY <1>7, <1>9, <3>1
    <2>3. (Norm!GateLast <=> remaining' = 0) /\ Norm!GateLast \in BOOLEAN
      BY <2>1 DEF Norm!GateLast
    <2>4. g + 1 = PlainsDone(work, p) /\ p \in 0..Len(work.pages) /\ p # 0 /\ p \in Nat /\ p <= Len(work.pages)
      <3>1. p \in Nat /\ p >= 1 /\ p <= Len(work.pages) /\ Len(work.pages) \in Nat
        BY PageFacts
      <3>2. g + 1 = f + b
        BY <1>11, <1>13, <1>16, Zenon
      <3>3. QED
        BY <1>13, <3>1, <3>2 DEF PlainsDone
    <2>5. CASE s = u
      <3>1. remaining' = 0 /\ in_typ' = Norm!NoType
        BY <1>7, <2>2, <2>3, <2>5
      <3>2. Ends(work, p, chunk)
        BY <1>6, <1>11, <2>4, <2>5 DEF Ends
      <3>3. Between(g + 1)'
        BY <2>4, <3>1, <3>2 DEF Between
      <3>4. QED
        BY <1>1, <1>12, <2>2, <2>3, <3>1, <3>3 DEF Counting
    <2>6. CASE s # u
      <3>1. remaining' # 0 /\ in_typ' = in_typ
        BY <1>7, <2>2, <2>3, <2>6
      <3>2. p < Len(work.pages)
        <4>1. p = Len(work.pages) => work.layout[p].upto = work.sizes[work.layout[p].chunk]
          BY DEF WellFormed
        <4>2. p # Len(work.pages)
          BY <1>6, <1>11, <2>6, <4>1
        <4>3. QED
          BY <2>4, <4>2
      <3>3. PICK e \in Pages(work) : /\ e = p + 1
                                     /\ work.layout[e].plains = PlainsDone(work, p)
                                     /\ work.layout[e].chunk = work.layout[p].chunk
                                     /\ work.contents[e].typ = work.contents[p].typ
                                     /\ work.layout[e].upto = work.layout[e].values + u
        <4>1. work.layout[p].upto # work.sizes[work.layout[p].chunk]
          BY <1>6, <1>11, <2>6
        <4>2. p + 1 \in Pages(work) /\ work.layout[p + 1].plains = PlainsDone(work, p)
          BY <2>4, <3>2, NextPage
        <4>3. work.layout[p + 1].chunk = work.layout[p].chunk
          BY <2>4, <3>2, <4>1, NextPage
        <4>4. work.contents[p + 1].typ = work.contents[p].typ
          BY <2>4, <3>2, <4>3, NextPage
        <4>5. work.layout[p + 1].upto = work.layout[p + 1].values + work.layout[p].upto
          BY <2>4, <3>2, <4>3, NextPage
        <4>6. QED
          BY <1>6, <4>2, <4>3, <4>4, <4>5
      <3>4. Plains(work, e) \in Nat /\ Plains(work, e) >= 1 /\ work.layout[e].values \in Nat
        BY PageFacts
      <3>5. remaining' = work.sizes[chunk] - (work.layout[e].upto - work.layout[e].values)
                           - (1 - 1) * PerBeat(work.contents[e].typ)
        <4>1. PICK z : z \in Nat /\ z = work.layout[e].values
          BY <3>4
        <4>2. (1 - 1) * n = 0
          OBVIOUS
        <4>3. s - u = s - ((z + u) - z) - 0
          <5>1. z \in Nat
            BY <4>1
          <5>2. QED
            BY <1>7, <5>1
        <4>4. QED
          BY <1>4, <1>6, <2>2, <3>3, <4>1, <4>2, <4>3, Zenon
      <3>6. Amid(g + 1, e, 1)'
        <4>1. (g + 1) + 1 = work.layout[e].plains + 1
          BY <2>4, <3>3, Zenon
        <4>2. QED
          BY <1>11, <3>1, <3>3, <3>5, <4>1 DEF Amid
      <3>7. \E y_ \in Pages(work) : \E z \in 1..Plains(work, y_) : Amid(g + 1, y_, z)'
        <4>1. 1 \in 1..Plains(work, e)
          BY <3>4
        <4>2. QED
          BY <3>6, <4>1
      <3>8. QED
        BY <1>1, <1>12, <2>2, <2>3, <3>1, <3>7 DEF Counting
    <2>7. QED
      BY <2>5, <2>6
  <1>17. QED
    BY <1>15, <1>16

\* A type waits while there is something to count.
LEMMA TypeWhileCounting ==
  ASSUME WellFormed(work), NEW g \in Nat, Counting(g)
  PROVE  /\ remaining = 0 <=> in_typ = Norm!NoType
         /\ chunk \in 0..Len(work.sizes) /\ Len(work.sizes) \in Nat /\ remaining \in Nat
  <1>1. /\ chunk \in 0..Len(work.sizes) /\ remaining \in Nat
        /\ IF remaining = 0 THEN Between(g) ELSE \E p \in Pages(work) : \E j \in 1..Plains(work, p) : Amid(g, p, j)
    BY DEF Counting
  <1>2. Len(work.sizes) \in Nat
    BY DEF WellFormed
  <1>3. CASE remaining = 0
    BY <1>1, <1>2, <1>3 DEF Between
  <1>4. CASE remaining # 0
    <2>1. PICK p \in Pages(work) : in_typ = work.contents[p].typ
      BY <1>1, <1>4 DEF Amid
    <2>2. in_typ # Norm!NoType
      BY <2>1, PageFacts, NoTypeAssumption
    <2>3. QED
      BY <1>1, <1>2, <1>4, <2>2
  <1>5. QED
    BY <1>3, <1>4

\* The gate takes the databeats in their order and counts the values of the chunk they are of.
LEMMA NormStep ==
  ASSUME WellFormed(work), NEW m \in Nat, NEW g \in Nat, NormPlace(m, g), UNCHANGED work,
         NEW normalizer_ready \in BOOLEAN, NEW out_ready \in BOOLEAN, Norm!Clock(normalizer_ready, out_ready)
  PROVE  /\ \E h \in Nat : NormPlace(m, h)'
         /\ remaining # 0 /\ skid # <<>> /\ normalizer_ready
              => (remaining' = 0 <=> Norm!GateLast) /\ Norm!GateLast \in BOOLEAN
         /\ Norm!Configure => remaining' # 0
  <1>1. PICK take \in BOOLEAN : take <=> (plain # <<>> /\ Len(skid) < SkidDepth)
    OBVIOUS
  <1>2. PICK pass \in BOOLEAN : pass <=> (remaining # 0 /\ skid # <<>> /\ normalizer_ready)
    OBVIOUS
  <1>3. /\ plain' = IF take THEN Tail(plain) ELSE plain
        /\ skid' = (IF pass THEN Tail(skid) ELSE skid) \o (IF take THEN << Head(plain) >> ELSE <<>>)
        /\ chunk' = IF Norm!Configure THEN chunk + 1 ELSE chunk
        /\ remaining' = IF Norm!Configure THEN work.sizes[chunk'] ELSE IF pass THEN Norm!NextRemaining ELSE remaining
        /\ in_typ' = IF Norm!Configure THEN Head(plain).typ ELSE IF pass /\ Norm!GateLast THEN Norm!NoType ELSE in_typ
    BY <1>1, <1>2 DEF Norm!Clock, Norm!Unconfigured
  <1>4. NormRows(m, g) /\ Counting(g)
    BY DEF NormPlace
  <1>5. /\ NormRows(m, IF pass THEN g + 1 ELSE g)'
        /\ pass => Len(skid') < SkidDepth
        /\ ~take /\ ~pass => skid' = skid
        /\ pass => <<Head(skid), g + 1>> \in NumberedPlains(work)
    BY <1>1, <1>2, <1>3, <1>4, RowsMove
  <1>6. Norm!Configure => remaining = 0 /\ ~pass
    BY <1>2 DEF Norm!Configure, Norm!Unconfigured
  <1>7. CASE Norm!Configure
    <2>1. chunk' = chunk + 1 /\ remaining' = work.sizes[chunk + 1] /\ in_typ' = Head(plain).typ
      BY <1>3, <1>7
    <2>2. Counting(g)' /\ remaining' # 0
      BY <1>7, <2>1, ConfigurePlace
    <2>3. NormRows(m, g)'
      BY <1>5, <1>6, <1>7
    <2>4. QED
      BY <1>2, <1>6, <1>7, <2>2, <2>3 DEF NormPlace
  <1>8. CASE ~Norm!Configure /\ pass
    <2>1. /\ UNCHANGED chunk /\ remaining' = Norm!NextRemaining /\ remaining # 0
          /\ in_typ' = IF Norm!GateLast THEN Norm!NoType ELSE in_typ
      BY <1>2, <1>3, <1>8
    <2>2. Counting(g + 1)' /\ (remaining' = 0 <=> Norm!GateLast) /\ Norm!GateLast \in BOOLEAN
      BY <1>4, <1>5, <1>8, <2>1, PassPlace
    <2>3. NormRows(m, g + 1)' /\ g + 1 \in Nat
      BY <1>5, <1>8
    <2>4. QED
      BY <1>8, <2>2, <2>3 DEF NormPlace
  <1>9. CASE ~Norm!Configure /\ ~pass
    <2>1. UNCHANGED <<work, chunk, remaining, in_typ>>
      BY <1>3, <1>9
    <2>2. NormRows(m, g)'
      BY <1>5, <1>9
    <2>3. CASE remaining = 0
      <3>1. plain = <<>>
        <4>1. chunk \in 0..Len(work.sizes) /\ Len(work.sizes) \in Nat
          BY <1>4, TypeWhileCounting
        <4>2. plain # <<>> => chunk = Len(work.sizes)
          BY <1>9, <2>3, <4>1 DEF Norm!Configure, Norm!Unconfigured
        <4>3. QED
          BY <2>3, <4>2, NothingBehind
      <3>2. skid' = skid
        BY <1>1, <1>5, <1>9, <3>1
      <3>3. Between(g)'
        BY <1>4, <2>1, <2>3, <3>2 DEF Counting, Between
      <3>4. Counting(g)'
        BY <1>4, <2>1, <2>3, <3>2, <3>3 DEF Counting
      <3>5. QED
        BY <1>2, <1>9, <2>2, <2>3, <3>4 DEF NormPlace
    <2>4. CASE remaining # 0
      <3>1. \A p \in Pages(work) : \A j \in 1..Plains(work, p) : Amid(g, p, j) => Amid(g, p, j)'
        BY <2>1 DEF Amid
      <3>2. Counting(g)'
        BY <1>4, <2>1, <2>4, <3>1 DEF Counting
      <3>3. QED
        BY <1>2, <1>9, <2>2, <3>2 DEF NormPlace
    <2>5. QED
      BY <2>3, <2>4
  <1>10. QED
    BY <1>7, <1>8, <1>9

\* What StripLevels puts stands behind what is there.
LEMMA NormAdd ==
  ASSUME NEW m \in Nat, NEW g \in Nat, NormRows(m, g), UNCHANGED <<work, skid>>,
         NEW x \in PlainBeat, plain' = Append(plain, x), <<x, m + 1>> \in NumberedPlains(work)
  PROVE  NormRows(m + 1, g)'
  <1>1. /\ skid \in Seq(PlainBeat) /\ plain \in Seq(PlainBeat) /\ Len(skid) <= SkidDepth /\ m = g + Len(skid) + Len(plain)
        /\ Row(NumberedPlains(work), skid, g) /\ Row(NumberedPlains(work), plain, g + Len(skid))
    BY DEF NormRows
  <1>2. PICK t \in Nat : t = g + Len(skid)
    BY <1>1
  <1>3. /\ plain' \in Seq(PlainBeat) /\ Len(plain') = Len(plain) + 1 /\ Len(plain) \in Nat
    BY <1>1
  <1>4. m + 1 = t + Len(plain) + 1 /\ m + 1 = g + Len(skid) + Len(plain')
    BY <1>1, <1>2, <1>3
  <1>5. Row(NumberedPlains(work), plain', t)
    BY <1>1, <1>2, <1>4, RowAppend
  <1>6. QED
    BY <1>1, <1>2, <1>3, <1>4, <1>5 DEF NormRows

\* The same for two.
LEMMA NormAddTwo ==
  ASSUME NEW m \in Nat, NEW g \in Nat, NormRows(m, g), UNCHANGED <<work, skid>>,
         NEW x \in PlainBeat, NEW y \in PlainBeat, plain' = Append(Append(plain, x), y),
         <<x, m + 1>> \in NumberedPlains(work), <<y, m + 2>> \in NumberedPlains(work)
  PROVE  NormRows(m + 2, g)'
  <1>1. /\ skid \in Seq(PlainBeat) /\ plain \in Seq(PlainBeat) /\ Len(skid) <= SkidDepth /\ m = g + Len(skid) + Len(plain)
        /\ Row(NumberedPlains(work), skid, g) /\ Row(NumberedPlains(work), plain, g + Len(skid))
    BY DEF NormRows
  <1>2. PICK t \in Nat : t = g + Len(skid)
    BY <1>1
  <1>3. PICK q \in Seq(PlainBeat) : q = Append(plain, x) /\ Len(q) = Len(plain) + 1 /\ Len(plain) \in Nat
    <2>1. Append(plain, x) \in Seq(PlainBeat) /\ Len(Append(plain, x)) = Len(plain) + 1 /\ Len(plain) \in Nat
      BY <1>1, AppendElements
    <2>2. QED
      BY <2>1
  <1>4. /\ plain' \in Seq(PlainBeat) /\ Len(plain') = Len(q) + 1 /\ Len(q) \in Nat /\ plain' = Append(q, y)
    BY <1>3, AppendElements
  <1>5. m + 1 = t + Len(plain) + 1 /\ m + 2 = t + Len(q) + 1 /\ m + 2 = g + Len(skid) + Len(plain')
    BY <1>1, <1>2, <1>3, <1>4
  <1>6. Row(NumberedPlains(work), q, t)
    BY <1>1, <1>2, <1>3, <1>5, RowAppend
  <1>7. Row(NumberedPlains(work), plain', t)
    BY <1>3, <1>4, <1>5, <1>6, RowAppend
  <1>8. QED
    BY <1>1, <1>2, <1>4, <1>5, <1>7 DEF NormRows

\* The normalizer is where it was when StripLevels puts databeats.
LEMMA NormPut ==
  ASSUME NEW m \in Nat, NEW g \in Nat, NormPlace(m, g), UNCHANGED <<work, norm_vars>>, NEW n \in 0..2, Puts(n, m)
  PROVE  NormPlace(m + n, g)'
  <1>1. /\ NormRows(m, g) /\ Counting(g) /\ UNCHANGED <<work, chunk, remaining, in_typ, skid>>
    BY DEF NormPlace, norm_vars
  <1>2. Counting(g)'
    BY <1>1 DEF Counting, Between, Amid
  <1>3. NormRows(m + n, g)'
    <2>1. CASE n = 0
      BY <1>1, <2>1 DEF Puts, NormRows
    <2>2. CASE n = 1
      <3>1. PICK x \in PlainBeat : plain' = Append(plain, x) /\ <<x, m + 1>> \in NumberedPlains(work)
        <4>1. n # 0 /\ n # 2
          BY <2>2
        <4>2. QED
          BY <4>1, Zenon DEF Puts
      <3>2. NormRows(m + 1, g)'
        BY <1>1, <3>1, NormAdd
      <3>3. QED
        BY <2>2, <3>2, Zenon
    <2>3. CASE n = 2
      <3>1. PICK x \in PlainBeat : \E y \in PlainBeat :
              /\ plain' = Append(Append(plain, x), y)
              /\ <<x, m + 1>> \in NumberedPlains(work) /\ <<y, m + 2>> \in NumberedPlains(work)
        <4>1. n # 0 /\ n # 1
          BY <2>3
        <4>2. QED
          BY <4>1, Zenon DEF Puts
      <3>2. PICK y \in PlainBeat :
              /\ plain' = Append(Append(plain, x), y)
              /\ <<x, m + 1>> \in NumberedPlains(work) /\ <<y, m + 2>> \in NumberedPlains(work)
        BY <3>1
      <3>3. NormRows(m + 2, g)'
        BY <1>1, <3>2, NormAddTwo
      <3>4. QED
        BY <2>3, <3>3, Zenon
    <2>4. QED
      BY <2>1, <2>2, <2>3
  <1>4. QED
    BY <1>2, <1>3 DEF NormPlace

-----------------------------------------------------------------------------
(* The types go round beside the databeats.                                *)

Marked(q) == {i \in DOMAIN q : q[i].last}
Lasts(q)  == Cardinality(Marked(q))
One(b)    == IF b THEN 1 ELSE 0

\* Databeats marked last are counted: no more than there are,
LEMMA LastsCount ==
  ASSUME NEW S, NEW q \in Seq(S)
  PROVE  Lasts(q) \in Nat /\ Lasts(q) <= Len(q) /\ IsFiniteSet(Marked(q)) /\ Len(q) \in Nat
  <1>1. Len(q) \in Nat /\ Marked(q) \subseteq 1..Len(q)
    BY DEF Marked
  <1>2. IsFiniteSet(1..Len(q)) /\ Cardinality(1..Len(q)) = Len(q)
    <2>1. PICK n \in Nat : n = Len(q)
      BY <1>1
    <2>2. IsFiniteSet(1..n) /\ Cardinality(1..n) = IF 1 > n THEN 0 ELSE n - 1 + 1
      BY FS_Interval
    <2>3. QED
      BY <2>1, <2>2
  <1>3. IsFiniteSet(Marked(q)) /\ Cardinality(Marked(q)) <= Cardinality(1..Len(q))
    BY <1>1, <1>2, FS_Subset
  <1>4. QED
    BY <1>1, <1>2, <1>3, FS_CardinalityType DEF Lasts

\* none in an empty queue,
LEMMA LastsEmpty == Lasts(<<>>) = 0
  <1>1. Marked(<<>>) = {}
    <2>1. DOMAIN <<>> = {}
      OBVIOUS
    <2>2. QED
      BY <2>1 DEF Marked
  <1>2. QED
    BY <1>1, FS_EmptySet DEF Lasts

\* one more behind one that is marked,
LEMMA LastsAppend ==
  ASSUME NEW S, NEW q \in Seq(S), NEW x \in S, x.last \in BOOLEAN
  PROVE  Lasts(Append(q, x)) = Lasts(q) + One(x.last)
  <1>1. Len(q) \in Nat /\ IsFiniteSet(Marked(q)) /\ Lasts(q) \in Nat
    BY LastsCount
  <1>2. /\ DOMAIN Append(q, x) = 1..(Len(q) + 1) /\ DOMAIN q = 1..Len(q)
        /\ \A i \in 1..Len(q) : Append(q, x)[i] = q[i]
        /\ Append(q, x)[Len(q) + 1] = x
    OBVIOUS
  <1>3. CASE x.last
    <2>1. Marked(Append(q, x)) = Marked(q) \cup {Len(q) + 1}
      BY <1>1, <1>2, <1>3 DEF Marked
    <2>2. Len(q) + 1 \notin Marked(q)
      BY <1>1, <1>2 DEF Marked
    <2>3. Cardinality(Marked(q) \cup {Len(q) + 1}) = Cardinality(Marked(q)) + 1
      BY <1>1, <2>2, FS_AddElement
    <2>4. QED
      BY <1>3, <2>1, <2>3 DEF Lasts, One
  <1>4. CASE ~x.last
    <2>1. Marked(Append(q, x)) = Marked(q)
      BY <1>1, <1>2, <1>4 DEF Marked
    <2>2. QED
      BY <1>1, <1>4, <2>1 DEF Lasts, One
  <1>5. QED
    BY <1>3, <1>4

\* one less without it.
LEMMA LastsTail ==
  ASSUME NEW S, NEW q \in Seq(S), q # <<>>, Head(q).last \in BOOLEAN
  PROVE  Lasts(q) = Lasts(Tail(q)) + One(Head(q).last)
  <1>1. /\ Tail(q) \in Seq(S) /\ Len(q) \in Nat \ {0} /\ Len(Tail(q)) = Len(q) - 1 /\ Head(q) = q[1]
        /\ \A i \in 1..(Len(q) - 1) : Tail(q)[i] = q[i + 1]
        /\ DOMAIN q = 1..Len(q) /\ DOMAIN Tail(q) = 1..(Len(q) - 1)
    OBVIOUS
  <1>2. IsFiniteSet(Marked(q)) /\ IsFiniteSet(Marked(Tail(q))) /\ Lasts(Tail(q)) \in Nat
    BY <1>1, LastsCount
  <1>3. Cardinality(Marked(Tail(q))) = Cardinality(Marked(q) \ {1})
    <2> DEFINE A == Marked(Tail(q))
               B == Marked(q) \ {1}
               f == [i \in A |-> i + 1]
    <2>1. \A i \in A : i \in Nat /\ i + 1 \in B
      BY <1>1 DEF Marked
    <2>2. \A i \in B : i - 1 \in A /\ i = (i - 1) + 1
      <3>1. SUFFICES ASSUME NEW i \in B PROVE i - 1 \in A /\ i = (i - 1) + 1
        OBVIOUS
      <3>2. i \in 1..Len(q) /\ i # 1 /\ q[i].last
        BY <1>1 DEF Marked
      <3>3. PICK j \in 1..(Len(q) - 1) : i = j + 1
        BY <1>1, <3>2
      <3>4. Tail(q)[j].last
        BY <1>1, <3>2, <3>3
      <3>5. j \in A
        BY <1>1, <3>3, <3>4 DEF Marked
      <3>6. i - 1 = j
        BY <1>1, <3>3
      <3>7. QED
        BY <3>3, <3>5, <3>6
    <2>3. f \in Bijection(A, B)
      <3>1. f \in [A -> B]
        BY <2>1
      <3>2. \A a, b \in A : f[a] = f[b] => a = b
        BY <2>1
      <3>3. \A b \in B : \E a \in A : f[a] = b
        BY <2>2
      <3>4. QED
        BY <3>1, <3>2, <3>3 DEF Bijection, Injection, Surjection, IsInjective
    <2>4. ExistsBijection(A, B)
      BY <2>3 DEF ExistsBijection
    <2>5. QED
      BY <1>2, <2>4, FS_Bijection
  <1>4. CASE Head(q).last
    <2>1. 1 \in Marked(q)
      BY <1>1, <1>4 DEF Marked
    <2>2. Cardinality(Marked(q) \ {1}) = Cardinality(Marked(q)) - 1 /\ Cardinality(Marked(q)) \in Nat
      BY <1>2, <2>1, FS_RemoveElement, FS_CardinalityType
    <2>3. QED
      BY <1>2, <1>3, <1>4, <2>2 DEF Lasts, One
  <1>5. CASE ~Head(q).last
    <2>1. 1 \notin Marked(q)
      BY <1>1, <1>5 DEF Marked
    <2>2. Marked(q) \ {1} = Marked(q)
      BY <2>1
    <2>3. Lasts(q) = Lasts(Tail(q))
      BY <1>3, <2>2, Zenon DEF Lasts
    <2>4. One(Head(q).last) = 0
      BY <1>5 DEF One
    <2>5. QED
      BY <1>2, <2>3, <2>4
  <1>6. QED
    BY <1>4, <1>5

AnyType  == DOMAIN Width \cup {Norm!NoType}
FullBeat == [bytes : Seq(Place), last : BOOLEAN]
OutBeat  == [typ : AnyType, bytes : Seq(Place), last : BOOLEAN]

\* The types in the FIFO and before it are of the chunks whose last databeat is in the
\* pipeline or has not been made.
Types ==
  /\ packed \in Seq(Place) /\ pipe \in Seq(FullBeat) /\ fifo \in Seq(AnyType) /\ fifo_typ \in AnyType /\ out \in Seq(OutBeat)
  /\ Len(pipe) <= PipeDepth /\ Len(fifo) <= FifoDepth
  /\ fifo_typ # Norm!NoType => remaining # 0
  /\ Lasts(out) + Lasts(pipe) + One(remaining # 0) = chunk
  /\ Len(fifo) + One(fifo_typ # Norm!NoType) = Lasts(pipe) + One(remaining # 0)

\* At first no type is queued.
LEMMA TypesInit ==
  ASSUME Norm!Init
  PROVE  Types
  <1>1. /\ chunk = 0 /\ remaining = 0 /\ fifo_typ = Norm!NoType
        /\ fifo = <<>> /\ packed = <<>> /\ pipe = <<>> /\ out = <<>>
    BY DEF Norm!Init
  <1>2. \A S : <<>> \in Seq(S) /\ Len(<<>>) = 0
    OBVIOUS
  <1>3. PipeDepth \in Nat /\ FifoDepth \in Nat /\ Lasts(<<>>) = 0 /\ One(FALSE) = 0 /\ Norm!NoType \in AnyType
    BY PathSizes, LastsEmpty DEF One, AnyType
  <1>4. Lasts(out) = 0 /\ Lasts(pipe) = 0 /\ One(remaining # 0) = 0 /\ One(fifo_typ # Norm!NoType) = 0 /\ Len(fifo) = 0 /\ Len(pipe) = 0
    BY <1>1, <1>2, <1>3 DEF One
  <1>5. /\ packed \in Seq(Place) /\ pipe \in Seq(FullBeat) /\ fifo \in Seq(AnyType) /\ out \in Seq(OutBeat)
    BY <1>1, <1>2
  <1>6. QED
    BY <1>1, <1>3, <1>4, <1>5 DEF Types

\* The DataNormalizer ends what it makes exactly when the chunk ends.
Fills(beats, last) ==
  \/ beats = <<>> /\ ~last
  \/ \E x \in FullBeat : beats = <<x>> /\ x.last = last
  \/ \E x, y \in FullBeat : beats = <<x, y>> /\ ~x.last /\ y.last /\ last

\* The DataNormalizer makes at most two databeats of one.
LEMMA PackedMakes ==
  ASSUME packed \in Seq(Place), NEW b \in Seq(Place), NEW last \in BOOLEAN
  PROVE  Fills(Norm!Packed(b, last).beats, last) /\ Norm!Packed(b, last).rest \in Seq(Place)
  <1>1. PICK all \in Seq(Place) : all = packed \o b
    BY ConcatProperties
  <1>2. Len(all) \in Nat /\ (\A i \in 1..Len(all) : all[i] \in Place) /\ NumBytes \in Nat
    BY PathSizes
  <1>3. PICK k \in Nat : k = (IF Len(all) < NumBytes THEN Len(all) ELSE NumBytes) /\ k <= Len(all)
    BY <1>2
  <1>4. PICK full : full = SubSeq(all, 1, k)
    OBVIOUS
  <1>5. PICK rest : rest = SubSeq(all, NumBytes + 1, Len(all))
    OBVIOUS
  <1>6. full \in Seq(Place)
    <2>1. \A i \in 1..k : all[i] \in Place
      BY <1>2, <1>3
    <2>2. SubSeq(all, 1, k) \in Seq(Place)
      BY <1>2, <2>1, SubSeqProperties
    <2>3. QED
      BY <1>4, <2>2
  <1>7. rest \in Seq(Place)
    <2>1. \A i \in (NumBytes + 1)..Len(all) : all[i] \in Place
      BY <1>2
    <2>2. NumBytes + 1 \in Int /\ Len(all) \in Int
      BY <1>2
    <2>3. SubSeq(all, NumBytes + 1, Len(all)) \in Seq(Place)
      BY <2>1, <2>2, SubSeqProperties
    <2>4. QED
      BY <1>5, <2>3
  <1>8. Norm!Packed(b, last) =
          IF Len(all) < NumBytes /\ ~last THEN [beats |-> <<>>, rest |-> all]
          ELSE IF rest = <<>> \/ ~last THEN [beats |-> << [bytes |-> full, last |-> last] >>, rest |-> rest]
          ELSE [beats |-> << [bytes |-> full, last |-> FALSE], [bytes |-> rest, last |-> TRUE] >>, rest |-> <<>>]
    BY <1>1, <1>3, <1>4, <1>5, Zenon DEF Norm!Packed
  <1>9. CASE Len(all) < NumBytes /\ ~last
    <2>1. Norm!Packed(b, last) = [beats |-> <<>>, rest |-> all]
      BY <1>8, <1>9
    <2>2. QED
      BY <1>9, <2>1 DEF Fills
  <1>10. CASE ~(Len(all) < NumBytes /\ ~last) /\ (rest = <<>> \/ ~last)
    <2>1. PICK x \in FullBeat : x = [bytes |-> full, last |-> last]
      BY <1>6 DEF FullBeat
    <2>2. Norm!Packed(b, last) = [beats |-> <<x>>, rest |-> rest]
      BY <1>8, <1>10, <2>1
    <2>3. x.last = last
      BY <2>1
    <2>4. QED
      BY <1>7, <2>2, <2>3 DEF Fills
  <1>11. CASE ~(Len(all) < NumBytes /\ ~last) /\ ~(rest = <<>> \/ ~last)
    <2>1. PICK x \in FullBeat : x = [bytes |-> full, last |-> FALSE]
      BY <1>6 DEF FullBeat
    <2>2. PICK y \in FullBeat : y = [bytes |-> rest, last |-> TRUE]
      BY <1>7 DEF FullBeat
    <2>3. Norm!Packed(b, last) = [beats |-> <<x, y>>, rest |-> <<>>]
      BY <1>8, <1>11, <2>1, <2>2
    <2>4. ~x.last /\ y.last /\ last
      BY <1>11, <2>1, <2>2
    <2>5. Fills(<<x, y>>, last)
      BY <2>4 DEF Fills
    <2>6. Norm!Packed(b, last).beats = <<x, y>> /\ Norm!Packed(b, last).rest = <<>>
      BY <2>3
    <2>7. <<>> \in Seq(Place)
      OBVIOUS
    <2>8. QED
      BY <2>5, <2>6, <2>7, Zenon
  <1>12. QED
    BY <1>9, <1>10, <1>11

\* The pipeline gets one more marked databeat exactly when the chunk ends.
LEMMA PipeGrows ==
  ASSUME NEW q \in Seq(FullBeat), NEW beats, NEW last \in BOOLEAN, Fills(beats, last)
  PROVE  /\ q \o beats \in Seq(FullBeat) /\ Len(beats) \in Nat /\ (last => Len(beats) >= 1)
         /\ Len(q \o beats) = Len(q) + Len(beats) /\ Lasts(q \o beats) = Lasts(q) + One(last)
  <1>1. Len(q) \in Nat /\ Lasts(q) \in Nat
    BY LastsCount
  <1>2. CASE beats = <<>> /\ ~last
    <2>1. q \o beats = q /\ Len(beats) = 0
      BY <1>2
    <2>2. QED
      BY <1>1, <1>2, <2>1 DEF One
  <1>3. CASE \E x \in FullBeat : beats = <<x>> /\ x.last = last
    <2>1. PICK x \in FullBeat : beats = <<x>> /\ x.last = last
      BY <1>3
    <2>2. q \o beats = Append(q, x) /\ Len(beats) = 1
      BY <2>1, AppendIsConcat
    <2>3. Append(q, x) \in Seq(FullBeat) /\ Len(Append(q, x)) = Len(q) + 1
      OBVIOUS
    <2>4. Lasts(Append(q, x)) = Lasts(q) + One(x.last)
      BY <2>1, LastsAppend
    <2>5. Lasts(q \o beats) = Lasts(q) + One(last) /\ q \o beats \in Seq(FullBeat) /\ Len(q \o beats) = Len(q) + 1
      BY <2>1, <2>2, <2>3, <2>4, Zenon
    <2>6. QED
      BY <2>2, <2>5
  <1>4. CASE \E x, y \in FullBeat : beats = <<x, y>> /\ ~x.last /\ y.last /\ last
    <2>1. PICK x \in FullBeat, y \in FullBeat : beats = <<x, y>> /\ ~x.last /\ y.last /\ last
      BY <1>4
    <2>2. x.last \in BOOLEAN /\ y.last \in BOOLEAN
      BY DEF FullBeat
    <2>3. q \o beats = Append(Append(q, x), y) /\ Len(beats) = 2
      BY <2>1, AppendTwo
    <2>31. Append(q, x) \in Seq(FullBeat) /\ Len(Append(q, x)) = Len(q) + 1 /\ Lasts(Append(q, x)) = Lasts(q) + One(x.last)
      BY <2>2, LastsAppend, AppendProperties
    <2>4. PICK r \in Seq(FullBeat) : r = Append(q, x) /\ Len(r) = Len(q) + 1 /\ Lasts(r) = Lasts(q) + One(x.last)
      BY <2>31
    <2>5. Append(r, y) \in Seq(FullBeat) /\ Len(Append(r, y)) = Len(r) + 1 /\ Lasts(Append(r, y)) = Lasts(r) + One(y.last)
      BY <2>2, LastsAppend
    <2>6. One(x.last) = 0 /\ One(y.last) = 1 /\ One(last) = 1
      BY <2>1 DEF One
    <2>7. Lasts(q \o beats) = Lasts(q) + 1 /\ Len(q \o beats) = Len(q) + 2 /\ q \o beats \in Seq(FullBeat)
      BY <1>1, <2>3, <2>4, <2>5, <2>6
    <2>8. Lasts(q \o beats) = Lasts(q) + One(last)
      BY <2>6, <2>7, Zenon
    <2>9. last => Len(beats) >= 1
      BY <2>3
    <2>10. QED
      BY <2>3, <2>7, <2>8, <2>9
  <1>5. QED
    BY <1>2, <1>3, <1>4 DEF Fills

\* One counts a condition.
LEMMA Ones ==
  ASSUME NEW b \in BOOLEAN
  PROVE  One(b) \in Nat /\ One(b) <= 1 /\ (b => One(b) = 1) /\ (~b => One(b) = 0)
  BY DEF One

\* The type of a chunk is queued before the next is counted: it waits at a full FIFO, and
\* then the pipeline is full, so that the chunk cannot end.
LEMMA TypesStep ==
  ASSUME WellFormed(work), NEW g \in Nat, Counting(g), Types, UNCHANGED work,
         skid \in Seq(PlainBeat), plain \in Seq(PlainBeat),
         NEW normalizer_ready \in BOOLEAN, NEW out_ready \in BOOLEAN, Norm!Clock(normalizer_ready, out_ready),
         remaining # 0 /\ skid # <<>> /\ normalizer_ready
           => (remaining' = 0 <=> Norm!GateLast) /\ Norm!GateLast \in BOOLEAN,
         Norm!Configure => remaining' # 0
  PROVE  Types'
  <1>1. PICK configures \in BOOLEAN : configures <=> Norm!Configure
    BY DEF Norm!Configure
  <1>2. PICK pass \in BOOLEAN : pass <=> (remaining # 0 /\ skid # <<>> /\ normalizer_ready)
    OBVIOUS
  <1>3. PICK closes \in BOOLEAN : closes <=> (pass /\ Norm!GateLast)
    OBVIOUS
  <1>4. PICK give \in BOOLEAN : give <=> (out_ready /\ pipe # <<>> /\ fifo # <<>>)
    OBVIOUS
  <1>5. PICK pops \in BOOLEAN : pops <=> (give /\ Head(pipe).last)
    OBVIOUS
  <1>6. PICK queue \in BOOLEAN : queue <=> (fifo_typ # Norm!NoType /\ Norm!FifoReady)
    OBVIOUS
  <1>7. PICK beats : beats = (IF pass THEN Norm!Packed(Head(skid).bytes, Norm!GateLast).beats ELSE <<>>)
    OBVIOUS
  <1>8. PICK rest : rest = (IF pass THEN Norm!Packed(Head(skid).bytes, Norm!GateLast).rest ELSE packed)
    OBVIOUS
  <1>9. /\ Len(pipe) + Len(beats) <= PipeDepth
        /\ chunk' = IF configures THEN chunk + 1 ELSE chunk
        /\ remaining' = IF configures THEN work.sizes[chunk'] ELSE IF pass THEN Norm!NextRemaining ELSE remaining
        /\ fifo_typ' = IF configures THEN Head(plain).typ ELSE IF remaining # 0 /\ Norm!FifoReady THEN Norm!NoType ELSE fifo_typ
        /\ packed' = rest
    <2>1. Norm!Unconfigured <=> remaining = 0
      BY DEF Norm!Unconfigured
    <2>2. QED
      BY <1>1, <1>2, <1>7, <1>8, <2>1 DEF Norm!Clock
  <1>10. /\ pipe' = (IF give THEN Tail(pipe) ELSE pipe) \o beats
         /\ fifo' = IF queue THEN Append(IF pops THEN Tail(fifo) ELSE fifo, fifo_typ) ELSE IF pops THEN Tail(fifo) ELSE fifo
         /\ out' = IF give THEN Append(out, [typ |-> Head(fifo), bytes |-> Head(pipe).bytes, last |-> Head(pipe).last]) ELSE out
    <2>1. Norm!Unconfigured <=> remaining = 0
      BY DEF Norm!Unconfigured
    <2>2. QED
      BY <1>2, <1>4, <1>5, <1>6, <1>7, <2>1 DEF Norm!Clock
  <1>11. /\ packed \in Seq(Place) /\ pipe \in Seq(FullBeat) /\ fifo \in Seq(AnyType) /\ fifo_typ \in AnyType /\ out \in Seq(OutBeat)
         /\ fifo_typ # Norm!NoType => remaining # 0
    BY DEF Types
  <1>12. Fills(beats, closes) /\ rest \in Seq(Place)
    <2>1. CASE pass
      <3>1. Head(skid).bytes \in Seq(Place)
        <4>1. Head(skid) \in PlainBeat
          BY <1>2, <2>1
        <4>2. QED
          BY <4>1 DEF PlainBeat
      <3>2. PICK e \in BOOLEAN : e = Norm!GateLast /\ e = closes
        BY <1>2, <1>3, <2>1
      <3>3. Fills(Norm!Packed(Head(skid).bytes, e).beats, e) /\ Norm!Packed(Head(skid).bytes, e).rest \in Seq(Place)
        BY <1>11, <3>1, PackedMakes
      <3>4. beats = Norm!Packed(Head(skid).bytes, e).beats /\ rest = Norm!Packed(Head(skid).bytes, e).rest
        BY <1>7, <1>8, <2>1, <3>2, Zenon
      <3>5. QED
        BY <3>2, <3>3, <3>4, Zenon
    <2>2. CASE ~pass
      <3>1. beats = <<>> /\ rest = packed /\ ~closes
        BY <1>3, <1>7, <1>8, <2>2
      <3>2. QED
        BY <1>11, <3>1 DEF Fills
    <2>3. QED
      BY <2>1, <2>2
  \* The pipeline.
  <1>13. PICK q \in Seq(FullBeat) : q = IF give THEN Tail(pipe) ELSE pipe
    <2>1. give => Tail(pipe) \in Seq(FullBeat)
      BY <1>4, <1>11, HeadTailProperties
    <2>2. QED
      BY <1>11, <2>1
  <1>14. /\ Lasts(pipe) \in Nat /\ Lasts(q) \in Nat /\ Lasts(out) \in Nat /\ Lasts(pipe) <= Len(pipe)
         /\ Lasts(pipe) = Lasts(q) + One(pops) /\ Len(pipe) \in Nat /\ Len(q) \in Nat /\ Len(q) <= Len(pipe)
    <2>1. /\ Lasts(pipe) \in Nat /\ Lasts(q) \in Nat /\ Lasts(out) \in Nat /\ Lasts(pipe) <= Len(pipe)
          /\ Len(pipe) \in Nat /\ Len(q) \in Nat
      BY <1>11, LastsCount
    <2>2. CASE give
      <3>1. pipe # <<>> /\ Head(pipe) \in FullBeat /\ q = Tail(pipe)
        BY <1>4, <1>11, <1>13, <2>2
      <3>2. Head(pipe).last \in BOOLEAN
        BY <3>1 DEF FullBeat
      <3>3. Lasts(pipe) = Lasts(Tail(pipe)) + One(Head(pipe).last)
        BY <1>11, <3>1, <3>2, LastsTail
      <3>4. pops = Head(pipe).last
        BY <1>5, <2>2, <3>2
      <3>5. Len(Tail(pipe)) = Len(pipe) - 1
        BY <1>11, <3>1
      <3>6. Lasts(pipe) = Lasts(q) + One(pops) /\ Len(q) = Len(pipe) - 1
        BY <3>1, <3>3, <3>4, <3>5, Zenon
      <3>7. QED
        BY <2>1, <3>6
    <2>3. CASE ~give
      <3>1. q = pipe /\ One(pops) = 0
        BY <1>5, <1>13, <2>3 DEF One
      <3>2. QED
        BY <2>1, <3>1
    <2>4. QED
      BY <2>2, <2>3
  <1>15. /\ pipe' \in Seq(FullBeat) /\ Len(pipe') = Len(q) + Len(beats) /\ Lasts(pipe') = Lasts(q) + One(closes)
         /\ Len(beats) \in Nat /\ (closes => Len(beats) >= 1)
    <2>1. pipe' = q \o beats
      BY <1>10, <1>13
    <2>2. /\ q \o beats \in Seq(FullBeat) /\ Len(beats) \in Nat /\ (closes => Len(beats) >= 1)
          /\ Len(q \o beats) = Len(q) + Len(beats) /\ Lasts(q \o beats) = Lasts(q) + One(closes)
      BY <1>12, PipeGrows
    <2>3. QED
      BY <2>1, <2>2, Zenon
  <1>16. out' \in Seq(OutBeat) /\ Lasts(out') = Lasts(out) + One(pops)
    <2>1. CASE give
      <3>1. pipe # <<>> /\ fifo # <<>> /\ Head(pipe) \in FullBeat /\ Head(fifo) \in AnyType
        BY <1>4, <1>11, <2>1
      <3>2. Head(pipe).last \in BOOLEAN /\ Head(pipe).bytes \in Seq(Place)
        BY <3>1 DEF FullBeat
      <3>3. PICK x \in OutBeat : x = [typ |-> Head(fifo), bytes |-> Head(pipe).bytes, last |-> Head(pipe).last]
        BY <3>1, <3>2 DEF OutBeat
      <3>4. x.last = Head(pipe).last /\ pops = Head(pipe).last
        BY <1>5, <2>1, <3>2, <3>3
      <3>5. Append(out, x) \in Seq(OutBeat) /\ Lasts(Append(out, x)) = Lasts(out) + One(x.last)
        BY <1>11, <3>2, <3>4, LastsAppend, AppendProperties
      <3>6. out' = Append(out, x)
        BY <1>10, <2>1, <3>3
      <3>7. QED
        BY <3>4, <3>5, <3>6, Zenon
    <2>2. CASE ~give
      <3>1. out' = out /\ One(pops) = 0
        BY <1>5, <1>10, <2>2 DEF One
      <3>2. QED
        BY <1>11, <1>14, <3>1
    <2>3. QED
      BY <2>1, <2>2
  \* The FIFO and the register before it.
  <1>17. PICK r \in Seq(AnyType) : r = IF pops THEN Tail(fifo) ELSE fifo
    <2>1. pops => Tail(fifo) \in Seq(AnyType)
      BY <1>4, <1>5, <1>11, HeadTailProperties
    <2>2. QED
      BY <1>11, <2>1
  <1>18. Len(fifo) \in Nat /\ Len(r) \in Nat /\ Len(fifo) = Len(r) + One(pops)
    <2>1. CASE pops
      <3>1. fifo # <<>> /\ r = Tail(fifo)
        BY <1>4, <1>5, <1>17, <2>1
      <3>2. QED
        BY <1>11, <2>1, <3>1 DEF One
    <2>2. CASE ~pops
      BY <1>11, <1>17, <2>2 DEF One
    <2>3. QED
      BY <2>1, <2>2
  <1>19. fifo' \in Seq(AnyType) /\ Len(fifo') = Len(r) + One(queue)
    <2>1. CASE queue
      <3>1. fifo' = Append(r, fifo_typ)
        BY <1>10, <1>17, <2>1
      <3>2. QED
        BY <1>11, <2>1, <3>1 DEF One
    <2>2. CASE ~queue
      <3>1. fifo' = r /\ One(queue) = 0
        BY <1>10, <1>17, <2>2 DEF One
      <3>2. QED
        BY <1>18, <3>1
    <2>3. QED
      BY <2>1, <2>2
  <1>20. /\ fifo_typ' \in AnyType
         /\ One(fifo_typ' # Norm!NoType) + One(queue) = One(fifo_typ # Norm!NoType) + One(configures)
         /\ fifo_typ' # Norm!NoType /\ ~configures => remaining # 0 /\ fifo_typ # Norm!NoType /\ ~Norm!FifoReady
    <2>1. CASE configures
      <3>1. remaining = 0 /\ plain # <<>>
        BY <1>1, <2>1 DEF Norm!Configure, Norm!Unconfigured
      <3>2. fifo_typ = Norm!NoType /\ ~queue
        BY <1>6, <1>11, <3>1
      <3>3. Head(plain) \in PlainBeat
        BY <3>1
      <3>4. Head(plain).typ \in DOMAIN Width
        BY <3>3 DEF PlainBeat
      <3>5. fifo_typ' \in AnyType /\ fifo_typ' # Norm!NoType
        BY <1>9, <2>1, <3>4, NoTypeAssumption DEF AnyType
      <3>6. QED
        BY <2>1, <3>2, <3>5 DEF One
    <2>2. CASE ~configures
      <3>1. fifo_typ' = IF remaining # 0 /\ Norm!FifoReady THEN Norm!NoType ELSE fifo_typ
        BY <1>9, <2>2
      <3>2. CASE remaining # 0 /\ Norm!FifoReady
        <4>1. fifo_typ' = Norm!NoType /\ (queue <=> fifo_typ # Norm!NoType)
          BY <1>6, <3>1, <3>2
        <4>2. QED
          BY <2>2, <4>1 DEF One, AnyType
      <3>3. CASE ~(remaining # 0 /\ Norm!FifoReady)
        <4>1. fifo_typ' = fifo_typ /\ ~queue
          BY <1>6, <1>11, <3>1, <3>3
        <4>2. QED
          BY <1>11, <2>2, <3>3, <4>1 DEF One
      <3>4. QED
        BY <3>2, <3>3
    <2>3. QED
      BY <2>1, <2>2
  \* What there is to count.
  <1>21. One(remaining' # 0) + One(closes) = One(remaining # 0) + One(configures)
    <2>1. CASE configures
      <3>1. remaining = 0 /\ remaining' # 0 /\ ~closes
        BY <1>1, <1>2, <1>3, <2>1 DEF Norm!Configure, Norm!Unconfigured
      <3>2. QED
        BY <2>1, <3>1 DEF One
    <2>2. CASE ~configures /\ pass
      <3>1. remaining # 0 /\ (remaining' = 0 <=> closes)
        BY <1>2, <1>3, <2>2
      <3>2. QED
        BY <2>2, <3>1 DEF One
    <2>3. CASE ~configures /\ ~pass
      <3>1. remaining' = remaining /\ ~closes
        BY <1>3, <1>9, <2>3
      <3>2. QED
        BY <2>3, <3>1 DEF One
    <2>4. QED
      BY <2>1, <2>2, <2>3
  <1>22. chunk \in Nat /\ chunk' = chunk + One(configures)
    <2>1. chunk \in Nat
      BY TypeWhileCounting
    <2>2. QED
      BY <1>9, <2>1 DEF One
  <1>23. /\ PipeDepth \in Nat /\ FifoDepth \in Nat /\ PipeDepth <= FifoDepth
         /\ Len(pipe) <= PipeDepth /\ Len(fifo) <= FifoDepth
         /\ Lasts(out) + Lasts(pipe) + One(remaining # 0) = chunk
         /\ Len(fifo) + One(fifo_typ # Norm!NoType) = Lasts(pipe) + One(remaining # 0)
    BY PathSizes DEF Types
  <1>24. PICK c \in Nat, e \in Nat, p \in Nat, u \in Nat :
            c = One(configures) /\ e = One(closes) /\ p = One(pops) /\ u = One(queue) /\ u <= 1
    BY Ones
  <1>241. PICK o \in Nat, n \in Nat, w \in Nat, t \in Nat :
            /\ o = One(remaining # 0) /\ n = One(remaining' # 0)
            /\ w = One(fifo_typ # Norm!NoType) /\ t = One(fifo_typ' # Norm!NoType)
    <2>1. One(remaining # 0) \in Nat /\ One(remaining' # 0) \in Nat
      BY DEF One
    <2>2. One(fifo_typ # Norm!NoType) \in Nat /\ One(fifo_typ' # Norm!NoType) \in Nat
      BY DEF One
    <2>3. QED
      BY <2>1, <2>2
  <1>242. /\ c \in Nat /\ e \in Nat /\ p \in Nat /\ u \in Nat /\ o \in Nat /\ n \in Nat /\ w \in Nat /\ t \in Nat
    BY <1>24, <1>241
  <1>25. Lasts(out') + Lasts(pipe') + One(remaining' # 0) = chunk'
    <2>1. PICK a \in Nat, b \in Nat, d \in Nat, k \in Nat :
            /\ a = Lasts(pipe) /\ b = Lasts(q) /\ d = Lasts(out) /\ k = chunk
      BY <1>14, <1>22
    <2>2. a = b + p /\ n + e = o + c /\ d + a + o = k
      BY <1>14, <1>21, <1>23, <1>24, <1>241, <2>1, Zenon
    <2>3. (d + p) + (b + e) + n = k + c
      <3>1. a \in Nat /\ b \in Nat /\ d \in Nat /\ k \in Nat
        BY <2>1
      <3>2. QED
        BY <1>242, <2>2, <3>1
    <2>4. Lasts(pipe') = b + e /\ Lasts(out') = d + p /\ chunk' = k + c
      BY <1>15, <1>16, <1>22, <1>24, <2>1, Zenon
    <2>5. QED
      BY <1>241, <2>3, <2>4, Zenon
  <1>26. Len(fifo') + One(fifo_typ' # Norm!NoType) = Lasts(pipe') + One(remaining' # 0)
    <2>1. PICK a \in Nat, b \in Nat, d \in Nat, k \in Nat :
            /\ a = Lasts(pipe) /\ b = Lasts(q) /\ d = Len(fifo) /\ k = Len(r)
      BY <1>14, <1>18
    <2>2. a = b + p /\ n + e = o + c /\ d = k + p /\ t + u = w + c /\ d + w = a + o
      BY <1>14, <1>18, <1>20, <1>21, <1>23, <1>24, <1>241, <2>1, Zenon
    <2>3. (k + u) + t = (b + e) + n
      <3>1. a \in Nat /\ b \in Nat /\ d \in Nat /\ k \in Nat
        BY <2>1
      <3>2. QED
        BY <1>242, <2>2, <3>1
    <2>4. Lasts(pipe') = b + e /\ Len(fifo') = k + u
      BY <1>15, <1>19, <1>24, <2>1, Zenon
    <2>5. QED
      BY <1>241, <2>3, <2>4, Zenon
  <1>27. Len(pipe') <= PipeDepth
    BY <1>9, <1>14, <1>15, <1>23
  <1>28. Len(fifo') <= FifoDepth
    <2>1. queue => Len(fifo) < FifoDepth
      BY <1>6 DEF Norm!FifoReady
    <2>2. ~queue => One(queue) = 0
      BY DEF One
    <2>3. Len(fifo) = Len(r) + p /\ Len(fifo') = Len(r) + u /\ (~queue => u = 0)
      BY <1>18, <1>19, <1>24, <2>2, Zenon
    <2>4. PICK k \in Nat, d \in Nat : k = Len(r) /\ d = Len(fifo)
      BY <1>18
    <2>5. k \in Nat /\ d \in Nat /\ u <= 1
      BY <1>24, <2>4
    <2>6. d = k + p /\ (~queue => u = 0) /\ (queue => d < FifoDepth) /\ d <= FifoDepth
      BY <1>23, <2>1, <2>3, <2>4, Zenon
    <2>7. k + u <= FifoDepth
      BY <1>23, <1>242, <2>5, <2>6
    <2>8. QED
      BY <2>3, <2>4, <2>7, Zenon
  <1>29. fifo_typ' # Norm!NoType => remaining' # 0
    <2>1. SUFFICES ASSUME fifo_typ' # Norm!NoType, ~configures PROVE remaining' # 0
      BY <1>1
    <2>2. remaining # 0 /\ fifo_typ # Norm!NoType /\ ~(Len(fifo) < FifoDepth)
      BY <1>20, <2>1 DEF Norm!FifoReady
    <2>3. One(remaining # 0) = 1 /\ One(fifo_typ # Norm!NoType) = 1
      BY <2>2 DEF One
    <2>4. Len(pipe) = PipeDepth
      BY <1>14, <1>18, <1>23, <2>2, <2>3
    <2>5. ~closes
      BY <1>9, <1>14, <1>15, <1>23, <2>4
    <2>6. CASE pass
      BY <1>2, <1>3, <2>5, <2>6
    <2>7. CASE ~pass
      BY <1>9, <2>1, <2>2, <2>7
    <2>8. QED
      BY <2>6, <2>7
  <1>30. packed' \in Seq(Place)
    BY <1>9, <1>12
  <1>31. QED
    BY <1>15, <1>16, <1>19, <1>20, <1>25, <1>26, <1>27, <1>28, <1>29, <1>30 DEF Types

-----------------------------------------------------------------------------
(* The path.  d databeats of the workload have left the Decompressor for   *)
(* StripLevels, m have left it, and g have gone through the gate.          *)

InPlace == \E d, m, g \in Nat : DecPlace(d) /\ StripPlace(d, m) /\ NormPlace(m, g)
PathInv == WellFormed(work) /\ IInv /\ InPlace /\ Types

\* The Decompressor begins idle.
LEMMA InitHolds ==
  ASSUME WellFormed(work), Dec!Init
  PROVE  IInv
  <1>1. input \in Seq(Databeat)
    BY DecInit
  <1>2. /\ conf = 0 /\ ~demuxing /\ ~muxing /\ demuxing \in BOOLEAN /\ muxing \in BOOLEAN
        /\ bypass = <<>> /\ unzipped = <<>> /\ in_data = Dec!Empty
        /\ inner = Dec!Empty /\ tmp = Dec!Empty /\ input_paused = FALSE /\ reset_counter = 0
        /\ unzip \in [fed : BOOLEAN, ended : BOOLEAN, given : Nat] /\ ~unzip.fed /\ ~unzip.ended
    BY DEF Dec!Init, Dec!Idle
  <1>3. \A S : <<>> \in Seq(S) /\ Len(<<>>) = 0
    OBVIOUS
  <1>4. DecTypes
    <2>1. bypass \in Seq(Databeat) /\ unzipped \in Seq(Databeat) /\ conf \in Nat /\ reset_counter \in 0..2
      BY <1>2, <1>3
    <2>2. QED
      BY <1>1, <1>2, <2>1 DEF DecTypes
  <1>5. AroundOK /\ WrapperOK /\ PageOK /\ LastOK
    BY <1>2, <1>3 DEF AroundOK, WrapperOK, PageOK, LastOK
  <1>6. QED
    BY <1>4, <1>5 DEF IInv

\* The invariant of the path holds at first,
LEMMA PathInit == Init => PathInv
  <1> SUFFICES ASSUME Init PROVE PathInv
    OBVIOUS
  <1>1. WellFormed(work) /\ Dec!Init /\ Strip!Init /\ Norm!Init
    BY WorkloadsAssumption DEF Init
  <1>2. plain = <<>>
    BY <1>1 DEF Strip!Init
  <1>3. DecPlace(0) /\ StripPlace(0, 0) /\ NormPlace(0, 0)
    BY <1>1, <1>2, DecInit, StripInit, NormInit
  <1>4. IInv /\ Types
    BY <1>1, InitHolds, TypesInit
  <1>5. QED
    BY <1>1, <1>3, <1>4 DEF PathInv, InPlace

\* Steps behind the Decompressor leave its databeats where they are,
LEMMA DecUnmoved ==
  ASSUME UNCHANGED <<work, dec_vars>>
  PROVE  /\ IInv => IInv'
         /\ \A d : UNCHANGED decompressed /\ DecPlace(d) => DecPlace(d)'
  <1>1. IInv => IInv'
    BY DEF dec_vars, IInv, DecTypes, AroundOK, WrapperOK, PageOK, LastOK, Flushed, Compressed, Dec!Page
  <1>2. ASSUME NEW r, Left(r) PROVE Left(r)'
    BY <1>2 DEF Left, SelectPlace, InputPlace, RawPlace, SnappyPlace, InQueue, WrapperPlace, UnderWay, AllOut,
                Given, Flushed, Lasting, Compressed, Dec!Page, dec_vars
  <1>3. ASSUME UNCHANGED decompressed, NEW d, DecPlace(d) PROVE DecPlace(d)'
    BY <1>2, <1>3 DEF DecPlace
  <1>4. QED
    BY <1>1, <1>3

\* and so do the others to those of StripLevels
LEMMA StripUnmoved ==
  ASSUME UNCHANGED <<work, strip_vars>>, NEW d, NEW m, StripPlace(d, m)
  PROVE  StripPlace(d, m)'
BY DEF strip_vars, StripPlace, Within

\* and of the normalizer.
LEMMA NormUnmoved ==
  ASSUME UNCHANGED <<work, norm_vars>>
  PROVE  /\ UNCHANGED out /\ Types => Types'
         /\ \A m, g : UNCHANGED plain /\ NormPlace(m, g) => NormPlace(m, g)'
  <1>1. UNCHANGED out /\ Types => Types'
    BY DEF norm_vars, Types
  <1>2. ASSUME UNCHANGED plain, NEW m, NEW g, NormPlace(m, g) PROVE NormPlace(m, g)'
    BY <1>2 DEF norm_vars, NormPlace, NormRows, Counting, Between, Amid
  <1>3. QED
    BY <1>1, <1>2

\* The invariant is kept by the Decompressor,
LEMMA DecompressKeeps ==
  ASSUME PathInv, Decompress
  PROVE  PathInv'
  <1>1. WellFormed(work) /\ IInv /\ InPlace /\ Types
    BY DEF PathInv
  <1>2. UNCHANGED work /\ Dec!Next /\ UNCHANGED <<strip_vars, plain, norm_vars, out>>
    BY DEF Decompress
  <1>3. IInv'
    BY <1>1, <1>2, TakeConfKeeps, AroundKeeps, LoadKeeps, FeedKeeps, UnzipKeeps, FillTmpKeeps,
       PutTmpKeeps, ResetKeeps, MultiplexKeeps DEF Decompress, Dec!Next
  <1>4. PICK d \in Nat, m \in Nat, g \in Nat : DecPlace(d) /\ StripPlace(d, m) /\ NormPlace(m, g)
    BY <1>1 DEF InPlace
  <1>5. DecPlace(d)'
    BY <1>1, <1>3, <1>4, DecStep
  <1>6. StripPlace(d, m)' /\ NormPlace(m, g)' /\ Types'
    BY <1>1, <1>2, <1>4, StripUnmoved, NormUnmoved
  <1>7. QED
    BY <1>1, <1>2, <1>3, <1>5, <1>6 DEF PathInv, InPlace

\* by StripLevels,
LEMMA StripStepKeeps ==
  ASSUME PathInv, StripStep
  PROVE  PathInv'
  <1>1. WellFormed(work) /\ IInv /\ InPlace /\ Types
    BY DEF PathInv
  <1>2. UNCHANGED work /\ Strip!Next /\ UNCHANGED <<dec_vars, norm_vars, out>>
    BY DEF StripStep
  <1>3. IInv' /\ Types' /\ WellFormed(work)'
    BY <1>1, <1>2, DecUnmoved, NormUnmoved
  <1>4. PICK d \in Nat, m \in Nat, g \in Nat : DecPlace(d) /\ StripPlace(d, m) /\ NormPlace(m, g)
    BY <1>1 DEF InPlace
  <1>5. CASE Strip!Wait
    <2>1. UNCHANGED <<decompressed, plain>>
      BY <1>5 DEF Strip!Wait
    <2>2. StripPlace(d, m)'
      BY <1>1, <1>2, <1>4, <1>5, WaitPlace
    <2>3. DecPlace(d)' /\ NormPlace(m, g)'
      BY <1>2, <1>4, <2>1, DecUnmoved, NormUnmoved
    <2>4. QED
      BY <1>3, <2>2, <2>3 DEF PathInv, InPlace
  <1>6. CASE Strip!Consume
    <2>1. UNCHANGED plain /\ decompressed # <<>> /\ decompressed' = Tail(decompressed)
      BY <1>6 DEF Strip!Consume
    <2>2. StripPlace(d + 1, m)' /\ d + 1 \in Nat
      BY <1>1, <1>2, <1>4, <1>6, ConsumePlace
    <2>3. DecPlace(d + 1)' /\ NormPlace(m, g)'
      BY <1>1, <1>2, <1>4, <2>1, DecTaken, NormUnmoved
    <2>4. QED
      BY <1>3, <2>2, <2>3 DEF PathInv, InPlace
  <1>7. CASE Strip!Pipe
    <2>1. decompressed # <<>> /\ decompressed' = Tail(decompressed)
      BY <1>7 DEF Strip!Pipe
    <2>2. plain \in Seq(PlainBeat)
      BY <1>4 DEF NormPlace, NormRows
    <2>3. PICK n \in 0..2 : Puts(n, m) /\ StripPlace(d + 1, m + n)'
      BY <1>1, <1>2, <1>4, <1>7, <2>2, PipePlace
    <2>4. NormPlace(m + n, g)'
      BY <1>2, <1>4, <2>3, NormPut
    <2>5. DecPlace(d + 1)' /\ d + 1 \in Nat /\ m + n \in Nat
      BY <1>1, <1>2, <1>4, <2>1, DecTaken
    <2>6. QED
      BY <1>3, <2>3, <2>4, <2>5 DEF PathInv, InPlace
  <1>8. QED
    BY <1>2, <1>5, <1>6, <1>7 DEF Strip!Next

\* by TypedNormalizeUntil,
LEMMA NormalizeKeeps ==
  ASSUME PathInv, Normalize
  PROVE  PathInv'
  <1>1. WellFormed(work) /\ IInv /\ InPlace /\ Types
    BY DEF PathInv
  <1>2. UNCHANGED work /\ UNCHANGED <<dec_vars, decompressed, strip_vars>>
    BY DEF Normalize
  <1>3. PICK nr \in BOOLEAN, or \in BOOLEAN : Norm!Clock(nr, or)
    BY DEF Normalize
  <1>4. PICK d \in Nat, m \in Nat, g \in Nat : DecPlace(d) /\ StripPlace(d, m) /\ NormPlace(m, g)
    BY <1>1 DEF InPlace
  <1>5. /\ \E h \in Nat : NormPlace(m, h)'
        /\ remaining # 0 /\ skid # <<>> /\ nr => (remaining' = 0 <=> Norm!GateLast) /\ Norm!GateLast \in BOOLEAN
        /\ Norm!Configure => remaining' # 0
    BY <1>1, <1>2, <1>3, <1>4, NormStep
  <1>6. Counting(g) /\ skid \in Seq(PlainBeat) /\ plain \in Seq(PlainBeat)
    BY <1>4 DEF NormPlace, NormRows
  <1>7. Types'
    BY <1>1, <1>2, <1>3, <1>5, <1>6, TypesStep
  <1>8. IInv' /\ DecPlace(d)' /\ StripPlace(d, m)'
    BY <1>1, <1>2, <1>4, DecUnmoved, StripUnmoved
  <1>9. QED
    BY <1>1, <1>2, <1>4, <1>5, <1>7, <1>8 DEF PathInv, InPlace

\* and by every step.
LEMMA StepKeeps ==
  ASSUME PathInv, [Next]_vars
  PROVE  PathInv'
  <1>1. CASE Decompress
    BY <1>1, DecompressKeeps
  <1>2. CASE StripStep
    BY <1>2, StripStepKeeps
  <1>3. CASE Normalize
    BY <1>3, NormalizeKeeps
  <1>4. CASE UNCHANGED vars
    <2>1. UNCHANGED <<work, dec_vars>> /\ UNCHANGED <<decompressed, strip_vars, plain, norm_vars, out>>
      BY <1>4 DEF vars
    <2>2. WellFormed(work) /\ IInv /\ InPlace /\ Types
      BY DEF PathInv
    <2>3. PICK d \in Nat, m \in Nat, g \in Nat : DecPlace(d) /\ StripPlace(d, m) /\ NormPlace(m, g)
      BY <2>2 DEF InPlace
    <2>4. IInv' /\ Types' /\ DecPlace(d)' /\ StripPlace(d, m)' /\ NormPlace(m, g)'
      BY <2>1, <2>2, <2>3, DecUnmoved, StripUnmoved, NormUnmoved
    <2>5. QED
      BY <2>1, <2>2, <2>4 DEF PathInv, InPlace
  <1>5. QED
    BY <1>1, <1>2, <1>3, <1>4 DEF Next, Step, Done

\* The invariant of the path.
LEMMA InvAlways == Spec => []PathInv
  <1>1. Init => PathInv
    BY PathInit
  <1>2. PathInv /\ [Next]_vars => PathInv'
    BY StepKeeps
  <1>3. QED
    BY <1>1, <1>2, PTL DEF Spec

-----------------------------------------------------------------------------
(* Where the bytes of a chunk are.                                         *)

\* The values of a page come behind those of the pages of its chunk before it.
LEMMA ValuesBehind ==
  ASSUME NEW w, WellFormed(w), NEW p \in Pages(w), NEW q \in Pages(w), p < q, w.layout[q].chunk = w.layout[p].chunk
  PROVE  w.layout[p].upto + w.layout[q].values <= w.layout[q].upto
  <1> DEFINE Behind(x) == w.layout[p].upto + w.layout[x].values <= w.layout[x].upto
             I == {n \in Nat : p + 1 + n <= q => Behind(p + 1 + n)}
  <1>1. /\ Len(w.pages) \in Nat /\ p \in Nat /\ p >= 1 /\ q \in Nat /\ q <= Len(w.pages)
        /\ w.layout[p].upto \in Nat
    BY PageFacts
  \* Pages between the two are of their chunk.
  <1>2. ASSUME NEW x \in Nat, p <= x, x + 1 <= q
        PROVE  /\ x \in Pages(w) /\ x + 1 \in Pages(w)
               /\ w.layout[x + 1].upto = w.layout[x + 1].values + w.layout[x].upto
               /\ w.layout[x].upto \in Nat /\ w.layout[x].values \in Nat /\ w.layout[x + 1].values \in Nat
    <2>1. x \in Pages(w) /\ x + 1 \in Pages(w) /\ x < Len(w.pages) /\ x # 0
      BY <1>1, <1>2 DEF Pages
    <2>2. PICK y \in Pages(w) : y = x + 1 /\ y \in Nat /\ y <= q
      BY <1>2, <2>1
    <2>3. PICK c \in Nat, d \in Nat, e \in Nat : c = w.layout[p].chunk /\ d = w.layout[x].chunk /\ e = w.layout[y].chunk
      BY <2>1, PageFacts
    <2>4. c <= d
      <3>1. p < x => w.layout[x].chunk >= w.layout[p].chunk
        BY <2>1, PagesBehind
      <3>2. QED
        BY <1>1, <1>2, <2>3, <3>1
    <2>5. d <= e
      <3>1. x < y
        BY <1>2, <2>2
      <3>2. w.layout[y].chunk >= w.layout[x].chunk
        BY <2>1, <3>1, PagesBehind
      <3>3. QED
        BY <2>3, <3>2
    <2>6. e <= c
      <3>1. y < q => w.layout[q].chunk >= w.layout[y].chunk
        BY PagesBehind
      <3>2. QED
        BY <1>1, <2>2, <2>3, <3>1
    <2>7. w.layout[x + 1].chunk = w.layout[x].chunk
      <3>1. d = e
        <4>1. c \in Nat /\ d \in Nat /\ e \in Nat
          BY <2>3
        <4>2. QED
          BY <2>4, <2>5, <2>6, <4>1
      <3>2. QED
        BY <2>2, <2>3, <3>1
    <2>8. w.layout[x + 1].upto = w.layout[x + 1].values
            + (IF x = 0 \/ w.layout[x + 1].chunk # w.layout[x].chunk THEN 0 ELSE w.layout[x].upto)
      BY <1>2, <2>1, NextPage
    <2>9. w.layout[x].upto \in Nat /\ w.layout[x].values \in Nat /\ w.layout[x + 1].values \in Nat
      BY <2>1, PageFacts
    <2>10. QED
      BY <2>1, <2>7, <2>8, <2>9
  <1>3. 0 \in I
    <2>1. p + 1 + 0 = p + 1 /\ p <= p
      BY <1>1
    <2>2. SUFFICES ASSUME p + 1 <= q PROVE Behind(p + 1)
      BY <2>1
    <2>3. w.layout[p + 1].upto = w.layout[p + 1].values + w.layout[p].upto /\ w.layout[p + 1].values \in Nat
      BY <1>1, <1>2, <2>1, <2>2
    <2>4. QED
      BY <1>1, <2>3
  <1>4. ASSUME NEW n \in Nat, n \in I PROVE n + 1 \in I
    <2>1. PICK x \in Nat : x = p + 1 + n /\ x + 1 = p + 1 + (n + 1) /\ p <= x
      BY <1>1
    <2>2. SUFFICES ASSUME x + 1 <= q PROVE Behind(x + 1)
      BY <2>1
    <2>3. Behind(x)
      <3> HIDE DEF Behind
      <3>1. p + 1 + n <= q
        BY <1>1, <2>1, <2>2
      <3>2. Behind(p + 1 + n)
        BY <1>4, <3>1
      <3>3. QED
        BY <2>1, <3>2, Zenon
    <2>4. /\ w.layout[x + 1].upto = w.layout[x + 1].values + w.layout[x].upto
          /\ w.layout[x].upto \in Nat /\ w.layout[x].values \in Nat /\ w.layout[x + 1].values \in Nat
      BY <1>2, <2>1, <2>2
    <2>5. QED
      BY <1>1, <2>3, <2>4
  <1> HIDE DEF I
  <1>5. q - p - 1 \in I
    <2>1. q - p - 1 \in Nat
      BY <1>1
    <2>2. Nat \subseteq I
      BY <1>3, <1>4, NatSetInduction
    <2>3. QED
      BY <2>1, <2>2
  <1>6. p + 1 + (q - p - 1) = q /\ q <= q
    BY <1>1
  <1>7. QED
    BY <1>5, <1>6 DEF I

\* The pages of a chunk have its type.
LEMMA TypeOfPage ==
  ASSUME NEW w, WellFormed(w), NEW p \in Pages(w)
  PROVE  TypeOf(w, w.layout[p].chunk) = w.contents[p].typ
  <1>1. PICK c : c = w.layout[p].chunk
    OBVIOUS
  <1>2. PICK q : q = CHOOSE x \in 1..Len(w.pages) : w.layout[x].chunk = c
    OBVIOUS
  <1>3. q \in Pages(w) /\ w.layout[q].chunk = c
    BY <1>1, <1>2 DEF Pages
  <1>4. p \in Nat /\ q \in Nat
    BY <1>3, PageFacts
  <1>5. p < q => w.contents[q].typ = w.contents[p].typ
    BY <1>1, <1>3, PagesBehind
  <1>6. q < p => w.contents[q].typ = w.contents[p].typ
    BY <1>1, <1>3, PagesBehind
  <1>7. w.contents[q].typ = w.contents[p].typ
    <2>1. p < q \/ q < p \/ p = q
      BY <1>4
    <2>2. QED
      BY <1>5, <1>6, <2>1
  <1>8. TypeOf(w, c) = w.contents[q].typ
    BY <1>2 DEF TypeOf
  <1>9. QED
    BY <1>1, <1>7, <1>8

\* A page that has a byte of a chunk is before no other that has it.
LEMMA HoldsAlone ==
  ASSUME NEW w, WellFormed(w), NEW p \in Pages(w), NEW q \in Pages(w), NEW c, NEW x \in Nat,
         Holds(w, p, c, x), Holds(w, q, c, x)
  PROVE  ~(p < q)
  <1>1. SUFFICES ASSUME p < q PROVE FALSE
    OBVIOUS
  <1>2. /\ w.layout[p].chunk = c /\ w.layout[q].chunk = c
        /\ x < w.layout[p].upto * Width[w.contents[p].typ] /\ ValuesFrom(w, q) <= x
    BY DEF Holds
  <1>3. w.contents[q].typ = w.contents[p].typ
    BY <1>1, <1>2, PagesBehind
  <1>4. PICK u, v, t, e :
          /\ u \in Nat /\ v \in Nat /\ t \in Nat /\ e \in Nat
          /\ u = w.layout[p].upto /\ v = w.layout[q].values /\ t = w.layout[q].upto /\ e = Width[w.contents[p].typ]
    BY PageFacts
  <1>5. u + v <= t
    BY <1>1, <1>2, <1>4, ValuesBehind
  <1>6. PICK f \in Nat : f = t - v /\ u <= f
    BY <1>4, <1>5
  <1>7. u * e \in Nat /\ f * e \in Nat /\ u * e <= f * e
    BY <1>4, <1>6, Product
  <1>8. x < u * e
    BY <1>2, <1>4, Zenon
  <1>9. ValuesFrom(w, q) = f * e
    BY <1>3, <1>4, <1>6, Zenon DEF ValuesFrom
  <1>10. f * e <= x
    BY <1>2, <1>9, Zenon
  <1>11. QED
    BY <1>7, <1>8, <1>10

\* A byte of a chunk is in the page that has it.
LEMMA ByteOfPage ==
  ASSUME NEW w, WellFormed(w), NEW p \in Pages(w), NEW c, NEW x \in Nat, Holds(w, p, c, x)
  PROVE  ByteOf(w, c, x) = [page |-> p, at |-> ValuesAt(w, p) + (x - ValuesFrom(w, p))]
  <1>1. PICK q : q = CHOOSE y \in 1..Len(w.pages) : Holds(w, y, c, x)
    OBVIOUS
  <1>2. q \in Pages(w) /\ Holds(w, q, c, x)
    BY <1>1 DEF Pages
  <1>3. ~(p < q) /\ ~(q < p)
    BY <1>2, HoldsAlone
  <1>4. p \in Nat /\ q \in Nat
    BY <1>2, PageFacts
  <1>5. p = q
    BY <1>3, <1>4
  <1>6. QED
    BY <1>1, <1>5 DEF ByteOf, ValuesAt

\* The bytes s, s + 1, ... of a chunk, n of them.
Stretch(c, s, n) == [i \in 1..n |-> ByteOf(work, c, s + i - 1)]

\* A databeat behind StripLevels has the bytes of its chunk from the value it begins with.
LEMMA PlainStretch ==
  ASSUME WellFormed(work), NEW p \in Pages(work), NEW j \in 1..Plains(work, p),
         NEW s \in Nat, s = ValuesFrom(work, p) + (j - 1) * NumBytes
  PROVE  PlainOf(work, p, j).bytes = Stretch(work.layout[p].chunk, s, PlainSize(work, p, j))
  <1>1. PICK n, at, u, v, e, i, nb, b :
          /\ n \in Nat /\ at \in Nat /\ u \in Nat /\ v \in Nat /\ e \in Nat /\ i \in Nat /\ nb \in Nat /\ b \in Nat
          /\ n = PlainSize(work, p, j) /\ at = ValuesAt(work, p) /\ u = work.layout[p].upto /\ v = work.layout[p].values
          /\ e = Width[work.contents[p].typ] /\ i = j - 1 /\ nb = NumBytes /\ b = Plains(work, p)
    <2>1. PlainSize(work, p, j) \in Nat
      <3>1. PlainSize(work, p, j) \in 1..NumBytes
        BY PlainSizes
      <3>2. NumBytes \in Nat
        BY Width4
      <3>3. QED
        BY <3>1, <3>2
    <2>2. Plains(work, p) \in Nat /\ j \in Nat /\ j - 1 \in Nat /\ NumBytes \in Nat
      <3>1. Plains(work, p) \in Nat
        BY PageFacts
      <3>2. QED
        BY <3>1, Width4
    <2>3. /\ ValuesAt(work, p) \in Nat /\ work.layout[p].upto \in Nat /\ work.layout[p].values \in Nat
          /\ Width[work.contents[p].typ] \in Nat
      BY PageFacts
    <2>4. QED
      BY <2>1, <2>2, <2>3
  <1>2. v <= u
    <2>1. CASE p = 1 \/ work.layout[p].chunk # work.layout[p - 1].chunk
      <3>1. Starts(work, p)
        BY <2>1 DEF Starts
      <3>2. work.layout[p].upto = work.layout[p].values + 0
        BY <3>1 DEF WellFormed, PagesInRow, Pages
      <3>3. QED
        BY <1>1, <3>2
    <2>2. CASE ~(p = 1 \/ work.layout[p].chunk # work.layout[p - 1].chunk)
      <3>1. ~Starts(work, p)
        BY <2>2 DEF Starts
      <3>2. work.layout[p].upto = work.layout[p].values + work.layout[p - 1].upto
        BY <3>1 DEF WellFormed, PagesInRow, Pages
      <3>3. p - 1 \in Pages(work)
        BY <2>2 DEF Pages, WellFormed
      <3>4. work.layout[p - 1].upto \in Nat
        BY <3>3, PageFacts
      <3>5. QED
        BY <1>1, <3>2, <3>4
    <2>3. QED
      BY <2>1, <2>2
  <1>3. PICK f \in Nat : f = u - v
    BY <1>1, <1>2
  <1>4. PICK fe, ve, ib : fe \in Nat /\ ve \in Nat /\ ib \in Nat /\ fe = f * e /\ ve = v * e /\ ib = i * nb
    <2>1. f * e \in Nat /\ v * e \in Nat /\ i * nb \in Nat
      BY <1>1, <1>3
    <2>2. QED
      BY <2>1
  <1>5. s = fe + ib /\ ValuesFrom(work, p) = fe /\ u * e = fe + ve
    <2>1. ValuesFrom(work, p) = fe
      BY <1>1, <1>3, <1>4, Zenon DEF ValuesFrom
    <2>2. u = f + v
      BY <1>1, <1>3
    <2>3. (f + v) * e = f * e + v * e
      BY <1>1, <1>3
    <2>4. u * e = fe + ve
      BY <1>4, <2>2, <2>3, Zenon
    <2>5. QED
      BY <1>1, <1>4, <2>1, <2>4, Zenon
  <1>6. ib + n <= ve
    <2>1. ValueBytes(work, p) = ve
      BY <1>1, <1>4, Zenon DEF ValueBytes
    <2>2. CASE j = b
      <3>1. n = ve - ib
        BY <1>1, <1>4, <2>1, <2>2, Zenon DEF PlainSize
      <3>2. fe \in Nat /\ ve \in Nat /\ ib \in Nat
        BY <1>4
      <3>3. QED
        BY <3>1, <3>2
    <2>3. CASE j # b
      <3>1. n = nb
        BY <1>1, <2>3 DEF PlainSize
      <3>2. j \in Nat /\ j < BeatsFor(ValueBytes(work, p))
        BY <1>1, <2>3 DEF Plains
      <3>3. ValueBytes(work, p) \in Nat /\ ValueBytes(work, p) >= 1
        BY PageFacts
      <3>4. j * nb < ve
        BY <1>1, <2>1, <3>2, <3>3, BeatsBound
      <3>5. j = i + 1
        BY <1>1
      <3>6. (i + 1) * nb = i * nb + nb
        BY <1>1
      <3>7. j * nb = ib + n
        BY <1>4, <3>1, <3>5, <3>6, Zenon
      <3>8. fe \in Nat /\ ve \in Nat /\ ib \in Nat /\ n \in Nat
        BY <1>1, <1>4
      <3>9. QED
        BY <3>4, <3>7, <3>8
    <2>4. QED
      BY <2>2, <2>3
  <1>7. ASSUME NEW x \in 1..n
        PROVE  [page |-> p, at |-> ValuesAt(work, p) + (j - 1) * NumBytes + x - 1]
                 = ByteOf(work, work.layout[p].chunk, s + x - 1)
    <2>1. fe \in Nat /\ ve \in Nat /\ ib \in Nat /\ n \in Nat /\ at \in Nat
      BY <1>1, <1>4
    <2>2. PICK y \in Nat : y = s + x - 1 /\ fe <= y /\ y < fe + ve /\ at + (y - fe) = at + ib + x - 1
      <3>1. s = fe + ib
        BY <1>5
      <3>2. QED
        BY <1>6, <2>1, <3>1
    <2>3. Holds(work, p, work.layout[p].chunk, y)
      <3>1. ValuesFrom(work, p) <= y
        BY <1>5, <2>2, Zenon
      <3>2. y < work.layout[p].upto * Width[work.contents[p].typ]
        BY <1>1, <1>5, <2>2, Zenon
      <3>3. QED
        BY <3>1, <3>2 DEF Holds
    <2>4. ByteOf(work, work.layout[p].chunk, y) = [page |-> p, at |-> ValuesAt(work, p) + (y - ValuesFrom(work, p))]
      BY <2>3, ByteOfPage
    <2>5. ValuesAt(work, p) + (y - ValuesFrom(work, p)) = ValuesAt(work, p) + (j - 1) * NumBytes + x - 1
      BY <1>1, <1>4, <1>5, <2>2, Zenon
    <2>6. QED
      BY <2>2, <2>4, <2>5, Zenon
  <1>8. PlainOf(work, p, j).bytes
          = [x \in 1..n |-> [page |-> p, at |-> ValuesAt(work, p) + (j - 1) * NumBytes + x - 1]]
    BY <1>1 DEF PlainOf
  <1>9. [x \in 1..n |-> [page |-> p, at |-> ValuesAt(work, p) + (j - 1) * NumBytes + x - 1]]
          = [x \in 1..n |-> ByteOf(work, work.layout[p].chunk, s + x - 1)]
    BY <1>7, Zenon
  <1>10. QED
    BY <1>1, <1>8, <1>9, Zenon DEF Stretch

-----------------------------------------------------------------------------
(* What the DataNormalizer makes of the bytes of a chunk.                  *)

\* A sequence of the bytes of a chunk is a stretch of it.
LEMMA StretchIs ==
  ASSUME NEW S, NEW q \in Seq(S), NEW c, NEW s \in Nat, \A i \in 1..Len(q) : q[i] = ByteOf(work, c, s + i - 1),
         NEW n, n = Len(q)
  PROVE  q = Stretch(c, s, n)
  <1>1. q \in [1..Len(q) -> S]
    BY LenProperties
  <1>2. q = [i \in 1..Len(q) |-> q[i]]
    BY <1>1
  <1>3. [i \in 1..Len(q) |-> q[i]] = [i \in 1..Len(q) |-> ByteOf(work, c, s + i - 1)]
    BY Zenon
  <1>4. q = [i \in 1..Len(q) |-> ByteOf(work, c, s + i - 1)]
    BY <1>2, <1>3, Zenon
  <1>5. QED
    BY <1>4, Zenon DEF Stretch

\* Bytes that are held and those that come behind them are one stretch.
LEMMA StretchJoin ==
  ASSUME NEW a \in Seq(Place), NEW b \in Seq(Place), NEW c, NEW s \in Nat,
         a = Stretch(c, s, Len(a)), b = Stretch(c, s + Len(a), Len(b))
  PROVE  a \o b \in Seq(Place) /\ Len(a \o b) = Len(a) + Len(b) /\ a \o b = Stretch(c, s, Len(a) + Len(b))
  <1>a. PICK l \in Nat : l = Len(a)
    OBVIOUS
  <1>b. PICK m \in Nat : m = Len(b)
    OBVIOUS
  <1>c. PICK z \in Nat : z = s + l
    OBVIOUS
  <1>d. PICK n \in Nat : n = l + m
    OBVIOUS
  <1>e. z = s + Len(a) /\ n = Len(a) + Len(b)
    BY <1>a, <1>b, <1>c, <1>d, Zenon
  <1>f. a = Stretch(c, s, l) /\ b = Stretch(c, z, m)
    BY <1>a, <1>b, <1>e, Zenon
  <1>1. /\ a \o b \in Seq(Place) /\ Len(a \o b) = n
        /\ \A i \in 1..n : (a \o b)[i] = IF i <= l THEN a[i] ELSE b[i - l]
    BY <1>a, <1>b, <1>d, ConcatProperties
  <1>2. ASSUME NEW i \in 1..n PROVE (a \o b)[i] = ByteOf(work, c, s + i - 1)
    <2>1. CASE i <= l
      <3>1. i \in 1..l
        BY <2>1
      <3>2. a[i] = ByteOf(work, c, s + i - 1)
        BY <1>f, <3>1 DEF Stretch
      <3>3. QED
        BY <1>1, <2>1, <3>2
    <2>2. CASE ~(i <= l)
      <3>1. PICK y \in 1..m : y = i - l /\ z + y - 1 = s + i - 1
        <4>1. i - l \in 1..m /\ z + (i - l) - 1 = s + i - 1
          BY <1>c, <1>d, <2>2
        <4>2. QED
          BY <4>1
      <3>2. b[y] = ByteOf(work, c, z + y - 1)
        BY <1>f, <3>1 DEF Stretch
      <3>3. (a \o b)[i] = b[y]
        BY <1>1, <2>2, <3>1
      <3>4. QED
        BY <3>1, <3>2, <3>3, Zenon
    <2>3. QED
      BY <2>1, <2>2
  <1>3. PICK q : q = a \o b
    OBVIOUS
  <1>4. q \in Seq(Place) /\ n = Len(q) /\ \A i \in 1..Len(q) : q[i] = ByteOf(work, c, s + i - 1)
    BY <1>1, <1>2, <1>3, Zenon
  <1>5. q = Stretch(c, s, n)
    BY <1>4, StretchIs
  <1>6. QED
    BY <1>1, <1>3, <1>5, <1>e, Zenon

\* The first of them and what is left.
LEMMA StretchCut ==
  ASSUME NEW a \in Seq(Place), NEW c, NEW s \in Nat, a = Stretch(c, s, Len(a)),
         NEW k \in Nat, k <= Len(a)
  PROVE  /\ SubSeq(a, 1, k) = Stretch(c, s, k) /\ SubSeq(a, 1, k) \in Seq(Place)
         /\ SubSeq(a, k + 1, Len(a)) = Stretch(c, s + k, Len(a) - k) /\ SubSeq(a, k + 1, Len(a)) \in Seq(Place)
         /\ Len(SubSeq(a, k + 1, Len(a))) = Len(a) - k
  <1>a. PICK l \in Nat : l = Len(a)
    OBVIOUS
  <1>r. PICK r \in Nat : r = l - k /\ r = Len(a) - k
    <2>1. l - k \in Nat
      BY <1>a
    <2>2. QED
      BY <1>a, <2>1
  <1>b. PICK z \in Nat : z = s + k
    OBVIOUS
  <1>c. l = k + r /\ a = Stretch(c, s, l)
    <2>1. l = k + r
      BY <1>r
    <2>2. QED
      BY <1>a, <2>1, Zenon
  <1>1. \A i \in 1..l : a[i] \in Place /\ a[i] = ByteOf(work, c, s + i - 1)
    BY <1>a, <1>c DEF Stretch
  <1>2. PICK q : q = SubSeq(a, 1, k)
    OBVIOUS
  <1>3. q \in Seq(Place) /\ Len(q) = k /\ \A i \in 1..k : q[i] = a[i]
    <2>1. \A i \in 1..k : a[i] \in Place
      BY <1>a, <1>c, <1>1
    <2>2. /\ SubSeq(a, 1, k) \in Seq(Place) /\ Len(SubSeq(a, 1, k)) = IF 1 <= k THEN k - 1 + 1 ELSE 0
          /\ \A i \in 1..(k - 1 + 1) : SubSeq(a, 1, k)[i] = a[1 + i - 1]
      BY <1>a, <1>c, <2>1, SubSeqProperties
    <2>3. (IF 1 <= k THEN k - 1 + 1 ELSE 0) = k /\ k - 1 + 1 = k
      OBVIOUS
    <2>4. q \in Seq(Place) /\ Len(q) = k /\ \A i \in 1..k : q[i] = a[1 + i - 1]
      BY <1>2, <2>2, <2>3, Zenon
    <2>5. \A i \in 1..k : a[1 + i - 1] = a[i]
      OBVIOUS
    <2>6. QED
      BY <2>4, <2>5
  <1>4. q = Stretch(c, s, k)
    <2>1. \A i \in 1..k : i \in 1..l
      BY <1>c
    <2>2. \A i \in 1..k : q[i] = ByteOf(work, c, s + i - 1)
      BY <1>1, <1>3, <2>1, Zenon
    <2>3. \A i \in 1..Len(q) : q[i] = ByteOf(work, c, s + i - 1)
      BY <1>3, <2>2, Zenon
    <2>4. QED
      BY <1>3, <2>3, StretchIs
  <1>5. PICK t : t = SubSeq(a, k + 1, l)
    OBVIOUS
  <1>6. t \in Seq(Place) /\ Len(t) = r /\ \A i \in 1..r : t[i] = a[k + i]
    <2>1. \A i \in (k + 1)..l : a[i] \in Place
      BY <1>a, <1>c, <1>1
    <2>2. k + 1 \in Int /\ l \in Int /\ (IF k + 1 <= l THEN l - (k + 1) + 1 ELSE 0) = r /\ l - (k + 1) + 1 = r
      BY <1>c
    <2>3. /\ SubSeq(a, k + 1, l) \in Seq(Place) /\ Len(SubSeq(a, k + 1, l)) = IF k + 1 <= l THEN l - (k + 1) + 1 ELSE 0
          /\ \A i \in 1..(l - (k + 1) + 1) : SubSeq(a, k + 1, l)[i] = a[(k + 1) + i - 1]
      BY <1>c, <2>1, <2>2, SubSeqProperties
    <2>4. \A i \in 1..r : a[(k + 1) + i - 1] = a[k + i]
      OBVIOUS
    <2>5. t \in Seq(Place) /\ Len(t) = r /\ \A i \in 1..r : t[i] = a[(k + 1) + i - 1]
      BY <1>5, <2>2, <2>3, Zenon
    <2>6. QED
      BY <2>4, <2>5
  <1>7. t = Stretch(c, z, r)
    <2>1. ASSUME NEW i \in 1..r PROVE t[i] = ByteOf(work, c, z + i - 1)
      <3>1. PICK y \in 1..l : y = k + i /\ s + y - 1 = z + i - 1
        BY <1>b, <1>c
      <3>2. t[i] = a[y]
        BY <1>6, <3>1
      <3>3. a[y] = ByteOf(work, c, s + y - 1)
        BY <1>1, <3>1
      <3>4. QED
        BY <3>1, <3>2, <3>3, Zenon
    <2>2. t \in Seq(Place) /\ r = Len(t) /\ \A i \in 1..Len(t) : t[i] = ByteOf(work, c, z + i - 1)
      BY <1>6, <2>1, Zenon
    <2>3. QED
      BY <2>2, StretchIs
  <1>8. QED
    BY <1>a, <1>b, <1>r, <1>2, <1>3, <1>4, <1>5, <1>6, <1>7, Zenon

\* Databeat b + 1 of a chunk begins with this byte.
Start(b) == b * NumBytes

\* Databeats have as many bytes each.
LEMMA Starting ==
  ASSUME NEW b \in Nat
  PROVE  Start(b) \in Nat /\ Start(b + 1) = Start(b) + NumBytes
  <1>1. PICK nb \in Nat : nb = NumBytes
    BY Width4
  <1>2. b * nb \in Nat /\ (b + 1) * nb = b * nb + nb
    OBVIOUS
  <1>3. QED
    BY <1>1, <1>2 DEF Start

\* Bytes and last of databeat k of a chunk.
PartOf(c, k) == [bytes |-> BeatOf(work, c, k).bytes, last |-> BeatOf(work, c, k).last]

\* A databeat that does not end its chunk is full,
LEMMA PartFull ==
  ASSUME NEW c, NEW t \in Nat, t = ChunkBytes(work, c), NEW b \in Nat, Start(b + 1) < t
  PROVE  PartOf(c, b + 1) = [bytes |-> Stretch(c, Start(b), NumBytes), last |-> FALSE]
  <1>a. PICK k \in Nat : k = b + 1
    OBVIOUS
  <1>1. k - 1 = b
    BY <1>a
  <1>2. t >= 1 /\ k * NumBytes < t
    <2>1. Start(k) \in Nat /\ Start(k) < t
      BY <1>a, Starting
    <2>2. QED
      BY <2>1 DEF Start
  <1>3. BeatOf(work, c, k).last = FALSE
    <2>1. k < BeatsFor(t) /\ BeatsFor(t) \in Nat
      BY <1>2, BeatsBound, BeatsFit
    <2>2. k # BeatsFor(t)
      BY <2>1
    <2>3. BeatOf(work, c, k).last = (k = BeatsFor(t))
      BY DEF BeatOf
    <2>4. QED
      BY <2>2, <2>3
  <1>4. (k - 1) * NumBytes = Start(b)
    BY <1>1, Zenon DEF Start
  <1>5. BeatOf(work, c, k).bytes
          = [i \in 1..(IF BeatOf(work, c, k).last THEN t - (k - 1) * NumBytes ELSE NumBytes) |->
               ByteOf(work, c, (k - 1) * NumBytes + i - 1)]
    BY DEF BeatOf
  <1>6. BeatOf(work, c, k).bytes = [i \in 1..NumBytes |-> ByteOf(work, c, Start(b) + i - 1)]
    BY <1>3, <1>4, <1>5, Zenon
  <1>7. BeatOf(work, c, k).bytes = Stretch(c, Start(b), NumBytes)
    BY <1>6, Zenon DEF Stretch
  <1>8. QED
    BY <1>a, <1>3, <1>7, Zenon DEF PartOf

\* and the one that ends it has what the chunk has left.
LEMMA PartLast ==
  ASSUME NEW c, NEW t \in Nat, t = ChunkBytes(work, c), NEW b \in Nat, Start(b) < t, t <= Start(b + 1)
  PROVE  PartOf(c, b + 1) = [bytes |-> Stretch(c, Start(b), t - Start(b)), last |-> TRUE]
  <1>1. PICK k \in Nat : k = b + 1
    OBVIOUS
  <1>2. t >= 1 /\ b * NumBytes < t /\ t <= (b + 1) * NumBytes
    <2>1. Start(b) \in Nat
      BY Starting
    <2>2. t >= 1
      BY <2>1
    <2>3. QED
      BY <2>2 DEF Start
  <1>3. BeatOf(work, c, k).last = TRUE
    <2>1. BeatsFor(t) = b + 1
      BY <1>2, BeatsExact
    <2>2. BeatOf(work, c, k).last = (k = BeatsFor(t))
      BY DEF BeatOf
    <2>3. QED
      BY <1>1, <2>1, <2>2
  <1>4. (k - 1) * NumBytes = Start(b)
    <2>1. k - 1 = b
      BY <1>1
    <2>2. QED
      BY <2>1, Zenon DEF Start
  <1>5. BeatOf(work, c, k).bytes
          = [i \in 1..(IF BeatOf(work, c, k).last THEN t - (k - 1) * NumBytes ELSE NumBytes) |->
               ByteOf(work, c, (k - 1) * NumBytes + i - 1)]
    BY DEF BeatOf
  <1>7. BeatOf(work, c, k).bytes = [i \in 1..(t - Start(b)) |-> ByteOf(work, c, Start(b) + i - 1)]
    BY <1>3, <1>4, <1>5, Zenon
  <1>8. BeatOf(work, c, k).bytes = Stretch(c, Start(b), t - Start(b))
    BY <1>7, Zenon DEF Stretch
  <1>9. QED
    BY <1>1, <1>3, <1>8, Zenon DEF PartOf

\* Behind b databeats of chunk c and some bytes, up to byte e, the DataNormalizer has put
\* out `beats` and kept `rest`.
Cuts(c, b, e, beats, rest, last) ==
  \/ /\ ~last /\ beats = <<>>
     /\ rest = Stretch(c, Start(b), Len(rest)) /\ Len(rest) < NumBytes /\ Start(b) + Len(rest) = e
  \/ /\ ~last /\ beats = <<PartOf(c, b + 1)>> /\ PartOf(c, b + 1) \in FullBeat /\ ~PartOf(c, b + 1).last
     /\ rest = Stretch(c, Start(b + 1), Len(rest)) /\ Len(rest) < NumBytes /\ Start(b + 1) + Len(rest) = e
  \/ /\ last /\ beats = <<PartOf(c, b + 1)>> /\ PartOf(c, b + 1) \in FullBeat /\ PartOf(c, b + 1).last
     /\ rest = <<>>
  \/ /\ last /\ beats = <<PartOf(c, b + 1), PartOf(c, b + 2)>>
     /\ PartOf(c, b + 1) \in FullBeat /\ ~PartOf(c, b + 1).last /\ PartOf(c, b + 2) \in FullBeat /\ PartOf(c, b + 2).last
     /\ rest = <<>>

\* A databeat of bytes is one of the pipeline.
LEMMA FullIs ==
  ASSUME NEW q \in Seq(Place), NEW e \in BOOLEAN, NEW x, x = [bytes |-> q, last |-> e]
  PROVE  x \in FullBeat /\ x.last = e
BY DEF FullBeat

\* What Packed makes of bytes,
LEMMA PackedIs ==
  ASSUME NEW x, NEW last, NEW beats, NEW rest, Norm!Packed(x, last) = [beats |-> beats, rest |-> rest]
  PROVE  Norm!Packed(x, last).beats = beats /\ Norm!Packed(x, last).rest = rest
OBVIOUS

\* The DataNormalizer keeps bytes that do not fill a databeat,
LEMMA PackedFew ==
  ASSUME NEW x, NEW all, all = packed \o x, NEW n \in Nat, n = Len(all), n < NumBytes
  PROVE  Norm!Packed(x, FALSE).beats = <<>> /\ Norm!Packed(x, FALSE).rest = all
  <1>1. Norm!Packed(x, FALSE) = [beats |-> <<>>, rest |-> all]
    BY DEF Norm!Packed
  <1>2. QED
    BY <1>1, PackedIs, Zenon

\* puts them out if they are the last,
LEMMA PackedLast ==
  ASSUME NEW x, NEW all \in Seq(Place), all = packed \o x, NEW n \in Nat, n = Len(all), n < NumBytes,
         NEW full, full = SubSeq(all, 1, n)
  PROVE  /\ Norm!Packed(x, TRUE).beats = << [bytes |-> full, last |-> TRUE] >>
         /\ Norm!Packed(x, TRUE).rest = <<>>
  <1>1. SubSeq(all, NumBytes + 1, Len(all)) = <<>>
    <2>1. PICK nb \in Nat : nb = NumBytes
      BY Width4
    <2>2. nb + 1 \in Int /\ n \in Int /\ n < nb + 1
      BY <2>1
    <2>3. QED
      BY <2>1, <2>2, SubSeqEmpty
  <1>2. Norm!Packed(x, TRUE) = [beats |-> << [bytes |-> full, last |-> TRUE] >>, rest |-> <<>>]
    BY <1>1, Zenon DEF Norm!Packed
  <1>3. QED
    BY <1>2, PackedIs, Zenon

\* and puts out a databeat they fill, and what is behind it if that is the last.
LEMMA PackedFull ==
  ASSUME NEW x, ~(Len(packed \o x) < NumBytes),
         NEW full, full = SubSeq(packed \o x, 1, NumBytes),
         NEW rest, rest = SubSeq(packed \o x, NumBytes + 1, Len(packed \o x))
  PROVE  /\ Norm!Packed(x, FALSE).beats = << [bytes |-> full, last |-> FALSE] >>
         /\ Norm!Packed(x, FALSE).rest = rest
         /\ rest = <<>> => /\ Norm!Packed(x, TRUE).beats = << [bytes |-> full, last |-> TRUE] >>
                           /\ Norm!Packed(x, TRUE).rest = <<>>
         /\ rest # <<>> => /\ Norm!Packed(x, TRUE).beats
                                = << [bytes |-> full, last |-> FALSE], [bytes |-> rest, last |-> TRUE] >>
                           /\ Norm!Packed(x, TRUE).rest = <<>>
  <1>1. Norm!Packed(x, FALSE) = [beats |-> << [bytes |-> full, last |-> FALSE] >>, rest |-> rest]
    BY Zenon DEF Norm!Packed
  <1>2. Norm!Packed(x, FALSE).beats = << [bytes |-> full, last |-> FALSE] >> /\ Norm!Packed(x, FALSE).rest = rest
    BY <1>1, PackedIs, Zenon
  <1>3. ASSUME rest = <<>>
        PROVE  /\ Norm!Packed(x, TRUE).beats = << [bytes |-> full, last |-> TRUE] >>
               /\ Norm!Packed(x, TRUE).rest = rest
    <2>1. Norm!Packed(x, TRUE) = [beats |-> << [bytes |-> full, last |-> TRUE] >>, rest |-> rest]
      BY <1>3, Zenon DEF Norm!Packed
    <2>2. QED
      BY <2>1, PackedIs, Zenon
  <1>4. ASSUME rest # <<>>
        PROVE  /\ Norm!Packed(x, TRUE).beats
                    = << [bytes |-> full, last |-> FALSE], [bytes |-> rest, last |-> TRUE] >>
               /\ Norm!Packed(x, TRUE).rest = <<>>
    <2>1. Norm!Packed(x, TRUE) =
            [beats |-> << [bytes |-> full, last |-> FALSE], [bytes |-> rest, last |-> TRUE] >>, rest |-> <<>>]
      BY <1>4, Zenon DEF Norm!Packed
    <2>2. QED
      BY <2>1, PackedIs, Zenon
  <1>5. rest = <<>> => Norm!Packed(x, TRUE).rest = <<>>
    BY <1>3, Zenon
  <1>6. QED
    BY <1>2, <1>3, <1>4, <1>5, Zenon

\* Behind b databeats of chunk c, `packed` and then the bytes x are those of it up to e.
Continues(x, c, b, e) ==
  /\ packed \in Seq(Place) /\ Len(packed) < NumBytes /\ packed = Stretch(c, Start(b), Len(packed))
  /\ x \in Seq(Place) /\ Len(x) \in 1..NumBytes /\ x = Stretch(c, Start(b) + Len(packed), Len(x))
  /\ e = Start(b) + Len(packed) + Len(x)

\* All of these bytes,
LEMMA AllBytes ==
  ASSUME NEW x, NEW c, NEW b \in Nat, NEW e \in Nat, Continues(x, c, b, e)
  PROVE  /\ packed \o x \in Seq(Place) /\ packed \o x = Stretch(c, Start(b), Len(packed \o x))
         /\ Len(packed \o x) >= 1 /\ Len(packed \o x) < NumBytes + NumBytes /\ e = Start(b) + Len(packed \o x)
  <1>1. PICK s \in Nat : s = Start(b)
    BY Starting
  <1>2. PICK nb \in Nat : nb = NumBytes
    BY Width4
  <1>3. PICK l \in Nat : l = Len(packed) /\ l < nb
    BY <1>2 DEF Continues
  <1>4. PICK m \in Nat : m = Len(x) /\ m >= 1 /\ m <= nb
    BY <1>2 DEF Continues
  <1>5. /\ packed \in Seq(Place) /\ x \in Seq(Place) /\ packed = Stretch(c, s, Len(packed))
        /\ x = Stretch(c, s + Len(packed), Len(x)) /\ e = s + Len(packed) + Len(x)
    BY <1>1, Zenon DEF Continues
  <1>6. packed \o x \in Seq(Place) /\ Len(packed \o x) = l + m /\ packed \o x = Stretch(c, s, l + m)
    <2>1. /\ packed \o x \in Seq(Place) /\ Len(packed \o x) = Len(packed) + Len(x)
          /\ packed \o x = Stretch(c, s, Len(packed) + Len(x))
      BY <1>5, StretchJoin
    <2>2. QED
      BY <1>3, <1>4, <2>1, Zenon
  <1>7. e = s + l + m
    BY <1>3, <1>4, <1>5, Zenon
  <1>8. l + m >= 1 /\ l + m < nb + nb /\ e = s + (l + m)
    <2>1. l < nb /\ m >= 1 /\ m <= nb
      BY <1>3, <1>4
    <2>2. QED
      BY <1>7, <2>1
  <1>9. QED
    BY <1>1, <1>2, <1>6, <1>8, Zenon

\* if they do not fill a databeat,
LEMMA FewBytes ==
  ASSUME NEW x, NEW c, NEW b \in Nat, NEW e \in Nat, Continues(x, c, b, e), Len(packed \o x) < NumBytes
  PROVE  SubSeq(packed \o x, 1, Len(packed \o x)) = packed \o x
  <1>1. packed \o x \in Seq(Place)
    BY AllBytes
  <1>2. QED
    BY <1>1, SubSeqFull

\* and if they do.
LEMMA FullBytes ==
  ASSUME NEW x, NEW c, NEW b \in Nat, NEW e \in Nat, Continues(x, c, b, e)
  PROVE  ~(Len(packed \o x) < NumBytes) =>
         /\ SubSeq(packed \o x, 1, NumBytes) = Stretch(c, Start(b), NumBytes)
         /\ SubSeq(packed \o x, 1, NumBytes) \in Seq(Place)
         /\ \E r \in Nat :
              /\ r < NumBytes /\ Start(b + 1) + r = e
              /\ SubSeq(packed \o x, NumBytes + 1, Len(packed \o x)) = Stretch(c, Start(b + 1), r)
              /\ SubSeq(packed \o x, NumBytes + 1, Len(packed \o x)) \in Seq(Place)
              /\ Len(SubSeq(packed \o x, NumBytes + 1, Len(packed \o x))) = r
  <1>a. SUFFICES ASSUME ~(Len(packed \o x) < NumBytes)
        PROVE  /\ SubSeq(packed \o x, 1, NumBytes) = Stretch(c, Start(b), NumBytes)
         /\ SubSeq(packed \o x, 1, NumBytes) \in Seq(Place)
         /\ \E r \in Nat :
              /\ r < NumBytes /\ Start(b + 1) + r = e
              /\ SubSeq(packed \o x, NumBytes + 1, Len(packed \o x)) = Stretch(c, Start(b + 1), r)
              /\ SubSeq(packed \o x, NumBytes + 1, Len(packed \o x)) \in Seq(Place)
              /\ Len(SubSeq(packed \o x, NumBytes + 1, Len(packed \o x))) = r
    OBVIOUS
  <1>1. PICK s \in Nat : s = Start(b)
    BY Starting
  <1>2. PICK nb \in Nat : nb = NumBytes
    BY Width4
  <1>3. PICK all : all = packed \o x
    OBVIOUS
  <1>4. /\ all \in Seq(Place) /\ all = Stretch(c, s, Len(all)) /\ Len(all) < nb + nb /\ e = s + Len(all)
        /\ ~(Len(all) < nb)
    <2>1. /\ packed \o x \in Seq(Place) /\ packed \o x = Stretch(c, Start(b), Len(packed \o x))
          /\ Len(packed \o x) < NumBytes + NumBytes /\ e = Start(b) + Len(packed \o x)
      BY AllBytes
    <2>2. QED
      BY <1>1, <1>2, <1>3, <1>a, <2>1, Zenon
  <1>5. PICK n \in Nat : n = Len(all)
    BY <1>4
  <1>6. n - nb \in Nat /\ n - nb < nb /\ n = nb + (n - nb) /\ (s + nb) + (n - nb) = e
    <2>1. n < nb + nb /\ ~(n < nb) /\ e = s + n
      BY <1>4, <1>5
    <2>2. QED
      BY <2>1
  <1>7. PICK r \in Nat : r = n - nb /\ r < nb /\ n = nb + r /\ (s + nb) + r = e
    BY <1>6
  <1>8. /\ SubSeq(all, 1, nb) = Stretch(c, s, nb) /\ SubSeq(all, 1, nb) \in Seq(Place)
        /\ SubSeq(all, nb + 1, Len(all)) = Stretch(c, s + nb, r) /\ SubSeq(all, nb + 1, Len(all)) \in Seq(Place)
        /\ Len(SubSeq(all, nb + 1, Len(all))) = r
    <2>1. all \in Seq(Place) /\ all = Stretch(c, s, Len(all)) /\ nb <= Len(all) /\ r = Len(all) - nb
      <3>1. nb <= n
        BY <1>7
      <3>2. QED
        BY <1>4, <1>5, <1>7, <3>1, Zenon
    <2>2. /\ SubSeq(all, 1, nb) = Stretch(c, s, nb) /\ SubSeq(all, 1, nb) \in Seq(Place)
          /\ SubSeq(all, nb + 1, Len(all)) = Stretch(c, s + nb, Len(all) - nb)
          /\ SubSeq(all, nb + 1, Len(all)) \in Seq(Place) /\ Len(SubSeq(all, nb + 1, Len(all))) = Len(all) - nb
      BY <2>1, StretchCut
    <2>3. QED
      BY <2>1, <2>2, Zenon
  <1>9. s + nb = Start(b + 1)
    BY <1>1, <1>2, Starting
  <1>10. /\ SubSeq(packed \o x, 1, NumBytes) = Stretch(c, Start(b), NumBytes)
         /\ SubSeq(packed \o x, 1, NumBytes) \in Seq(Place)
    BY <1>1, <1>2, <1>3, <1>8, Zenon
  <1>11. /\ r < NumBytes /\ Start(b + 1) + r = e
         /\ SubSeq(packed \o x, NumBytes + 1, Len(packed \o x)) = Stretch(c, Start(b + 1), r)
         /\ SubSeq(packed \o x, NumBytes + 1, Len(packed \o x)) \in Seq(Place)
         /\ Len(SubSeq(packed \o x, NumBytes + 1, Len(packed \o x))) = r
    BY <1>2, <1>3, <1>7, <1>8, <1>9, Zenon
  <1>12. QED
    BY <1>10, <1>11, Zenon

\* So it cuts a chunk into its databeats: bytes that do not end it,
LEMMA CutsOn ==
  ASSUME NEW x, NEW c, NEW t \in Nat, t = ChunkBytes(work, c), NEW b \in Nat, NEW e \in Nat, Continues(x, c, b, e), e < t
  PROVE  /\ Cuts(c, b, e, Norm!Packed(x, FALSE).beats, Norm!Packed(x, FALSE).rest, FALSE)
         /\ Norm!Packed(x, FALSE).rest \in Seq(Place)
  <1>1. PICK all : all = packed \o x
    OBVIOUS
  <1>2. PICK n \in Nat : n = Len(all)
    BY <1>1, AllBytes
  <1>3. all \in Seq(Place) /\ all = Stretch(c, Start(b), Len(all)) /\ e = Start(b) + Len(all)
    BY <1>1, AllBytes
  <1>4. CASE n < NumBytes
    <2>1. Norm!Packed(x, FALSE).beats = <<>> /\ Norm!Packed(x, FALSE).rest = all
      BY <1>1, <1>2, <1>4, PackedFew
    <2>2. Cuts(c, b, e, <<>>, all, FALSE)
      BY <1>2, <1>3, <1>4, Zenon DEF Cuts
    <2>3. QED
      BY <1>3, <2>1, <2>2, Zenon
  <1>5. CASE ~(n < NumBytes)
    <2>1. PICK full : full = SubSeq(all, 1, NumBytes)
      OBVIOUS
    <2>2. PICK rest : rest = SubSeq(all, NumBytes + 1, n)
      OBVIOUS
    <2>3. /\ full = Stretch(c, Start(b), NumBytes) /\ full \in Seq(Place)
          /\ \E r \in Nat : /\ r < NumBytes /\ Start(b + 1) + r = e /\ rest = Stretch(c, Start(b + 1), r)
                            /\ rest \in Seq(Place) /\ Len(rest) = r
      BY <1>1, <1>2, <1>5, <2>1, <2>2, FullBytes, Zenon
    <2>4. PICK r \in Nat : /\ r < NumBytes /\ Start(b + 1) + r = e /\ rest = Stretch(c, Start(b + 1), r)
                           /\ rest \in Seq(Place) /\ Len(rest) = r
      BY <2>3, Zenon
    <2>5. /\ Norm!Packed(x, FALSE).beats = << [bytes |-> full, last |-> FALSE] >>
          /\ Norm!Packed(x, FALSE).rest = rest
      <3>1. /\ ~(Len(packed \o x) < NumBytes) /\ full = SubSeq(packed \o x, 1, NumBytes)
            /\ rest = SubSeq(packed \o x, NumBytes + 1, Len(packed \o x))
        BY <1>1, <1>2, <1>5, <2>1, <2>2, Zenon
      <3>2. QED
        BY <3>1, PackedFull, Zenon
    <2>6. PartOf(c, b + 1) = [bytes |-> full, last |-> FALSE]
      <3>1. Start(b + 1) < t
        <4>1. PICK y \in Nat : y = Start(b + 1)
          BY Starting
        <4>2. y + r = e
          BY <2>4, <4>1, Zenon
        <4>3. y < t
          BY <4>2
        <4>4. QED
          BY <4>1, <4>3, Zenon
      <3>2. PartOf(c, b + 1) = [bytes |-> Stretch(c, Start(b), NumBytes), last |-> FALSE]
        BY <3>1, PartFull, Zenon
      <3>3. QED
        BY <2>3, <3>2, Zenon
    <2>7. PartOf(c, b + 1) \in FullBeat /\ PartOf(c, b + 1).last = FALSE
      BY <2>3, <2>6, FullIs
    <2>8. rest = Stretch(c, Start(b + 1), Len(rest)) /\ Len(rest) < NumBytes /\ Start(b + 1) + Len(rest) = e
      BY <2>4, Zenon
    <2>9. Cuts(c, b, e, <<PartOf(c, b + 1)>>, rest, FALSE)
      BY <2>7, <2>8, Zenon DEF Cuts
    <2>10. QED
      BY <2>4, <2>5, <2>6, <2>9, Zenon
  <1>6. QED
    BY <1>4, <1>5

\* and those that do.
LEMMA CutsOff ==
  ASSUME NEW x, NEW c, NEW t \in Nat, t = ChunkBytes(work, c), NEW b \in Nat, Continues(x, c, b, t)
  PROVE  /\ Cuts(c, b, t, Norm!Packed(x, TRUE).beats, Norm!Packed(x, TRUE).rest, TRUE)
         /\ Norm!Packed(x, TRUE).rest \in Seq(Place)
  <1>1. PICK all : all = packed \o x
    OBVIOUS
  <1>2. /\ all \in Seq(Place) /\ all = Stretch(c, Start(b), Len(all)) /\ t = Start(b) + Len(all)
        /\ Len(all) >= 1
    BY <1>1, AllBytes
  <1>3. PICK n \in Nat : n = Len(all) /\ n >= 1
    BY <1>2
  <1>4. PICK s \in Nat : s = Start(b)
    BY Starting
  <1>5. PICK nb \in Nat : nb = NumBytes
    BY Width4
  <1>6. PICK y \in Nat : y = Start(b + 1) /\ y = s + nb
    BY <1>4, <1>5, Starting
  <1>7. t = s + n
    BY <1>2, <1>3, <1>4, Zenon
  <1>8. <<>> \in Seq(Place)
    OBVIOUS
  <1>9. CASE n < NumBytes
    <2>1. SubSeq(all, 1, n) = all
      BY <1>1, <1>3, <1>9, FewBytes, Zenon
    <2>2. Norm!Packed(x, TRUE).beats = << [bytes |-> all, last |-> TRUE] >> /\ Norm!Packed(x, TRUE).rest = <<>>
      BY <1>1, <1>2, <1>3, <1>9, <2>1, PackedLast, Zenon
    <2>3. PartOf(c, b + 1) = [bytes |-> all, last |-> TRUE]
      <3>1. s < t /\ t <= y /\ t - s = n
        <4>1. n < nb
          BY <1>5, <1>9, Zenon
        <4>2. QED
          BY <1>3, <1>6, <1>7, <4>1
      <3>2. Start(b) < t /\ t <= Start(b + 1) /\ t - Start(b) = n
        BY <1>4, <1>6, <3>1, Zenon
      <3>3. PartOf(c, b + 1) = [bytes |-> Stretch(c, Start(b), t - Start(b)), last |-> TRUE]
        BY <3>2, PartLast, Zenon
      <3>4. QED
        BY <1>2, <1>3, <3>2, <3>3, Zenon
    <2>4. PartOf(c, b + 1) \in FullBeat /\ PartOf(c, b + 1).last = TRUE
      BY <1>2, <2>3, FullIs
    <2>5. Cuts(c, b, t, <<PartOf(c, b + 1)>>, <<>>, TRUE)
      BY <2>4, Zenon DEF Cuts
    <2>6. QED
      BY <1>8, <2>2, <2>3, <2>5, Zenon
  <1>10. CASE ~(n < NumBytes)
    <2>1. PICK full : full = SubSeq(all, 1, NumBytes)
      OBVIOUS
    <2>2. PICK rest : rest = SubSeq(all, NumBytes + 1, n)
      OBVIOUS
    <2>3. /\ full = Stretch(c, Start(b), NumBytes) /\ full \in Seq(Place)
          /\ \E r \in Nat : /\ r < NumBytes /\ Start(b + 1) + r = t /\ rest = Stretch(c, Start(b + 1), r)
                            /\ rest \in Seq(Place) /\ Len(rest) = r
      <3>1. /\ ~(Len(packed \o x) < NumBytes) /\ full = SubSeq(packed \o x, 1, NumBytes)
            /\ rest = SubSeq(packed \o x, NumBytes + 1, Len(packed \o x))
        BY <1>1, <1>3, <1>10, <2>1, <2>2, Zenon
      <3>2. QED
        BY <3>1, FullBytes, Zenon
    <2>4. PICK r \in Nat : /\ r < NumBytes /\ Start(b + 1) + r = t /\ rest = Stretch(c, Start(b + 1), r)
                           /\ rest \in Seq(Place) /\ Len(rest) = r
      BY <2>3, Zenon
    <2>5. r < nb /\ y + r = t
      BY <1>5, <1>6, <2>4, Zenon
    <2>6. nb >= 1
      BY <1>5, Width4
    <2>7. CASE r = 0
      <3>1. rest = <<>>
        BY <2>4, <2>7
      <3>2. /\ Norm!Packed(x, TRUE).beats = << [bytes |-> full, last |-> TRUE] >>
            /\ Norm!Packed(x, TRUE).rest = <<>>
        <4>1. /\ ~(Len(packed \o x) < NumBytes) /\ full = SubSeq(packed \o x, 1, NumBytes)
              /\ rest = SubSeq(packed \o x, NumBytes + 1, Len(packed \o x))
          BY <1>1, <1>3, <1>10, <2>1, <2>2, Zenon
        <4>2. QED
          BY <3>1, <4>1, PackedFull, Zenon
      <3>3. PartOf(c, b + 1) = [bytes |-> full, last |-> TRUE]
        <4>1. s < t /\ t <= y /\ t - s = nb
          BY <1>6, <2>5, <2>6, <2>7
        <4>2. Start(b) < t /\ t <= Start(b + 1) /\ t - Start(b) = NumBytes
          BY <1>4, <1>5, <1>6, <4>1, Zenon
        <4>3. PartOf(c, b + 1) = [bytes |-> Stretch(c, Start(b), t - Start(b)), last |-> TRUE]
          BY <4>2, PartLast, Zenon
        <4>4. QED
          BY <2>3, <4>2, <4>3, Zenon
      <3>4. PartOf(c, b + 1) \in FullBeat /\ PartOf(c, b + 1).last = TRUE
        BY <2>3, <3>3, FullIs
      <3>5. Cuts(c, b, t, <<PartOf(c, b + 1)>>, <<>>, TRUE)
        BY <3>4, Zenon DEF Cuts
      <3>6. QED
        BY <1>8, <3>2, <3>3, <3>5, Zenon
    <2>8. CASE r # 0
      <3>1. rest # <<>>
        BY <2>4, <2>8
      <3>2. /\ Norm!Packed(x, TRUE).beats = << [bytes |-> full, last |-> FALSE], [bytes |-> rest, last |-> TRUE] >>
            /\ Norm!Packed(x, TRUE).rest = <<>>
        <4>1. /\ ~(Len(packed \o x) < NumBytes) /\ full = SubSeq(packed \o x, 1, NumBytes)
              /\ rest = SubSeq(packed \o x, NumBytes + 1, Len(packed \o x))
          BY <1>1, <1>3, <1>10, <2>1, <2>2, Zenon
        <4>2. QED
          BY <3>1, <4>1, PackedFull, Zenon
      <3>3. PartOf(c, b + 1) = [bytes |-> full, last |-> FALSE]
        <4>1. y < t
          BY <2>5, <2>8
        <4>2. Start(b + 1) < t
          BY <1>6, <4>1, Zenon
        <4>3. PartOf(c, b + 1) = [bytes |-> Stretch(c, Start(b), NumBytes), last |-> FALSE]
          BY <4>2, PartFull, Zenon
        <4>4. QED
          BY <2>3, <4>3, Zenon
      <3>4. PICK k \in Nat : k = b + 1
        OBVIOUS
      <3>5. k + 1 = b + 2
        BY <3>4
      <3>6. PartOf(c, b + 2) = [bytes |-> rest, last |-> TRUE]
        <4>1. PICK z \in Nat : z = Start(k + 1) /\ z = y + nb
          <5>1. Start(k + 1) \in Nat /\ Start(k + 1) = y + nb
            BY <1>5, <1>6, <3>4, Starting
          <5>2. QED
            BY <5>1
        <4>2. y < t /\ t <= z /\ t - y = r
          BY <2>5, <2>8, <4>1
        <4>3. Start(k) < t /\ t <= Start(k + 1) /\ t - Start(k) = r
          BY <1>6, <3>4, <4>1, <4>2, Zenon
        <4>4. PartOf(c, k + 1) = [bytes |-> Stretch(c, Start(k), t - Start(k)), last |-> TRUE]
          BY <4>3, PartLast, Zenon
        <4>5. QED
          BY <2>4, <3>4, <3>5, <4>3, <4>4, Zenon
      <3>7. PartOf(c, b + 1) \in FullBeat /\ PartOf(c, b + 1).last = FALSE
        BY <2>3, <3>3, FullIs
      <3>8. PartOf(c, b + 2) \in FullBeat /\ PartOf(c, b + 2).last = TRUE
        BY <2>4, <3>6, FullIs
      <3>9. Cuts(c, b, t, <<PartOf(c, b + 1), PartOf(c, b + 2)>>, <<>>, TRUE)
        BY <3>7, <3>8, Zenon DEF Cuts
      <3>10. QED
        BY <1>8, <3>2, <3>3, <3>6, <3>9, Zenon
    <2>9. QED
      BY <2>7, <2>8
  <1>11. QED
    BY <1>9, <1>10

-----------------------------------------------------------------------------
(* The databeats in the pipeline are those behind what is out.             *)

\* Behind `beats` databeats of a chunk that does not end with them.
Position == [chunk : Nat, beats : Nat]
NextPart(x) == PartOf(x.chunk, x.beats + 1)
After(x, last) ==
  IF last THEN [chunk |-> x.chunk + 1, beats |-> 0] ELSE [chunk |-> x.chunk, beats |-> x.beats + 1]

\* The databeats of q lead from x to y: a is where they pass.
Walk(q, a) ==
  /\ a \in Seq(Position) /\ Len(a) = Len(q) + 1
  /\ \A i \in 1..Len(q) : q[i] = NextPart(a[i]) /\ a[i + 1] = After(a[i], q[i].last)
Chain(q, x, y) == \E a : Walk(q, a) /\ a[1] = x /\ a[Len(a)] = y

\* A databeat leads to a position.
LEMMA Behind ==
  ASSUME NEW x \in Position, NEW last \in BOOLEAN
  PROVE  /\ After(x, last) \in Position
         /\ last => After(x, last).chunk = x.chunk + 1 /\ After(x, last).beats = 0
         /\ ~last => After(x, last).chunk = x.chunk /\ After(x, last).beats = x.beats + 1
BY DEF After, Position

\* No databeats lead nowhere,
LEMMA ChainEmpty ==
  ASSUME NEW x \in Position
  PROVE  Chain(<<>>, x, x)
  <1>1. <<x>> \in Seq(Position) /\ Len(<<x>>) = 1 /\ <<x>>[1] = x /\ Len(<<>>) = 0
    OBVIOUS
  <1>2. Walk(<<>>, <<x>>)
    BY <1>1 DEF Walk
  <1>3. QED
    BY <1>1, <1>2 DEF Chain

\* one more leads one on,
LEMMA ChainAppend ==
  ASSUME NEW q \in Seq(FullBeat), NEW x, NEW y \in Position, Chain(q, x, y), NEW z \in FullBeat, z = NextPart(y)
  PROVE  Chain(Append(q, z), x, After(y, z.last))
  <1>1. PICK a : Walk(q, a) /\ a[1] = x /\ a[Len(a)] = y
    BY DEF Chain
  <1>2. a \in Seq(Position) /\ Len(a) = Len(q) + 1
    BY <1>1 DEF Walk
  <1>3. PICK n \in Nat : n = Len(q) /\ Len(a) = n + 1
    BY <1>2
  <1>4. PICK e \in Position : e = After(y, z.last)
    <2>1. z.last \in BOOLEAN
      BY DEF FullBeat
    <2>2. QED
      BY <2>1, Behind
  <1>5. PICK b : b = Append(a, e)
    OBVIOUS
  <1>6. /\ b \in Seq(Position) /\ Len(b) = n + 2 /\ b[n + 2] = e
        /\ \A i \in 1..(n + 1) : b[i] = a[i]
    BY <1>2, <1>3, <1>5, AppendProperties
  <1>7. /\ Len(Append(q, z)) = n + 1 /\ Append(q, z)[n + 1] = z
        /\ \A i \in 1..n : Append(q, z)[i] = q[i]
    BY <1>3, AppendProperties
  <1>8. ASSUME NEW i \in 1..(n + 1)
        PROVE  Append(q, z)[i] = NextPart(b[i]) /\ b[i + 1] = After(b[i], Append(q, z)[i].last)
    <2>1. CASE i = n + 1
      <3>1. b[i] = y
        BY <1>1, <1>3, <1>6, <2>1
      <3>2. i + 1 = n + 2
        BY <2>1
      <3>3. Append(q, z)[i] = z /\ b[i + 1] = e
        BY <1>6, <1>7, <2>1, <3>2
      <3>4. QED
        BY <1>4, <3>1, <3>3, Zenon
    <2>2. CASE i # n + 1
      <3>1. i \in 1..n /\ i + 1 \in 1..(n + 1)
        BY <2>2
      <3>2. Append(q, z)[i] = q[i] /\ b[i] = a[i] /\ b[i + 1] = a[i + 1]
        BY <1>6, <1>7, <3>1
      <3>3. q[i] = NextPart(a[i]) /\ a[i + 1] = After(a[i], q[i].last)
        BY <1>1, <1>3, <3>1, Zenon DEF Walk
      <3>4. QED
        BY <3>2, <3>3, Zenon
    <2>3. QED
      BY <2>1, <2>2
  <1>9. Walk(Append(q, z), b)
    <2>1. Len(b) = Len(Append(q, z)) + 1
      BY <1>6, <1>7
    <2>2. \A i \in 1..Len(Append(q, z)) : Append(q, z)[i] = NextPart(b[i]) /\ b[i + 1] = After(b[i], Append(q, z)[i].last)
      BY <1>7, <1>8, Zenon
    <2>3. QED
      BY <1>6, <2>1, <2>2, Zenon DEF Walk
  <1>10. b[1] = x /\ b[Len(b)] = e
    BY <1>1, <1>6
  <1>11. QED
    BY <1>4, <1>9, <1>10, Zenon DEF Chain

\* and the first leads to where the others begin.
LEMMA ChainTail ==
  ASSUME NEW q \in Seq(FullBeat), NEW x, NEW y, Chain(q, x, y), q # <<>>
  PROVE  Head(q) = NextPart(x) /\ Chain(Tail(q), After(x, Head(q).last), y)
  <1>1. PICK a : Walk(q, a) /\ a[1] = x /\ a[Len(a)] = y
    BY DEF Chain
  <1>2. a \in Seq(Position) /\ Len(a) = Len(q) + 1
    BY <1>1 DEF Walk
  <1>3. PICK n \in Nat : Len(q) = n + 1 /\ Len(a) = n + 2
    <2>1. Len(q) \in Nat /\ Len(q) >= 1 /\ Len(q) - 1 \in Nat
      OBVIOUS
    <2>2. Len(q) = (Len(q) - 1) + 1 /\ Len(a) = (Len(q) - 1) + 2
      BY <1>2, <2>1
    <2>3. QED
      BY <2>1, <2>2
  <1>4. /\ Len(Tail(q)) = n /\ Head(q) = q[1]
        /\ \A i \in 1..n : Tail(q)[i] = q[i + 1]
    BY <1>3, HeadTailProperties
  <1>5. PICK b : b = Tail(a)
    OBVIOUS
  <1>6. /\ b \in Seq(Position) /\ Len(b) = n + 1
        /\ \A i \in 1..(n + 1) : b[i] = a[i + 1]
    <2>1. a # <<>>
      BY <1>2, <1>3
    <2>2. QED
      BY <1>2, <1>3, <1>5, <2>1, HeadTailProperties
  <1>7. \A i \in 1..(n + 1) : q[i] = NextPart(a[i]) /\ a[i + 1] = After(a[i], q[i].last)
    BY <1>1, <1>3, Zenon DEF Walk
  <1>8. ASSUME NEW i \in 1..n
        PROVE  Tail(q)[i] = NextPart(b[i]) /\ b[i + 1] = After(b[i], Tail(q)[i].last)
    <2>1. PICK h \in 1..(n + 1) : h = i + 1 /\ i \in 1..(n + 1)
      OBVIOUS
    <2>2. Tail(q)[i] = q[h] /\ b[i] = a[h] /\ b[h] = a[h + 1]
      BY <1>4, <1>6, <2>1
    <2>3. q[h] = NextPart(a[h]) /\ a[h + 1] = After(a[h], q[h].last)
      BY <1>7
    <2>4. QED
      BY <2>1, <2>2, <2>3, Zenon
  <1>9. Walk(Tail(q), b)
    <2>1. Len(b) = Len(Tail(q)) + 1
      BY <1>4, <1>6
    <2>2. QED
      BY <1>4, <1>6, <1>8, <2>1, Zenon DEF Walk
  <1>10. Head(q) = NextPart(x) /\ b[1] = After(x, Head(q).last)
    <2>1. 1 \in 1..(n + 1) /\ 1 + 1 = 2
      OBVIOUS
    <2>2. q[1] = NextPart(a[1]) /\ a[1 + 1] = After(a[1], q[1].last) /\ b[1] = a[1 + 1]
      BY <1>6, <1>7, <2>1
    <2>3. QED
      BY <1>1, <1>4, <2>2, Zenon
  <1>11. b[Len(b)] = y
    <2>1. b[n + 1] = a[n + 2]
      BY <1>6
    <2>2. QED
      BY <1>1, <1>3, <1>6, <2>1
  <1>12. QED
    BY <1>9, <1>10, <1>11, Zenon DEF Chain

\* Where the databeats that are out lead to.
OutPlace(o) == [chunk |-> Lasts(o) + 1, beats |-> Cardinality(Begun(o))]

\* Those of a chunk that has not ended are counted.
LEMMA BegunCount ==
  ASSUME NEW S, NEW q \in Seq(S)
  PROVE  IsFiniteSet(Begun(q)) /\ Cardinality(Begun(q)) \in Nat /\ Begun(q) \subseteq 1..Len(q) /\ Len(q) \in Nat
  <1>1. Len(q) \in Nat /\ Begun(q) \subseteq 1..Len(q)
    BY DEF Begun
  <1>2. IsFiniteSet(1..Len(q))
    <2>1. PICK n \in Nat : n = Len(q)
      BY <1>1
    <2>2. IsFiniteSet(1..n)
      BY FS_Interval
    <2>3. QED
      BY <2>1, <2>2
  <1>3. IsFiniteSet(Begun(q))
    BY <1>1, <1>2, FS_Subset
  <1>4. QED
    BY <1>1, <1>3, FS_CardinalityType

\* They are none behind one that is last, and one more behind another.
LEMMA BegunAppend ==
  ASSUME NEW S, NEW q \in Seq(S), NEW x \in S, x.last \in BOOLEAN
  PROVE  Cardinality(Begun(Append(q, x))) = IF x.last THEN 0 ELSE Cardinality(Begun(q)) + 1
  <1>1. IsFiniteSet(Begun(q)) /\ Begun(q) \subseteq 1..Len(q)
    BY BegunCount
  <1>2. PICK n \in Nat : n = Len(q)
    OBVIOUS
  <1>3. PICK r : r = Append(q, x)
    OBVIOUS
  <1>4. Len(r) = n + 1 /\ DOMAIN r = 1..(n + 1) /\ r[n + 1] = x /\ DOMAIN q = 1..n /\ (\A i \in 1..n : r[i] = q[i])
    BY <1>2, <1>3
  <1>5. CASE x.last
    <2>1. Begun(r) = {}
      <3>1. ASSUME NEW i \in Begun(r) PROVE FALSE
        <4>1. i \in 1..(n + 1) /\ \A j \in i..(n + 1) : ~r[j].last
          BY <1>4 DEF Begun
        <4>2. n + 1 \in i..(n + 1)
          BY <4>1
        <4>3. ~r[n + 1].last
          BY <4>1, <4>2
        <4>4. QED
          BY <1>4, <1>5, <4>3
      <3>2. QED
        BY <3>1
    <2>2. QED
      BY <1>3, <1>5, <2>1, FS_EmptySet
  <1>6. CASE ~x.last
    <2>1. Begun(r) = Begun(q) \cup {n + 1}
      <3>1. ASSUME NEW i \in 1..n PROVE i \in Begun(r) <=> i \in Begun(q)
        <4>1. i \in Begun(r) <=> \A j \in i..(n + 1) : ~r[j].last
          <5>1. i \in DOMAIN r
            BY <1>4
          <5>2. QED
            BY <1>4, <5>1, Zenon DEF Begun
        <4>2. i \in Begun(q) <=> \A j \in i..n : ~q[j].last
          BY <1>2, <1>4, Zenon DEF Begun
        <4>3. ASSUME \A j \in i..(n + 1) : ~r[j].last PROVE \A j \in i..n : ~q[j].last
          <5>1. ASSUME NEW j \in i..n PROVE ~q[j].last
            <6>1. j \in i..(n + 1) /\ j \in 1..n
              OBVIOUS
            <6>2. ~r[j].last /\ r[j] = q[j]
              BY <1>4, <4>3, <6>1, Zenon
            <6>3. QED
              BY <6>2, Zenon
          <5>2. QED
            BY <5>1
        <4>4. ASSUME \A j \in i..n : ~q[j].last PROVE \A j \in i..(n + 1) : ~r[j].last
          <5>1. ASSUME NEW j \in i..(n + 1) PROVE ~r[j].last
            <6>1. CASE j = n + 1
              BY <1>4, <1>6, <6>1
            <6>2. CASE j # n + 1
              <7>1. j \in i..n /\ j \in 1..n
                BY <6>2
              <7>2. ~q[j].last /\ r[j] = q[j]
                BY <1>4, <4>4, <7>1, Zenon
              <7>3. QED
                BY <7>2, Zenon
            <6>3. QED
              BY <6>1, <6>2
          <5>2. QED
            BY <5>1
        <4>5. QED
          BY <4>1, <4>2, <4>3, <4>4, Zenon
      <3>2. n + 1 \in Begun(r)
        <4>1. n + 1 \in DOMAIN r
          BY <1>4
        <4>2. ASSUME NEW j \in (n + 1)..(n + 1) PROVE ~r[j].last
          <5>1. j = n + 1
            OBVIOUS
          <5>2. QED
            BY <1>4, <1>6, <5>1
        <4>3. QED
          BY <1>4, <4>1, <4>2, Zenon DEF Begun
      <3>3. Begun(r) \subseteq 1..(n + 1)
        BY <1>4 DEF Begun
      <3>4. QED
        BY <1>1, <1>2, <3>1, <3>2, <3>3
    <2>2. n + 1 \notin Begun(q)
      BY <1>1, <1>2
    <2>3. Cardinality(Begun(q) \cup {n + 1}) = Cardinality(Begun(q)) + 1
      BY <1>1, <2>2, FS_AddElement
    <2>4. QED
      BY <1>3, <1>6, <2>1, <2>3
  <1>7. QED
    BY <1>5, <1>6

\* What comes out leads on.
LEMMA OutAppend ==
  ASSUME NEW S, NEW o \in Seq(S), NEW x \in S, x.last \in BOOLEAN
  PROVE  OutPlace(o) \in Position /\ OutPlace(Append(o, x)) = After(OutPlace(o), x.last)
  <1>1. PICK n \in Nat, k \in Nat : n = Lasts(o) /\ k = Cardinality(Begun(o))
    <2>1. Lasts(o) \in Nat /\ Cardinality(Begun(o)) \in Nat
      BY LastsCount, BegunCount
    <2>2. QED
      BY <2>1
  <1>2. Lasts(Append(o, x)) = n + One(x.last) /\ Cardinality(Begun(Append(o, x))) = IF x.last THEN 0 ELSE k + 1
    BY <1>1, LastsAppend, BegunAppend
  <1>3. OutPlace(o) = [chunk |-> n + 1, beats |-> k]
    BY <1>1 DEF OutPlace
  <1>4. OutPlace(Append(o, x)) = [chunk |-> n + One(x.last) + 1, beats |-> IF x.last THEN 0 ELSE k + 1]
    BY <1>2 DEF OutPlace
  <1>5. CASE x.last
    <2>1. n + One(x.last) + 1 = n + 1 + 1
      BY <1>1, <1>5 DEF One
    <2>2. OutPlace(Append(o, x)) = [chunk |-> n + 1 + 1, beats |-> 0]
      BY <1>4, <1>5, <2>1
    <2>3. After(OutPlace(o), x.last) = [chunk |-> n + 1 + 1, beats |-> 0]
      BY <1>3, <1>5 DEF After
    <2>4. n + 1 \in Nat /\ k \in Nat
      BY <1>1
    <2>5. OutPlace(o) \in Position
      BY <1>3, <2>4 DEF Position
    <2>6. QED
      BY <2>2, <2>3, <2>5, Zenon
  <1>6. CASE ~x.last
    <2>1. n + One(x.last) + 1 = n + 1
      BY <1>1, <1>6 DEF One
    <2>2. QED
      BY <1>1, <1>3, <1>4, <1>6, <2>1 DEF After, Position
  <1>7. QED
    BY <1>5, <1>6

\* The databeat that leaves the pipeline under its type is the next of the stream.
LEMMA NextIs ==
  ASSUME NEW o, NEW x, NEW typ, x = NextPart(OutPlace(o)), typ = TypeOf(work, Lasts(o) + 1),
         Lasts(o) + 1 \in 1..Len(work.sizes)
  PROVE  [typ |-> typ, bytes |-> x.bytes, last |-> x.last] \in NextBeats(work, o)
  <1>1. PICK c : c = Lasts(o) + 1
    OBVIOUS
  <1>2. PICK k : k = Cardinality(Begun(o)) + 1
    OBVIOUS
  <1>3. x = PartOf(c, k)
    BY <1>1, <1>2 DEF NextPart, OutPlace
  <1>4. x.bytes = BeatOf(work, c, k).bytes /\ x.last = BeatOf(work, c, k).last
    BY <1>3 DEF PartOf
  <1>5. [typ |-> typ, bytes |-> x.bytes, last |-> x.last] = BeatOf(work, c, k)
    <2>1. BeatOf(work, c, k) = [typ |-> TypeOf(work, c), bytes |-> BeatOf(work, c, k).bytes, last |-> BeatOf(work, c, k).last]
      BY DEF BeatOf
    <2>2. QED
      BY <1>1, <1>4, <2>1, Zenon
  <1>6. Lasts(o) = Cardinality(Ended(o))
    BY Zenon DEF Lasts, Marked, Ended
  <1>7. QED
    BY <1>1, <1>2, <1>5, <1>6, Zenon DEF NextBeats

\* b databeats of a chunk were made, `packed` is behind them, and what is not counted yet
\* comes behind that.
MadeUpTo(b) ==
  /\ Len(packed) < NumBytes /\ packed = Stretch(chunk, Start(b), Len(packed))
  /\ Start(b) + Len(packed) + remaining * Width[in_typ] = ChunkBytes(work, chunk)

\* The type that waits is that of the chunk.
LEMMA CountedType ==
  ASSUME WellFormed(work), NEW g \in Nat, Counting(g), remaining # 0
  PROVE  in_typ = TypeOf(work, chunk) /\ Width[in_typ] \in Nat /\ Width[in_typ] >= 1
  <1>1. PICK p \in Pages(work) : \E j \in 1..Plains(work, p) : Amid(g, p, j)
    BY DEF Counting
  <1>2. work.layout[p].chunk = chunk /\ in_typ = work.contents[p].typ
    BY <1>1 DEF Amid
  <1>3. TypeOf(work, work.layout[p].chunk) = work.contents[p].typ
    BY TypeOfPage
  <1>4. work.contents[p].typ \in DOMAIN Width
    BY PageFacts
  <1>5. Width[work.contents[p].typ] \in 1..NumBytes /\ NumBytes \in Nat
    BY <1>4, PathSizes
  <1>6. QED
    BY <1>2, <1>3, <1>5

\* Sums and differences of values in bytes.
LEMMA Bytes ==
  ASSUME NEW x \in Int, NEW y \in Int, NEW c \in Nat
  PROVE  x * c \in Int /\ (x + y) * c = x * c + y * c /\ (x - y) * c = x * c - y * c
OBVIOUS

\* Values that pass the gate are those that come behind what is packed.
LEMMA PassBytes ==
  ASSUME WellFormed(work), NEW g \in Nat, remaining # 0, Counting(g), <<Head(skid), g + 1>> \in NumberedPlains(work),
         packed \in Seq(Place), NEW b \in Nat, MadeUpTo(b), Norm!NextRemaining \in Nat
  PROVE  \E e \in Nat : /\ Continues(Head(skid).bytes, chunk, b, e)
                        /\ e + Norm!NextRemaining * Width[in_typ] = ChunkBytes(work, chunk)
  <1>1. PICK p \in Pages(work) : \E j \in 1..Plains(work, p) : Amid(g, p, j)
    BY DEF Counting
  <1>2. PICK j \in 1..Plains(work, p) : Amid(g, p, j)
    BY <1>1
  <1>3. PICK n \in Nat : n = PerBeat(work.contents[p].typ)
    BY PageFacts, PerBeatFits
  <1>4. /\ Head(skid) = PlainOf(work, p, j)
        /\ j # Plains(work, p) => Norm!NumValues = n
        /\ j = Plains(work, p) => Norm!NumValues = work.layout[p].values - (j - 1) * n
    BY <1>2, <1>3, GateCounts
  <1>5. /\ work.layout[p].chunk = chunk /\ in_typ = work.contents[p].typ
        /\ remaining = work.sizes[chunk] - (work.layout[p].upto - work.layout[p].values)
                         - (j - 1) * PerBeat(work.contents[p].typ)
    BY <1>2 DEF Amid
  <1>6. PICK c \in Nat : c = Width[in_typ] /\ c = Width[work.contents[p].typ] /\ c >= 1 /\ NumBytes = n * c
    <2>1. work.contents[p].typ \in DOMAIN Width
      BY PageFacts
    <2>2. NumBytes = n * Width[work.contents[p].typ]
      BY <1>3, <2>1, PerBeatFits
    <2>3. Width[in_typ] \in Nat /\ Width[in_typ] >= 1
      BY CountedType
    <2>4. QED
      BY <1>5, <2>2, <2>3
  <1>7. PICK s \in Nat, r \in Nat, i \in Nat, l \in Nat :
            s = work.sizes[chunk] /\ r = remaining /\ i = j - 1 /\ l = Start(b) + Len(packed)
    <2>1. work.sizes[chunk] \in Nat
      <3>1. work.layout[p].chunk \in 1..Len(work.sizes)
        BY DEF Pages, WellFormed
      <3>2. QED
        BY <1>5, <3>1 DEF WellFormed
    <2>2. remaining \in Nat /\ j - 1 \in Nat
      <3>1. Plains(work, p) \in Nat
        BY PageFacts
      <3>2. QED
        BY <3>1 DEF Counting
    <2>3. Start(b) + Len(packed) \in Nat
      <3>1. Start(b) \in Nat
        BY Starting
      <3>2. QED
        BY <3>1
    <2>4. QED
      BY <2>1, <2>2, <2>3
  <1>8. PICK v \in Nat, u \in Int : v = work.layout[p].values /\ u = work.layout[p].upto - work.layout[p].values
    <2>1. work.layout[p].values \in Nat /\ work.layout[p].upto \in Nat
      BY PageFacts
    <2>2. QED
      BY <2>1
  <1>9. PICK x \in Nat : x = i * n
    <2>1. i * n \in Nat
      BY <1>7
    <2>2. QED
      BY <2>1
  <1>10. i * NumBytes = x * c
    <2>1. i * (n * c) = (i * n) * c
      <3>1. i \in Nat /\ n \in Nat /\ c \in Nat
        BY <1>3, <1>6, <1>7
      <3>2. QED
        BY <3>1
    <2>2. QED
      BY <1>6, <1>9, <2>1, Zenon
  <1>11. r = s - u - x
    BY <1>3, <1>5, <1>7, <1>8, <1>9, Zenon
  \* Where the values begin.
  <1>12. l = ValuesFrom(work, p) + (j - 1) * NumBytes
    <2>1. l + r * c = s * c
      <3>1. ChunkBytes(work, chunk) = s * c
        <4>1. in_typ = TypeOf(work, chunk)
          BY CountedType
        <4>2. QED
          BY <1>6, <1>7, <4>1, Zenon DEF ChunkBytes
      <3>2. Start(b) + Len(packed) + remaining * Width[in_typ] = ChunkBytes(work, chunk)
        BY DEF MadeUpTo
      <3>3. QED
        BY <1>6, <1>7, <3>1, <3>2, Zenon
    <2>2. ValuesFrom(work, p) = u * c
      BY <1>6, <1>8, Zenon DEF ValuesFrom
    <2>3. s = r + u + x
      <3>1. s \in Nat /\ r \in Nat /\ u \in Int /\ x \in Nat
        BY <1>7, <1>8, <1>9
      <3>2. QED
        BY <1>11, <3>1
    <2>4. l = u * c + x * c
      <3>a. r \in Int /\ u \in Int /\ x \in Int /\ r + u \in Int /\ c \in Nat /\ l \in Nat
        <4>1. r \in Nat /\ u \in Int /\ x \in Nat /\ c \in Nat /\ l \in Nat
          BY <1>6, <1>7, <1>8, <1>9
        <4>2. QED
          BY <4>1
      <3>b. (r + u + x) * c = (r + u) * c + x * c /\ (r + u) * c = r * c + u * c
        BY <3>a, Bytes
      <3>1. (r + u + x) * c = r * c + u * c + x * c
        BY <3>b, Zenon
      <3>2. l \in Int /\ r * c \in Int /\ u * c \in Int /\ x * c \in Int
        BY <3>a, Bytes
      <3>3. l + r * c = r * c + u * c + x * c
        BY <2>1, <2>3, <3>1, Zenon
      <3>4. QED
        BY <3>2, <3>3
    <2>5. QED
      BY <1>7, <1>10, <2>2, <2>4, Zenon
  <1>13. PICK z \in Nat : z = Norm!NumValues /\ PlainSize(work, p, j) = z * c
    <2>1. CASE j # Plains(work, p)
      <3>1. PlainSize(work, p, j) = n * c /\ Norm!NumValues = n
        BY <1>4, <1>6, <2>1 DEF PlainSize
      <3>2. QED
        BY <3>1
    <2>2. CASE j = Plains(work, p)
      <3>1. PlainSize(work, p, j) = v * c - x * c
        BY <1>6, <1>7, <1>8, <1>10, <2>2, Zenon DEF PlainSize, ValueBytes
      <3>2. Norm!NumValues = v - x
        BY <1>4, <1>7, <1>8, <1>9, <2>2, Zenon
      <3>3. (v - x) * c = v * c - x * c
        <4>1. v \in Int /\ x \in Int /\ c \in Nat
          <5>1. v \in Nat /\ x \in Nat /\ c \in Nat
            BY <1>6, <1>8, <1>9
          <5>2. QED
            BY <5>1
        <4>2. QED
          BY <4>1, Bytes
      <3>4. v - x \in Nat
        <4>1. PlainSize(work, p, j) \in 1..NumBytes
          BY PlainSizes
        <4>2. v * c - x * c >= 1
          BY <3>1, <4>1, Width4
        <4>5. v \in Nat /\ x \in Nat /\ c \in Nat /\ c >= 1 /\ v \in Int /\ x \in Int
          <5>1. v \in Nat /\ x \in Nat /\ c \in Nat /\ c >= 1
            BY <1>6, <1>8, <1>9
          <5>2. QED
            BY <5>1
        <4>3. v * c \in Int /\ x * c \in Int /\ (x * c < v * c <=> x < v)
          BY <4>5, Bytes, ProductLess, Zenon
        <4>4. x < v
          <5>1. x * c < v * c
            <6>1. ASSUME NEW a \in Int, NEW d \in Int, a - d >= 1 PROVE d < a
              BY <6>1
            <6>2. QED
              BY <4>2, <4>3, <6>1
          <5>2. QED
            BY <4>3, <5>1, Zenon
        <4>6. QED
          BY <4>4, <4>5
      <3>5. QED
        BY <3>1, <3>2, <3>3, <3>4, Zenon
    <2>3. QED
      BY <2>1, <2>2
  <1>14. PICK e \in Nat : e = l + z * c
    <2>a. l \in Nat /\ z \in Nat /\ c \in Nat
      BY <1>6, <1>7, <1>13
    <2>1. l + z * c \in Nat
      BY <2>a
    <2>2. QED
      BY <2>1
  <1>15. e + Norm!NextRemaining * Width[in_typ] = ChunkBytes(work, chunk)
    <2>1. Norm!NextRemaining = r - z
      BY <1>7, <1>13, Zenon DEF Norm!NextRemaining
    <2>a. l \in Int /\ z \in Int /\ r \in Int /\ c \in Nat
      <3>1. l \in Nat /\ z \in Nat /\ r \in Nat /\ c \in Nat
        BY <1>6, <1>7, <1>13
      <3>2. QED
        BY <3>1
    <2>b. (r - z) * c = r * c - z * c /\ r * c \in Int /\ z * c \in Int
      BY <2>a, Bytes
    <2>2. l + z * c + (r - z) * c = l + r * c
      <3>1. l + z * c + (r * c - z * c) = l + r * c
        BY <2>a, <2>b
      <3>2. QED
        BY <2>b, <3>1, Zenon
    <2>3. l + r * c = ChunkBytes(work, chunk)
      BY <1>6, <1>7, Zenon DEF MadeUpTo
    <2>4. QED
      BY <1>6, <1>14, <2>1, <2>2, <2>3, Zenon
  <1>16. Continues(Head(skid).bytes, chunk, b, e)
    <2>1. PlainOf(work, p, j).bytes = Stretch(work.layout[p].chunk, l, PlainSize(work, p, j))
      BY <1>12, PlainStretch
    <2>2. /\ PlainSize(work, p, j) \in 1..NumBytes
          /\ PlainOf(work, p, j) \in PlainBeat /\ Len(PlainOf(work, p, j).bytes) = PlainSize(work, p, j)
      BY PlainSizes
    <2>3. PlainOf(work, p, j).bytes \in Seq(Place)
      BY <2>2 DEF PlainBeat
    <2>4. PICK q \in Seq(Place) : q = Head(skid).bytes /\ q = PlainOf(work, p, j).bytes
      BY <1>4, <2>3
    <2>5. /\ Len(q) \in 1..NumBytes /\ Len(q) = z * c
          /\ q = Stretch(chunk, Start(b) + Len(packed), Len(q))
      BY <1>5, <1>7, <1>13, <2>1, <2>2, <2>4, Zenon
    <2>6. e = Start(b) + Len(packed) + Len(q)
      BY <1>7, <1>14, <2>5, Zenon
    <2>7. Len(packed) < NumBytes /\ packed = Stretch(chunk, Start(b), Len(packed))
      BY DEF MadeUpTo
    <2>8. QED
      BY <2>4, <2>5, <2>6, <2>7, Zenon DEF Continues
  <1>17. QED
    BY <1>15, <1>16

-----------------------------------------------------------------------------
(* The stream that comes out.                                              *)

\* From x the databeats of p lead on from y, and `rest` is behind them.
GoesOn(p, x, y, e, rest, last) ==
  \E z \in Position :
    /\ Chain(p, x, z)
    /\ last => z.chunk = y.chunk + 1 /\ z.beats = 0 /\ rest = <<>>
    /\ ~last => /\ z.chunk = y.chunk /\ Len(rest) < NumBytes
                /\ rest = Stretch(y.chunk, Start(z.beats), Len(rest)) /\ Start(z.beats) + Len(rest) = e

\* What the DataNormalizer makes comes behind what is in the pipeline.
LEMMA CutsChain ==
  ASSUME NEW q \in Seq(FullBeat), NEW x, NEW y \in Position, Chain(q, x, y), NEW e, NEW beats, NEW rest,
         NEW last \in BOOLEAN, Cuts(y.chunk, y.beats, e, beats, rest, last)
  PROVE  GoesOn(q \o beats, x, y, e, rest, last)
  <1>1. PICK c \in Nat, b \in Nat : c = y.chunk /\ b = y.beats
    BY DEF Position
  <1>2. Cuts(c, b, e, beats, rest, last)
    BY <1>1
  <1>3. CASE ~last /\ beats = <<>>
    <2>1. rest = Stretch(c, Start(b), Len(rest)) /\ Len(rest) < NumBytes /\ Start(b) + Len(rest) = e
      BY <1>2, <1>3 DEF Cuts
    <2>2. q \o beats = q
      BY <1>3
    <2>3. QED
      BY <1>1, <1>3, <2>1, <2>2 DEF GoesOn
  <1>4. CASE ~last /\ beats # <<>>
    <2>1. PICK u \in FullBeat : u = PartOf(c, b + 1) /\ beats = <<u>> /\ ~u.last /\ u.last \in BOOLEAN
      BY <1>2, <1>4 DEF Cuts, FullBeat
    <2>2. /\ rest = Stretch(c, Start(b + 1), Len(rest)) /\ Len(rest) < NumBytes /\ Start(b + 1) + Len(rest) = e
      BY <1>2, <1>4 DEF Cuts
    <2>3. q \o beats = Append(q, u)
      BY <2>1, AppendIsConcat
    <2>4. u = NextPart(y)
      BY <1>1, <2>1 DEF NextPart
    <2>5. Chain(Append(q, u), x, After(y, u.last))
      BY <2>4, ChainAppend
    <2>6. PICK z \in Position : z = After(y, u.last) /\ z.chunk = c /\ z.beats = b + 1
      BY <1>1, <2>1, Behind
    <2>7. Chain(q \o beats, x, z)
      BY <2>3, <2>5, <2>6, Zenon
    <2>8. rest = Stretch(y.chunk, Start(z.beats), Len(rest)) /\ Start(z.beats) + Len(rest) = e
      BY <1>1, <2>2, <2>6, Zenon
    <2>9. QED
      BY <1>1, <1>4, <2>2, <2>6, <2>7, <2>8 DEF GoesOn
  <1>5. CASE last /\ beats = <<PartOf(c, b + 1)>> /\ PartOf(c, b + 1) \in FullBeat /\ PartOf(c, b + 1).last /\ rest = <<>>
    <2>1. PICK u \in FullBeat : u = PartOf(c, b + 1) /\ beats = <<u>> /\ u.last /\ u.last \in BOOLEAN
      BY <1>5 DEF FullBeat
    <2>3. q \o beats = Append(q, u)
      BY <2>1, AppendIsConcat
    <2>4. u = NextPart(y)
      BY <1>1, <2>1 DEF NextPart
    <2>5. Chain(Append(q, u), x, After(y, u.last))
      BY <2>4, ChainAppend
    <2>6. PICK z \in Position : z = After(y, u.last) /\ z.chunk = c + 1 /\ z.beats = 0
      BY <1>1, <2>1, Behind
    <2>7. Chain(q \o beats, x, z)
      BY <2>3, <2>5, <2>6, Zenon
    <2>8. QED
      BY <1>1, <1>5, <2>6, <2>7 DEF GoesOn
  <1>6. CASE /\ last /\ beats = <<PartOf(c, b + 1), PartOf(c, b + 2)>>
             /\ PartOf(c, b + 1) \in FullBeat /\ ~PartOf(c, b + 1).last
             /\ PartOf(c, b + 2) \in FullBeat /\ PartOf(c, b + 2).last /\ rest = <<>>
    <2>1. PICK u \in FullBeat, v \in FullBeat :
            /\ u = PartOf(c, b + 1) /\ v = PartOf(c, b + 2) /\ beats = <<u, v>>
            /\ ~u.last /\ u.last \in BOOLEAN /\ v.last /\ v.last \in BOOLEAN
      BY <1>6 DEF FullBeat
    <2>3. q \o beats = Append(Append(q, u), v)
      BY <2>1, AppendTwo
    <2>4. u = NextPart(y)
      BY <1>1, <2>1 DEF NextPart
    <2>5. Chain(Append(q, u), x, After(y, u.last))
      BY <2>4, ChainAppend
    <2>6. PICK z \in Position : z = After(y, u.last) /\ z.chunk = c /\ z.beats = b + 1
      BY <1>1, <2>1, Behind
    <2>7. PICK r \in Seq(FullBeat) : r = Append(q, u) /\ Chain(r, x, z)
      BY <2>5, <2>6, AppendProperties
    <2>8. v = NextPart(z)
      <3>1. b + 1 + 1 = b + 2
        BY <1>1
      <3>2. QED
        BY <2>1, <2>6, <3>1, Zenon DEF NextPart
    <2>9. Chain(Append(r, v), x, After(z, v.last))
      BY <2>7, <2>8, ChainAppend
    <2>10. PICK f \in Position : f = After(z, v.last) /\ f.chunk = c + 1 /\ f.beats = 0
      <3>1. After(z, v.last) \in Position /\ After(z, v.last).chunk = z.chunk + 1 /\ After(z, v.last).beats = 0
        BY <2>1, Behind
      <3>2. QED
        BY <2>6, <3>1
    <2>11. Chain(q \o beats, x, f)
      BY <2>3, <2>7, <2>9, <2>10, Zenon
    <2>12. QED
      BY <1>1, <1>6, <2>10, <2>11 DEF GoesOn
  <1>7. QED
    BY <1>2, <1>3, <1>4, <1>5, <1>6 DEF Cuts

\* What passes the gate is cut into the databeats of the chunk.
LEMMA PassCuts ==
  ASSUME WellFormed(work), NEW g \in Nat, remaining # 0, Counting(g), <<Head(skid), g + 1>> \in NumberedPlains(work),
         packed \in Seq(Place), NEW b \in Nat, MadeUpTo(b), Norm!NextRemaining \in Nat,
         Norm!GateLast \in BOOLEAN, Norm!NextRemaining = 0 <=> Norm!GateLast
  PROVE  \E e \in Nat :
           /\ Cuts(chunk, b, e, Norm!Packed(Head(skid).bytes, Norm!GateLast).beats,
                   Norm!Packed(Head(skid).bytes, Norm!GateLast).rest, Norm!GateLast)
           /\ e + Norm!NextRemaining * Width[in_typ] = ChunkBytes(work, chunk)
  <1>1. PICK e \in Nat : /\ Continues(Head(skid).bytes, chunk, b, e)
                         /\ e + Norm!NextRemaining * Width[in_typ] = ChunkBytes(work, chunk)
    BY PassBytes
  <1>2. PICK c \in Nat, n \in Nat : c = Width[in_typ] /\ c >= 1 /\ n = Norm!NextRemaining
    BY CountedType
  <1>3. PICK f \in Nat : f = n * c /\ (n = 0 => f = 0) /\ (n # 0 => f >= 1)
    <2>1. n * c \in Nat /\ (n = 0 => n * c = 0)
      BY <1>2
    <2>2. n # 0 => n * c >= 1
      <3>1. SUFFICES ASSUME n >= 1 PROVE n * c >= 1
        BY <1>2
      <3>2. n \in Nat /\ c \in Nat /\ c >= 1
        BY <1>2
      <3>3. 1 * c <= n * c /\ 1 * c = c
        BY <3>1, <3>2, Product
      <3>4. QED
        BY <2>1, <3>2, <3>3
    <2>3. QED
      BY <2>1, <2>2
  <1>4. PICK t \in Nat : t = ChunkBytes(work, chunk) /\ t = e + f
    <2>1. e + f \in Nat
      BY <1>1, <1>3
    <2>2. e + f = ChunkBytes(work, chunk)
      BY <1>1, <1>2, <1>3, Zenon
    <2>3. QED
      BY <2>1, <2>2
  <1>5. CASE Norm!GateLast
    <2>1. t = e
      BY <1>2, <1>3, <1>4, <1>5
    <2>2. Continues(Head(skid).bytes, chunk, b, t)
      BY <1>1, <2>1, Zenon
    <2>3. Cuts(chunk, b, t, Norm!Packed(Head(skid).bytes, TRUE).beats, Norm!Packed(Head(skid).bytes, TRUE).rest, TRUE)
      BY <1>4, <2>2, CutsOff, Zenon
    <2>4. Norm!GateLast = TRUE
      BY <1>5
    <2>5. QED
      BY <1>1, <2>1, <2>3, <2>4, Zenon
  <1>6. CASE ~Norm!GateLast
    <2>1. e < t
      BY <1>2, <1>3, <1>4, <1>6
    <2>2. Cuts(chunk, b, e, Norm!Packed(Head(skid).bytes, FALSE).beats, Norm!Packed(Head(skid).bytes, FALSE).rest, FALSE)
      BY <1>1, <1>4, <2>1, CutsOn, Zenon
    <2>3. Norm!GateLast = FALSE
      BY <1>6
    <2>4. QED
      BY <1>1, <2>2, <2>3, Zenon
  <1>7. QED
    BY <1>5, <1>6

\* y is behind all that was made: `packed` goes on from there.
Making(y) ==
  IF remaining = 0 THEN y.chunk = chunk + 1 /\ y.beats = 0 /\ packed = <<>>
  ELSE y.chunk = chunk /\ MadeUpTo(y.beats)

\* A chunk is taken when all of the one before it was made,
LEMMA MakesFirst ==
  ASSUME WellFormed(work), NEW h, Counting(h)', UNCHANGED work, remaining = 0, remaining' # 0,
         chunk' = chunk + 1, remaining' = work.sizes[chunk'], packed' = packed, NEW y, Making(y)
  PROVE  Making(y)'
  <1>1. PICK p \in Pages(work) : \E j \in 1..Plains(work, p) : Amid(h, p, j)'
    BY DEF Counting
  <1>2. work.layout[p].chunk = chunk' /\ in_typ' = work.contents[p].typ
    BY <1>1 DEF Amid
  <1>3. TypeOf(work, work.layout[p].chunk) = work.contents[p].typ
    BY TypeOfPage
  <1>4. ChunkBytes(work, chunk') = remaining' * Width[in_typ']
    BY <1>2, <1>3, Zenon DEF ChunkBytes
  <1>5. remaining' * Width[in_typ'] \in Nat
    <2>1. Width[in_typ'] \in Nat
      BY <1>2, PageFacts
    <2>2. remaining' \in Nat
      BY DEF Counting
    <2>3. QED
      BY <2>1, <2>2
  <1>6. y.chunk = chunk' /\ y.beats = 0 /\ packed' = <<>>
    BY DEF Making
  <1>7. Len(<<>>) = 0 /\ Start(0) = 0
    <2>1. PICK nb \in Nat : nb = NumBytes
      BY Width4
    <2>2. 0 * nb = 0 /\ Len(<<>>) = 0
      OBVIOUS
    <2>3. QED
      BY <2>1, <2>2 DEF Start
  <1>8. Len(packed') < NumBytes
    BY <1>6, <1>7, Width4
  <1>9. packed' = Stretch(chunk, Start(y.beats), Len(packed))'
    <2>1. <<>> = [i \in 1..0 |-> ByteOf(work', chunk', Start(y.beats)' + i - 1)]
      OBVIOUS
    <2>2. Len(packed') = 0
      BY <1>6, <1>7
    <2>3. QED
      BY <1>6, <2>1, <2>2, Zenon DEF Stretch
  <1>10. Start(y.beats) + Len(packed') + remaining' * Width[in_typ'] = ChunkBytes(work', chunk')
    <2>1. PICK n \in Nat : n = remaining' * Width[in_typ']
      BY <1>5
    <2>2. 0 + 0 + n = n
      OBVIOUS
    <2>3. Start(y.beats) = 0 /\ Len(packed') = 0
      BY <1>6, <1>7, Zenon
    <2>4. QED
      BY <1>4, <2>1, <2>2, <2>3, Zenon
  <1>11. MadeUpTo(y.beats)'
    BY <1>8, <1>9, <1>10, Zenon DEF MadeUpTo, Start
  <1>12. QED
    BY <1>6, <1>11 DEF Making

\* its values are made into databeats
LEMMA MakesNext ==
  ASSUME WellFormed(work), NEW g \in Nat, remaining # 0, Counting(g), <<Head(skid), g + 1>> \in NumberedPlains(work),
         packed \in Seq(Place), UNCHANGED <<work, chunk>>, remaining' = Norm!NextRemaining, remaining' \in Nat,
         Norm!GateLast \in BOOLEAN, remaining' = 0 <=> Norm!GateLast, ~Norm!GateLast => UNCHANGED in_typ,
         packed' = Norm!Packed(Head(skid).bytes, Norm!GateLast).rest,
         NEW beats, beats = Norm!Packed(Head(skid).bytes, Norm!GateLast).beats,
         NEW q \in Seq(FullBeat), NEW x, NEW y \in Position, Chain(q, x, y), Making(y)
  PROVE  \E z \in Position : Chain(q \o beats, x, z) /\ Making(z)'
  <1>1. y.chunk = chunk /\ MadeUpTo(y.beats) /\ y.beats \in Nat
    BY DEF Making, Position
  <1>2. PICK last \in BOOLEAN : last = Norm!GateLast
    OBVIOUS
  <1>a. PICK rest : rest = packed'
    OBVIOUS
  <1>3. PICK e \in Nat : /\ Cuts(y.chunk, y.beats, e, beats, rest, last)
                         /\ e + remaining' * Width[in_typ] = ChunkBytes(work, chunk)
    <2>1. Norm!NextRemaining \in Nat /\ (Norm!NextRemaining = 0 <=> Norm!GateLast)
      OBVIOUS
    <2>2. \E e \in Nat :
            /\ Cuts(chunk, y.beats, e, Norm!Packed(Head(skid).bytes, Norm!GateLast).beats,
                    Norm!Packed(Head(skid).bytes, Norm!GateLast).rest, Norm!GateLast)
            /\ e + Norm!NextRemaining * Width[in_typ] = ChunkBytes(work, chunk)
      BY <1>1, <2>1, PassCuts
    <2>3. QED
      BY <1>1, <1>2, <1>a, <2>2, Zenon
  <1>4. PICK z \in Position :
           /\ Chain(q \o beats, x, z)
           /\ last => z.chunk = y.chunk + 1 /\ z.beats = 0 /\ packed' = <<>>
           /\ ~last => /\ z.chunk = y.chunk /\ Len(packed') < NumBytes
                       /\ packed' = Stretch(y.chunk, Start(z.beats), Len(packed')) /\ Start(z.beats) + Len(packed') = e
    <2>1. Cuts(y.chunk, y.beats, e, beats, rest, last)
      BY <1>3
    <2>2. GoesOn(q \o beats, x, y, e, rest, last)
      BY <2>1, CutsChain, Zenon
    <2>3. QED
      BY <1>a, <2>2 DEF GoesOn
  <1>5. CASE last
    <2>1. remaining' = 0 /\ chunk' = chunk
      BY <1>2, <1>5
    <2>2. Making(z)'
      BY <1>1, <1>4, <1>5, <2>1 DEF Making
    <2>3. QED
      BY <1>4, <2>2
  <1>6. CASE ~last
    <2>1. remaining' # 0 /\ chunk' = chunk /\ in_typ' = in_typ /\ work' = work
      BY <1>2, <1>6
    <2>2. packed' = Stretch(chunk, Start(z.beats), Len(packed))'
      BY <1>1, <1>4, <1>6, <2>1, Zenon DEF Stretch
    <2>3. Start(z.beats) + Len(packed') + remaining' * Width[in_typ'] = ChunkBytes(work', chunk')
      BY <1>3, <1>4, <1>6, <2>1, Zenon
    <2>4. Len(packed') < NumBytes /\ z.chunk = chunk'
      BY <1>1, <1>4, <1>6, <2>1
    <2>5. MadeUpTo(z.beats)'
      BY <2>2, <2>3, <2>4, Zenon DEF MadeUpTo, Start
    <2>6. Making(z)'
      BY <2>1, <2>4, <2>5, Zenon DEF Making
    <2>7. QED
      BY <1>4, <2>6
  <1>7. QED
    BY <1>5, <1>6

\* and stay when none passes.
LEMMA MakesNone ==
  ASSUME UNCHANGED <<work, chunk, remaining, packed>>, remaining # 0 => UNCHANGED in_typ, NEW y, Making(y)
  PROVE  Making(y)'
BY DEF Making, MadeUpTo, Stretch, Start

\* The types in the FIFO are those of the chunks that come out next, and the type before it
\* is that of the chunk that was taken last.
NumberedTypes(w) == {x \in AnyType \X Nat : x[1] = TypeOf(w, x[2])}
TypesOwn ==
  /\ Row(NumberedTypes(work), fifo, Lasts(out))
  /\ fifo_typ # Norm!NoType => fifo_typ = TypeOf(work, chunk)

\* The databeats in the pipeline are those behind what is out, and what is packed is behind them.
Streaming == TypesOwn /\ \E y \in Position : Chain(pipe, OutPlace(out), y) /\ Making(y)

\* A type leaves the FIFO with the last databeat of its chunk, and one gets there behind the others.
LEMMA TypesMove ==
  ASSUME UNCHANGED work, Types, TypesOwn, chunk \in Nat,
         NEW pops \in BOOLEAN, NEW queue \in BOOLEAN, NEW configures \in BOOLEAN,
         pops => fifo # <<>>, queue => fifo_typ # Norm!NoType,
         fifo' = IF queue THEN Append(IF pops THEN Tail(fifo) ELSE fifo, fifo_typ) ELSE IF pops THEN Tail(fifo) ELSE fifo,
         Lasts(out') = Lasts(out) + One(pops), chunk' = IF configures THEN chunk + 1 ELSE chunk,
         fifo_typ' # Norm!NoType => fifo_typ' = IF configures THEN TypeOf(work, chunk') ELSE fifo_typ
  PROVE  TypesOwn'
  <1>1. fifo \in Seq(AnyType) /\ fifo_typ \in AnyType /\ out \in Seq(OutBeat) /\ pipe \in Seq(FullBeat)
    BY DEF Types
  <1>2. PICK t \in Nat, f \in Nat, l \in Nat : t = Lasts(out) /\ f = Len(fifo) /\ l = Lasts(pipe)
    <2>1. Lasts(out) \in Nat /\ Len(fifo) \in Nat /\ Lasts(pipe) \in Nat
      BY <1>1, LastsCount
    <2>2. QED
      BY <2>1
  <1>3. Row(NumberedTypes(work), fifo, t)
    BY <1>2, Zenon DEF TypesOwn
  <1>4. PICK r \in Seq(AnyType), s \in Nat :
          /\ r = (IF pops THEN Tail(fifo) ELSE fifo) /\ s = Lasts(out') /\ Row(NumberedTypes(work), r, s) /\ s + Len(r) = t + f
    <2>1. CASE pops
      <3>1. /\ Row(NumberedTypes(work), Tail(fifo), t + 1) /\ Tail(fifo) \in Seq(AnyType)
            /\ Len(fifo) \in Nat \ {0} /\ Len(Tail(fifo)) = Len(fifo) - 1
        BY <1>1, <1>3, <2>1, RowTail
      <3>2. Lasts(out') = t + 1
        BY <1>2, <2>1 DEF One
      <3>3. t + 1 \in Nat /\ t + 1 + Len(Tail(fifo)) = t + f
        BY <1>2, <3>1
      <3>4. QED
        BY <2>1, <3>1, <3>2, <3>3
    <2>2. CASE ~pops
      <3>1. Lasts(out') = t
        BY <1>2, <2>2 DEF One
      <3>2. QED
        BY <1>1, <1>2, <1>3, <2>2, <3>1
    <2>3. QED
      BY <2>1, <2>2
  <1>5. Row(NumberedTypes(work), fifo', s)
    <2>1. CASE queue
      <3>1. fifo_typ # Norm!NoType /\ fifo_typ = TypeOf(work, chunk)
        BY <2>1 DEF TypesOwn
      <3>2. t + f + 1 = chunk
        <4>1. One(fifo_typ # Norm!NoType) = 1
          BY <3>1 DEF One
        <4>2. PICK o \in Nat : o = One(remaining # 0)
          BY DEF One
        <4>3. t + l + o = chunk /\ f + 1 = l + o
          BY <1>2, <4>1, <4>2, Zenon DEF Types
        <4>4. PICK c \in Nat : c = chunk
          OBVIOUS
        <4>5. t \in Nat /\ l \in Nat /\ f \in Nat /\ o \in Nat /\ c \in Nat
          BY <1>2, <4>2, <4>4
        <4>6. t + l + o = c
          BY <4>3, <4>4, Zenon
        <4>7. t + f + 1 = c
          <5>1. t + f + 1 = t + (f + 1)
            BY <4>5
          <5>2. t + (l + o) = t + l + o
            BY <4>5
          <5>3. QED
            BY <4>3, <4>6, <5>1, <5>2, Zenon
        <4>8. QED
          BY <4>4, <4>7, Zenon
      <3>3. chunk = s + Len(r) + 1
        BY <1>4, <3>2
      <3>4. <<fifo_typ, chunk>> \in NumberedTypes(work)
        BY <1>1, <3>1 DEF NumberedTypes
      <3>5. Row(NumberedTypes(work), Append(r, fifo_typ), s)
        BY <1>1, <1>4, <3>3, <3>4, RowAppend
      <3>6. QED
        BY <1>4, <2>1, <3>5
    <2>2. CASE ~queue
      BY <1>4, <2>2
    <2>3. QED
      BY <2>1, <2>2
  <1>6. Row(NumberedTypes(work), fifo, Lasts(out))'
    BY <1>4, <1>5, Zenon
  <1>7. (fifo_typ # Norm!NoType => fifo_typ = TypeOf(work, chunk))'
    <2>1. SUFFICES ASSUME fifo_typ' # Norm!NoType PROVE fifo_typ' = TypeOf(work, chunk')
      OBVIOUS
    <2>2. CASE configures
      BY <2>1, <2>2
    <2>3. CASE ~configures
      <3>1. fifo_typ' = fifo_typ /\ chunk' = chunk
        BY <2>1, <2>3
      <3>2. QED
        BY <2>1, <3>1 DEF TypesOwn
    <2>4. QED
      BY <2>2, <2>3
  <1>8. QED
    BY <1>6, <1>7 DEF TypesOwn

\* What comes out is the next of the stream, and what is in the pipeline goes on behind it.
LEMMA GivesNext ==
  ASSUME WellFormed(work), Types, TypesOwn, chunk \in 0..Len(work.sizes), pipe # <<>>, fifo # <<>>,
         NEW y \in Position, Chain(pipe, OutPlace(out), y),
         NEW u, u = [typ |-> Head(fifo), bytes |-> Head(pipe).bytes, last |-> Head(pipe).last]
  PROVE  /\ u \in NextBeats(work, out)
         /\ Tail(pipe) \in Seq(FullBeat) /\ Chain(Tail(pipe), OutPlace(Append(out, u)), y)
         /\ Lasts(Append(out, u)) = Lasts(out) + One(Head(pipe).last)
  <1>1. fifo \in Seq(AnyType) /\ out \in Seq(OutBeat) /\ pipe \in Seq(FullBeat)
    BY DEF Types
  <1>2. Head(pipe) \in FullBeat /\ Tail(pipe) \in Seq(FullBeat)
    BY <1>1, HeadTailProperties
  <1>3. Head(pipe) = NextPart(OutPlace(out)) /\ Chain(Tail(pipe), After(OutPlace(out), Head(pipe).last), y)
    BY <1>1, ChainTail
  <1>4. PICK t \in Nat, f \in Nat, l \in Nat, o \in Nat, w \in Nat, c \in Nat, n \in Nat :
          /\ t = Lasts(out) /\ f = Len(fifo) /\ l = Lasts(pipe) /\ o = One(remaining # 0)
          /\ w = One(fifo_typ # Norm!NoType) /\ c = chunk /\ n = Len(work.sizes)
    <2>1. Lasts(out) \in Nat /\ Len(fifo) \in Nat /\ Lasts(pipe) \in Nat
      BY <1>1, LastsCount
    <2>2. One(remaining # 0) \in Nat /\ One(fifo_typ # Norm!NoType) \in Nat
      BY DEF One
    <2>3. chunk \in Nat /\ Len(work.sizes) \in Nat
      <3>1. Len(work.sizes) \in Nat
        BY DEF WellFormed
      <3>2. QED
        BY <3>1
    <2>4. QED
      BY <2>1, <2>2, <2>3
  <1>5. Row(NumberedTypes(work), fifo, t)
    BY <1>4, Zenon DEF TypesOwn
  <1>6. <<Head(fifo), t + 1>> \in NumberedTypes(work) /\ Head(fifo) \in AnyType /\ Len(fifo) \in Nat \ {0}
    BY <1>1, <1>5, RowTail
  <1>7. Head(fifo) = TypeOf(work, Lasts(out) + 1)
    <2>1. Head(fifo) = TypeOf(work, t + 1)
      BY <1>6 DEF NumberedTypes
    <2>2. QED
      BY <1>4, <2>1
  <1>8. Lasts(out) + 1 \in 1..Len(work.sizes)
    <2>1. t + l + o = c /\ f + w = l + o
      BY <1>4, Zenon DEF Types
    <2>2. f >= 1 /\ c <= n
      BY <1>4, <1>6
    <2>3. t + 1 \in 1..n
      <3>1. t \in Nat /\ f \in Nat /\ l \in Nat /\ o \in Nat /\ w \in Nat /\ c \in Nat /\ n \in Nat
        BY <1>4
      <3>2. QED
        BY <2>1, <2>2, <3>1
    <2>4. QED
      BY <1>4, <2>3, Zenon
  <1>9. u \in NextBeats(work, out)
    BY <1>3, <1>7, <1>8, NextIs
  <1>10. u \in OutBeat /\ u.last = Head(pipe).last /\ u.last \in BOOLEAN
    BY <1>2, <1>6 DEF OutBeat, FullBeat
  <1>11. OutPlace(Append(out, u)) = After(OutPlace(out), u.last)
    BY <1>1, <1>10, OutAppend
  <1>12. Lasts(Append(out, u)) = Lasts(out) + One(u.last)
    BY <1>1, <1>10, LastsAppend
  <1>13. QED
    BY <1>2, <1>3, <1>9, <1>10, <1>11, <1>12, Zenon

\* Nothing of this is in the other stages,
LEMMA StreamUnmoved ==
  ASSUME Streaming, UNCHANGED <<work, norm_vars, out>>
  PROVE  Streaming'
  <1>1. TypesOwn'
    BY DEF Streaming, TypesOwn, norm_vars
  <1>2. PICK y \in Position : Chain(pipe, OutPlace(out), y) /\ Making(y)
    BY DEF Streaming
  <1>3. Making(y)'
    BY <1>2 DEF Making, MadeUpTo, Stretch, Start, norm_vars
  <1>4. pipe' = pipe /\ out' = out /\ work' = work
    BY DEF norm_vars
  <1>5. Chain(pipe, OutPlace(out), y)'
    BY <1>2, <1>4 DEF Chain, Walk, NextPart, PartOf
  <1>6. QED
    BY <1>1, <1>3, <1>5 DEF Streaming

\* and TypedNormalizeUntil goes on with the stream.
LEMMA StreamStep ==
  ASSUME PathInv, Streaming, Normalize
  PROVE  /\ Streaming' /\ UNCHANGED work
         /\ out' = out \/ \E u \in NextBeats(work, out) : out' = Append(out, u)
  <1>1. WellFormed(work) /\ Types /\ PathInv'
    BY NormalizeKeeps DEF PathInv
  <1>2. PICK m \in Nat, g \in Nat : NormPlace(m, g)
    BY DEF PathInv, InPlace
  <1>3. PICK nr \in BOOLEAN, or \in BOOLEAN : Norm!Clock(nr, or) /\ UNCHANGED work
    BY DEF Normalize
  <1>4. /\ \E h \in Nat : NormPlace(m, h)'
        /\ remaining # 0 /\ skid # <<>> /\ nr => (remaining' = 0 <=> Norm!GateLast) /\ Norm!GateLast \in BOOLEAN
        /\ Norm!Configure => remaining' # 0
    BY <1>1, <1>2, <1>3, NormStep
  <1>5. PICK h \in Nat : Counting(h)' /\ remaining' \in Nat
    BY <1>4 DEF NormPlace, Counting
  <1>6. /\ Counting(g) /\ skid \in Seq(PlainBeat) /\ Row(NumberedPlains(work), skid, g)
        /\ chunk \in 0..Len(work.sizes) /\ chunk \in Nat
    <2>1. Counting(g) /\ skid \in Seq(PlainBeat) /\ Row(NumberedPlains(work), skid, g)
      BY <1>2 DEF NormPlace, NormRows
    <2>2. QED
      BY <1>1, <2>1, TypeWhileCounting
  <1>7. PICK configures \in BOOLEAN : configures <=> Norm!Configure
    BY DEF Norm!Configure
  <1>8. PICK pass \in BOOLEAN : pass <=> (remaining # 0 /\ skid # <<>> /\ nr)
    OBVIOUS
  <1>9. PICK give \in BOOLEAN : give <=> (or /\ pipe # <<>> /\ fifo # <<>>)
    OBVIOUS
  <1>10. PICK pops \in BOOLEAN : pops <=> (give /\ Head(pipe).last)
    OBVIOUS
  <1>11. PICK queue \in BOOLEAN : queue <=> (fifo_typ # Norm!NoType /\ Norm!FifoReady)
    OBVIOUS
  <1>12. PICK beats : beats = (IF pass THEN Norm!Packed(Head(skid).bytes, Norm!GateLast).beats ELSE <<>>)
    OBVIOUS
  <1>13. /\ chunk' = IF configures THEN chunk + 1 ELSE chunk
         /\ remaining' = IF configures THEN work.sizes[chunk'] ELSE IF pass THEN Norm!NextRemaining ELSE remaining
         /\ fifo_typ' = IF configures THEN Head(plain).typ ELSE IF remaining # 0 /\ Norm!FifoReady THEN Norm!NoType ELSE fifo_typ
         /\ in_typ' = IF configures THEN Head(plain).typ ELSE IF pass /\ Norm!GateLast THEN Norm!NoType ELSE in_typ
         /\ packed' = IF pass THEN Norm!Packed(Head(skid).bytes, Norm!GateLast).rest ELSE packed
    <2>1. Norm!Unconfigured <=> remaining = 0
      BY DEF Norm!Unconfigured
    <2>2. QED
      BY <1>3, <1>7, <1>8, <2>1 DEF Norm!Clock
  <1>14. /\ pipe' = (IF give THEN Tail(pipe) ELSE pipe) \o beats
         /\ fifo' = IF queue THEN Append(IF pops THEN Tail(fifo) ELSE fifo, fifo_typ) ELSE IF pops THEN Tail(fifo) ELSE fifo
         /\ out' = IF give THEN Append(out, [typ |-> Head(fifo), bytes |-> Head(pipe).bytes, last |-> Head(pipe).last]) ELSE out
    <2>1. Norm!Unconfigured <=> remaining = 0
      BY DEF Norm!Unconfigured
    <2>2. QED
      BY <1>3, <1>8, <1>9, <1>10, <1>11, <1>12, <2>1 DEF Norm!Clock
  <1>15. configures => remaining = 0 /\ ~pass /\ remaining' # 0 /\ chunk' = chunk + 1 /\ remaining' = work.sizes[chunk']
    BY <1>4, <1>7, <1>8, <1>13 DEF Norm!Configure, Norm!Unconfigured
  <1>16. pipe \in Seq(FullBeat) /\ out \in Seq(OutBeat) /\ packed \in Seq(Place)
    BY <1>1 DEF Types
  <1>17. PICK y \in Position : Chain(pipe, OutPlace(out), y) /\ Making(y)
    BY DEF Streaming
  \* What comes out.
  <1>18. PICK q \in Seq(FullBeat) :
           /\ q = IF give THEN Tail(pipe) ELSE pipe
           /\ Chain(q, OutPlace(out'), y) /\ Lasts(out') = Lasts(out) + One(pops)
           /\ out' = out \/ \E u \in NextBeats(work, out) : out' = Append(out, u)
    <2>1. CASE give
      <3>1. PICK u : u = [typ |-> Head(fifo), bytes |-> Head(pipe).bytes, last |-> Head(pipe).last]
        OBVIOUS
      <3>2. TypesOwn /\ pipe # <<>> /\ fifo # <<>>
        BY <1>9, <2>1 DEF Streaming
      <3>3. /\ u \in NextBeats(work, out)
            /\ Tail(pipe) \in Seq(FullBeat) /\ Chain(Tail(pipe), OutPlace(Append(out, u)), y)
            /\ Lasts(Append(out, u)) = Lasts(out) + One(Head(pipe).last)
        BY <1>1, <1>6, <1>17, <3>1, <3>2, GivesNext
      <3>4. out' = Append(out, u)
        BY <1>14, <2>1, <3>1
      <3>5. One(pops) = One(Head(pipe).last)
        BY <1>10, <2>1 DEF One
      <3>6. Chain(Tail(pipe), OutPlace(out'), y) /\ Lasts(out') = Lasts(out) + One(pops)
        BY <3>3, <3>4, <3>5, Zenon
      <3>7. QED
        BY <2>1, <3>3, <3>4, <3>6
    <2>2. CASE ~give
      <3>1. out' = out /\ One(pops) = 0
        BY <1>10, <1>14, <2>2 DEF One
      <3>2. Lasts(out) \in Nat
        BY <1>16, LastsCount
      <3>3. Lasts(out') = Lasts(out) + One(pops)
        BY <3>1, <3>2
      <3>4. QED
        BY <1>16, <1>17, <2>2, <3>1, <3>3
    <2>3. QED
      BY <2>1, <2>2
  \* What is made.
  <1>19. PICK z \in Position : Chain(pipe', OutPlace(out'), z) /\ Making(z)'
    <2>1. pipe' = q \o beats
      BY <1>14, <1>18
    <2>2. CASE configures
      <3>1. packed' = packed /\ beats = <<>>
        BY <1>12, <1>13, <1>15, <2>2
      <3>2. Making(y)'
        BY <1>1, <1>3, <1>5, <1>15, <1>17, <2>2, <3>1, MakesFirst
      <3>3. pipe' = q
        BY <2>1, <3>1
      <3>4. QED
        BY <1>18, <3>2, <3>3
    <2>3. CASE ~configures /\ pass
      <3>1. remaining # 0 /\ skid # <<>> /\ (remaining' = 0 <=> Norm!GateLast) /\ Norm!GateLast \in BOOLEAN
        BY <1>4, <1>8, <2>3
      <3>2. <<Head(skid), g + 1>> \in NumberedPlains(work)
        BY <1>6, <3>1, RowTail
      <3>3. /\ UNCHANGED <<work, chunk>> /\ remaining' = Norm!NextRemaining /\ remaining' \in Nat
            /\ ~Norm!GateLast => UNCHANGED in_typ
            /\ packed' = Norm!Packed(Head(skid).bytes, Norm!GateLast).rest
            /\ beats = Norm!Packed(Head(skid).bytes, Norm!GateLast).beats
        BY <1>3, <1>5, <1>12, <1>13, <2>3
      <3>4. PICK x : x = OutPlace(out')
        OBVIOUS
      <3>5. Chain(q, x, y) /\ Making(y)
        BY <1>17, <1>18, <3>4
      <3>6. \E z \in Position : Chain(q \o beats, x, z) /\ Making(z)'
        BY <1>1, <1>6, <1>16, <3>1, <3>2, <3>3, <3>5, MakesNext
      <3>7. QED
        BY <2>1, <3>4, <3>6
    <2>4. CASE ~configures /\ ~pass
      <3>1. UNCHANGED <<work, chunk, remaining, packed>> /\ (remaining # 0 => UNCHANGED in_typ) /\ beats = <<>>
        BY <1>3, <1>12, <1>13, <2>4
      <3>2. Making(y)'
        BY <1>17, <3>1, MakesNone
      <3>3. pipe' = q
        BY <2>1, <3>1
      <3>4. QED
        BY <1>18, <3>2, <3>3
    <2>5. QED
      BY <2>2, <2>3, <2>4
  <1>20. Chain(pipe, OutPlace(out), z)'
    BY <1>3, <1>19 DEF Chain, Walk, NextPart, PartOf
  \* Its type.
  <1>21. TypesOwn'
    <2>1. fifo_typ' # Norm!NoType => fifo_typ' = IF configures THEN TypeOf(work, chunk') ELSE fifo_typ
      <3>1. SUFFICES ASSUME fifo_typ' # Norm!NoType PROVE fifo_typ' = IF configures THEN TypeOf(work, chunk') ELSE fifo_typ
        OBVIOUS
      <3>2. CASE configures
        <4>1. remaining' # 0 /\ fifo_typ' = in_typ'
          BY <1>13, <1>15, <3>2
        <4>2. PICK p \in Pages(work) : \E j \in 1..Plains(work, p) : Amid(h, p, j)'
          BY <1>3, <1>5, <4>1 DEF Counting
        <4>3. work.layout[p].chunk = chunk' /\ in_typ' = work.contents[p].typ
          BY <1>3, <4>2 DEF Amid
        <4>4. TypeOf(work, work.layout[p].chunk) = work.contents[p].typ
          BY <1>1, TypeOfPage
        <4>5. QED
          BY <3>2, <4>1, <4>3, <4>4
      <3>3. CASE ~configures
        BY <1>13, <3>1, <3>3
      <3>4. QED
        BY <3>2, <3>3
    <2>2. /\ pops => fifo # <<>>
          /\ queue => fifo_typ # Norm!NoType
          /\ TypesOwn
      BY <1>9, <1>10, <1>11 DEF Streaming
    <2>3. QED
      BY <1>1, <1>3, <1>6, <1>13, <1>14, <1>18, <2>1, <2>2, TypesMove
  <1>22. Streaming'
    BY <1>19, <1>20, <1>21 DEF Streaming
  <1>23. QED
    BY <1>3, <1>18, <1>22

\* At first nothing is under way.
LEMMA StreamInit ==
  ASSUME Norm!Init
  PROVE  Streaming
  <1>1. /\ chunk = 0 /\ remaining = 0 /\ fifo_typ = Norm!NoType
        /\ fifo = <<>> /\ packed = <<>> /\ pipe = <<>> /\ out = <<>>
    BY DEF Norm!Init
  <1>2. TypesOwn
    BY <1>1, RowEmpty DEF TypesOwn
  <1>3. OutPlace(out) \in Position /\ OutPlace(out).chunk = chunk + 1 /\ OutPlace(out).beats = 0
    <2>1. Lasts(out) = 0
      BY <1>1, LastsEmpty
    <2>2. Begun(<<>>) = {}
      <3>1. DOMAIN <<>> = {}
        OBVIOUS
      <3>2. QED
        BY <3>1 DEF Begun
    <2>3. Cardinality(Begun(out)) = 0
      BY <1>1, <2>2, FS_EmptySet
    <2>4. OutPlace(out) = [chunk |-> 0 + 1, beats |-> 0]
      BY <2>1, <2>3, Zenon DEF OutPlace
    <2>5. QED
      BY <1>1, <2>4 DEF Position
  <1>4. Chain(pipe, OutPlace(out), OutPlace(out))
    BY <1>1, <1>3, ChainEmpty
  <1>5. Making(OutPlace(out))
    BY <1>1, <1>3 DEF Making
  <1>6. QED
    BY <1>2, <1>3, <1>4, <1>5 DEF Streaming

-----------------------------------------------------------------------------
(* Theorems.                                                               *)

\* StripLevels never takes away less of a page than the levels are, nor keeps discarding
\* past them, the normalizer never counts more values than the chunk has, and no buffer or
\* FIFO behind StripLevels holds more than it has room for, for all well-formed workloads
\* and depths of the buffers.
THEOREM TypeCorrect == Spec => []TypeOK
  <1>1. PathInv => TypeOK
    <2> SUFFICES ASSUME PathInv PROVE TypeOK
      OBVIOUS
    <2>1. WellFormed(work) /\ IInv /\ InPlace /\ Types
      BY DEF PathInv
    <2>2. PICK d \in Nat, m \in Nat, g \in Nat : DecPlace(d) /\ StripPlace(d, m) /\ NormPlace(m, g)
      BY <2>1 DEF InPlace
    <2>3. /\ strip_state \in {"WAIT", "CONSUME", "PIPE"}
          /\ strip_state = "CONSUME" => remaining_offset >= NumBytes
          /\ strip_state = "PIPE" => remaining_offset < NumBytes
      BY <2>1, <2>2, StripTypes
    <2>4. reset_counter \in 0..2
      BY <2>1 DEF IInv, DecTypes
    <2>5. remaining \in Nat /\ Len(skid) <= SkidDepth
      BY <2>2 DEF NormPlace, NormRows, Counting
    <2>6. Len(pipe) <= PipeDepth /\ Len(fifo) <= FifoDepth
      BY <2>1 DEF Types
    <2>7. QED
      BY <2>3, <2>4, <2>5, <2>6 DEF TypeOK
  <1>2. QED
    BY <1>1, InvAlways, PTL

\* TypedNormalizeUntil queues the type of a chunk exactly once: the types in the FIFO and
\* in the register before it are as many as the chunks that have been taken and whose last
\* databeat has not come out.
THEOREM AlwaysTypesQueuedOnce == Spec => []TypesQueuedOnce
  <1>1. PathInv => TypesQueuedOnce
    <2> SUFFICES ASSUME PathInv PROVE TypesQueuedOnce
      OBVIOUS
    <2>1. /\ pipe \in Seq(FullBeat) /\ fifo \in Seq(AnyType) /\ out \in Seq(OutBeat)
          /\ Lasts(out) + Lasts(pipe) + One(remaining # 0) = chunk
          /\ Len(fifo) + One(fifo_typ # Norm!NoType) = Lasts(pipe) + One(remaining # 0)
      BY DEF PathInv, Types
    <2>2. PICK a \in Nat, b \in Nat, o \in Nat : a = Lasts(out) /\ b = Lasts(pipe) /\ o = One(remaining # 0)
      <3>1. Lasts(out) \in Nat /\ Lasts(pipe) \in Nat
        BY <2>1, LastsCount
      <3>2. One(remaining # 0) \in Nat
        BY DEF One
      <3>3. QED
        BY <3>1, <3>2
    <2>3. a \in Nat /\ b \in Nat /\ o \in Nat
      BY <2>2
    <2>4. a + b + o = chunk /\ Len(fifo) + One(fifo_typ # Norm!NoType) = b + o
      BY <2>1, <2>2, Zenon
    <2>5. b + o = chunk - a
      BY <2>3, <2>4
    <2>6. Len(fifo) + One(fifo_typ # Norm!NoType) = chunk - Lasts(out)
      BY <2>2, <2>4, <2>5, Zenon
    <2>7. One(fifo_typ # Norm!NoType) = IF fifo_typ = Norm!NoType THEN 0 ELSE 1
      BY DEF One
    <2>8. Lasts(out) = Cardinality({i \in DOMAIN out : out[i].last})
      BY Zenon DEF Lasts, Marked
    <2>9. QED
      BY <2>6, <2>7, <2>8, Zenon DEF TypesQueuedOnce
  <1>2. QED
    BY <1>1, InvAlways, PTL

\* Between the last databeat of a compressed page and the first of the next,
\* VHSNUnzipWrapperInternal resets vhsnunzip and itself; decompressor_input_paused is not
\* needed for that: whatever the pages, the reset finds nothing of the next one, and what
\* vhsnunzip gives is of the page that the selectors are for.
THEOREM AlwaysResetBetweenPages == Spec => []ResetBetweenPages
  <1>1. PathInv => ResetBetweenPages
    BY DEF PathInv, IInv, WrapperOK, PageOK, ResetBetweenPages, Dec!ResetBetweenPages
  <1>2. QED
    BY <1>1, InvAlways, PTL

\* What comes out of the plain path are the values of the chunks, in their order and without
\* their levels, packed without a gap over the ends of pages, each chunk under its own type
\* and with one `last`, whatever the buffers hold and however the stages take turns: for all
\* well-formed workloads and depths of the buffers the plain path implements RunStream.
THEOREM ImplementsRunStream == Spec => StreamSpec
  <1>1. Init => PathInv /\ Streaming
    BY PathInit, StreamInit DEF Init
  <1>2. PathInv /\ Streaming /\ [Next]_vars => (PathInv /\ Streaming)'
    <2> SUFFICES ASSUME PathInv, Streaming, [Next]_vars PROVE PathInv' /\ Streaming'
      OBVIOUS
    <2>1. PathInv'
      BY StepKeeps
    <2>2. CASE Normalize
      BY <2>1, <2>2, StreamStep
    <2>3. CASE Decompress \/ StripStep \/ UNCHANGED vars
      <3>1. UNCHANGED <<work, norm_vars, out>>
        <4>1. CASE Decompress
          BY <4>1 DEF Decompress
        <4>2. CASE StripStep
          BY <4>2 DEF StripStep
        <4>3. CASE UNCHANGED vars
          BY <4>3 DEF vars
        <4>4. QED
          BY <2>3, <4>1, <4>2, <4>3
      <3>2. QED
        BY <2>1, <3>1, StreamUnmoved
    <2>4. QED
      BY <2>2, <2>3 DEF Next, Step, Done
  <1>3. Init => Stream!Init
    BY DEF Init, Norm!Init, Stream!Init
  <1>4. PathInv /\ Streaming /\ [Next]_vars => [Stream!Emit]_(Stream!streamVars)
    <2>1. SUFFICES ASSUME PathInv, Streaming, [Next]_vars
                   PROVE  Stream!Emit \/ UNCHANGED <<work, out>>
      BY DEF Stream!streamVars
    <2>2. CASE Normalize
      <3>1. UNCHANGED work /\ (out' = out \/ \E u \in NextBeats(work, out) : out' = Append(out, u))
        BY <2>1, <2>2, StreamStep
      <3>2. QED
        BY <3>1 DEF Stream!Emit
    <2>3. CASE Decompress \/ StripStep \/ UNCHANGED vars
      BY <2>3 DEF Decompress, StripStep, vars
    <2>4. QED
      BY <2>1, <2>2, <2>3 DEF Next, Step, Done
  <1>5. QED
    BY <1>1, <1>2, <1>3, <1>4, PTL DEF Spec, StreamSpec, Stream!Spec
=============================================================================
