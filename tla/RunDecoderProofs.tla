-------------------------- MODULE RunDecoderProofs --------------------------
(***************************************************************************)
(* Theorems about the RunDecoder that hold for every workload of pages it  *)
(* is made for: it never takes bytes for a header that are none, and its   *)
(* window holds databeats that follow each other.  Both rest on one        *)
(* invariant: offset points at what is left of a run, varint_offset at the *)
(* header after it, and what the varint decoder was given is that header.  *)
(***************************************************************************)
EXTENDS RunDecoder, WellFoundedInduction, TLAPS

-----------------------------------------------------------------------------
(* Induction on numbers, and what Sums computes.                           *)

\* Induction for a set in place of a predicate.
LEMMA NatSetInduction ==
  ASSUME NEW S, 0 \in S, \A n \in Nat : n \in S => n + 1 \in S
  PROVE  Nat \subseteq S
  <1> DEFINE R == OpToRel(<, Nat)
             T == {n \in Nat : n \notin S}
  <1>1. IsWellFoundedOn(R, Nat)
    BY NatLessThanWellFounded
  <1>2. SUFFICES ASSUME T # {} PROVE FALSE
    OBVIOUS
  <1>3. T \subseteq Nat
    OBVIOUS
  <1> HIDE DEF T, R
  <1>4. PICK m \in T : \A y \in T : ~(<<y, m>> \in R)
    BY <1>1, <1>2, <1>3, WFMin
  <1>5. m \in Nat /\ m \notin S
    BY <1>4 DEF T
  <1>6. m # 0
    BY <1>5
  <1>7. m - 1 \in Nat /\ m - 1 < m /\ (m - 1) + 1 = m
    BY <1>5, <1>6
  <1>8. m - 1 \notin S
    BY <1>5, <1>7
  <1>9. m - 1 \in T
    BY <1>7, <1>8 DEF T
  <1>10. <<m - 1, m>> \in R
    BY <1>5, <1>7 DEF R, OpToRel
  <1>11. QED
    BY <1>4, <1>9, <1>10

\* f is the function that Sums defines, for the first n of its values.
Adds(f, a, s, n) == f = [k \in 1..n |-> IF k = 1 THEN a ELSE f[k - 1] + s[k - 1]]

LEMMA AddsAt ==
  ASSUME NEW f, NEW a, NEW s, NEW n \in Nat, Adds(f, a, s, n), NEW k \in 1..n
  PROVE  f[k] = IF k = 1 THEN a ELSE f[k - 1] + s[k - 1]
BY Zenon DEF Adds

LEMMA AddsExists ==
  ASSUME NEW a, NEW s, NEW n \in Nat
  PROVE  \E f : Adds(f, a, s, n)
  <1> DEFINE I == {m \in Nat : \E f : Adds(f, a, s, m)}
  <1>1. 0 \in I
    <2>1. Adds([k \in 1..0 |-> 0], a, s, 0)
      BY DEF Adds
    <2>2. QED
      BY <2>1
  <1>2. ASSUME NEW m \in Nat, m \in I PROVE m + 1 \in I
    <2>1. PICK f : Adds(f, a, s, m)
      BY <1>2
    <2>2. PICK g : g = [k \in 1..(m + 1) |-> IF k = 1 THEN a ELSE f[k - 1] + s[k - 1]]
      OBVIOUS
    <2>3. \A k \in 1..m : g[k] = f[k]
      <3>1. SUFFICES ASSUME NEW k \in 1..m PROVE g[k] = f[k]
        OBVIOUS
      <3>2. k \in 1..(m + 1)
        OBVIOUS
      <3>3. g[k] = IF k = 1 THEN a ELSE f[k - 1] + s[k - 1]
        BY <2>2, <3>2, Zenon
      <3>4. QED
        BY <2>1, <3>3, AddsAt
    <2>4. \A k \in 1..(m + 1) : k # 1 => k - 1 \in 1..m
      OBVIOUS
    <2>5. Adds(g, a, s, m + 1)
      BY <2>2, <2>3, <2>4 DEF Adds
    <2>6. QED
      BY <2>5
  <1> HIDE DEF I
  <1>3. n \in I
    BY <1>1, <1>2, NatSetInduction
  <1>4. QED
    BY <1>3 DEF I

\* Sums(a, s) starts with a and grows by one element of s at a time.
LEMMA SumsStep ==
  ASSUME NEW a \in Nat, NEW s \in Seq(Nat)
  PROVE  /\ Sums(a, s)[1] = a
         /\ \A k \in 1..Len(s) : Sums(a, s)[k + 1] = Sums(a, s)[k] + s[k]
         /\ \A k \in 1..(Len(s) + 1) : Sums(a, s)[k] \in Nat
  <1> DEFINE n == Len(s)
             f == CHOOSE g : Adds(g, a, s, n + 1)
  <1>1. n \in Nat /\ n + 1 \in Nat /\ \A k \in 1..n : s[k] \in Nat
    OBVIOUS
  <1>2. Sums(a, s) = f
    BY Zenon DEF Sums, Adds
  <1>3. Adds(f, a, s, n + 1)
    BY <1>1, AddsExists
  <1> HIDE DEF f, n
  <1>4. 1 \in 1..(n + 1) /\ f[1] = a
    BY <1>1, <1>3, AddsAt
  <1>5. ASSUME NEW k \in 1..n PROVE f[k + 1] = f[k] + s[k]
    <2>1. k + 1 \in 1..(n + 1) /\ k + 1 # 1 /\ (k + 1) - 1 = k
      BY <1>1
    <2>2. f[k + 1] = f[(k + 1) - 1] + s[(k + 1) - 1]
      BY <1>1, <1>3, <2>1, AddsAt
    <2>3. QED
      BY <2>1, <2>2
  <1> DEFINE I == {m \in Nat : m <= n => f[m + 1] \in Nat}
  <1>6. 0 \in I
    BY <1>4
  <1>7. ASSUME NEW m \in Nat, m \in I PROVE m + 1 \in I
    <2>1. SUFFICES ASSUME m + 1 <= n PROVE f[m + 2] \in Nat
      OBVIOUS
    <2>2. m + 1 \in 1..n /\ (m + 1) + 1 = m + 2
      BY <1>1, <2>1
    <2>3. f[m + 1] \in Nat /\ s[m + 1] \in Nat
      BY <1>1, <1>7, <2>1, <2>2
    <2>4. f[m + 2] = f[m + 1] + s[m + 1]
      BY <1>5, <2>2
    <2>5. QED
      BY <2>3, <2>4
  <1>8. \A k \in 1..(n + 1) : f[k] \in Nat
    <2>1. SUFFICES ASSUME NEW k \in 1..(n + 1) PROVE f[k] \in Nat
      OBVIOUS
    <2> HIDE DEF I
    <2>2. Nat \subseteq I
      BY <1>6, <1>7, NatSetInduction
    <2>3. k - 1 \in Nat /\ k - 1 <= n /\ (k - 1) + 1 = k
      BY <1>1
    <2>4. k - 1 \in I
      BY <2>2, <2>3
    <2>5. QED
      BY <2>3, <2>4 DEF I
  <1>9. QED
    BY <1>2, <1>4, <1>5, <1>8 DEF n

\* Sums of positive numbers grow.
LEMMA SumsGrow ==
  ASSUME NEW a \in Nat, NEW s \in Seq(Nat), \A k \in 1..Len(s) : s[k] >= 1,
         NEW i \in 1..(Len(s) + 1), NEW j \in 1..(Len(s) + 1), i <= j
  PROVE  Sums(a, s)[i] + (j - i) <= Sums(a, s)[j]
  <1> DEFINE n == Len(s)
             f == Sums(a, s)
             I == {d \in Nat : i + d <= n + 1 => f[i] + d <= f[i + d]}
  <1>1. n \in Nat /\ \A k \in 1..n : s[k] \in Nat
    OBVIOUS
  <1>2. /\ \A k \in 1..n : f[k + 1] = f[k] + s[k]
        /\ \A k \in 1..(n + 1) : f[k] \in Nat
    BY SumsStep
  <1> HIDE DEF n, f
  <1>3. n = Len(s) /\ f = Sums(a, s) /\ i \in 1..(n + 1) /\ j \in 1..(n + 1)
    BY DEF n, f
  <1>4. 0 \in I
    BY <1>1, <1>2, <1>3
  <1>5. ASSUME NEW d \in Nat, d \in I PROVE d + 1 \in I
    <2>1. SUFFICES ASSUME i + (d + 1) <= n + 1 PROVE f[i] + (d + 1) <= f[i + (d + 1)]
      OBVIOUS
    <2>2. i + d \in 1..n /\ i + d \in 1..(n + 1) /\ (i + d) + 1 = i + (d + 1)
      BY <1>1, <1>3, <2>1
    <2>3. f[i + (d + 1)] = f[i + d] + s[i + d]
      BY <1>2, <2>2
    <2>4. s[i + d] >= 1 /\ s[i + d] \in Nat
      BY <1>1, <1>3, <2>2
    <2>5. f[i] \in Nat /\ f[i + d] \in Nat /\ f[i] + d <= f[i + d]
      BY <1>1, <1>2, <1>3, <1>5, <2>2
    <2>6. PICK x \in Nat, y \in Nat, z \in Nat : x = f[i] /\ y = f[i + d] /\ z = s[i + d] /\ z >= 1 /\ x + d <= y
      BY <2>4, <2>5
    <2>7. z >= 1 /\ x + d <= y
      BY <2>6
    <2>8. x + (d + 1) <= y + z
      BY <2>7
    <2>9. QED
      BY <2>3, <2>6, <2>8
  <1> HIDE DEF I
  <1>6. Nat \subseteq I
    BY <1>4, <1>5, NatSetInduction
  <1>7. j - i \in Nat /\ i + (j - i) = j /\ j <= n + 1
    BY <1>1, <1>3
  <1>8. j - i \in I
    BY <1>6, <1>7
  <1>9. QED
    BY <1>3, <1>7, <1>8 DEF I

-----------------------------------------------------------------------------
(* Divisions and remainders.                                               *)

\* A quotient and a remainder are unique.
LEMMA Quotients ==
  ASSUME NEW n \in Nat, n >= 1, NEW q \in Int, NEW p \in Int, NEW r \in 0..(n - 1), NEW m \in 0..(n - 1),
         q * n + r = p * n + m
  PROVE  q = p /\ r = m
  <1>1. (q - p) * n = m - r
    OBVIOUS
  <1>2. CASE q - p >= 1
    <2>1. (q - p) * n >= n
      BY <1>2
    <2>2. QED
      BY <1>1, <2>1
  <1>3. CASE q - p <= -1
    <2>1. (q - p) * n <= -n
      BY <1>3
    <2>2. QED
      BY <1>1, <2>1
  <1>4. CASE q - p = 0
    BY <1>4
  <1>5. QED
    BY <1>2, <1>3, <1>4

LEMMA Division ==
  ASSUME NEW n \in Nat, n >= 1, NEW x \in Nat
  PROVE  x % n \in 0..(n - 1) /\ x = (x \div n) * n + (x % n) /\ x \div n \in Nat
  OBVIOUS

LEMMA Remainders ==
  ASSUME NEW n \in Nat, n >= 1
  PROVE  /\ \A x \in 0..(n - 1) : x % n = x
         /\ \A x \in n..(2 * n - 1) : x % n = x - n
         /\ \A x \in Nat : x % n \in 0..(n - 1)
         /\ \A x, k \in Nat : (k * n + x) % n = x % n
         /\ \A x \in Nat : (x % (2 * n)) % n = x % n
  <1>1. \A x \in 0..(n - 1) : x % n = x
    OBVIOUS
  <1>2. \A x \in n..(2 * n - 1) : x % n = x - n
    OBVIOUS
  <1>3. \A x \in Nat : x % n \in 0..(n - 1) /\ x = (x \div n) * n + (x % n) /\ x \div n \in Nat
    BY Division
  <1>4. ASSUME NEW x \in Nat, NEW k \in Nat PROVE (k * n + x) % n = x % n
    <2>1. k * n \in Nat /\ k * n + x \in Nat
      OBVIOUS
    <2>2. PICK q \in Nat, r \in 0..(n - 1) : r = x % n /\ x = q * n + r
      BY <1>3
    <2>3. PICK p \in Nat, m \in 0..(n - 1) : m = (k * n + x) % n /\ k * n + x = p * n + m
      BY <1>3, <2>1
    <2>4. (k + q) * n + r = p * n + m
      BY <2>2, <2>3
    <2>5. r = m
      BY <2>4, Quotients
    <2>6. QED
      BY <2>2, <2>3, <2>5
  <1>5. ASSUME NEW x \in Nat PROVE (x % (2 * n)) % n = x % n
    <2>1. PICK m \in Nat : m = 2 * n /\ m >= 1
      OBVIOUS
    <2>2. x % m \in 0..(m - 1) /\ x = (x \div m) * m + (x % m) /\ x \div m \in Nat
      BY <2>1, Division
    <2>3. PICK q \in Nat, r \in Nat : q = x \div m /\ r = x % m /\ x = q * m + r
      BY <2>1, <2>2
    <2>4. 2 * q \in Nat /\ x = (2 * q) * n + r
      <3>1. q * (2 * n) = (2 * q) * n
        OBVIOUS
      <3>2. QED
        BY <2>1, <2>3, <3>1
    <2>5. ((2 * q) * n + r) % n = r % n
      BY <1>4, <2>4
    <2>6. x % n = (x % m) % n
      BY <2>3, <2>4, <2>5
    <2>7. QED
      BY <2>1, <2>6
  <1>6. QED
    BY <1>1, <1>2, <1>3, <1>4, <1>5

\* A number of databeats is enough for a page when its bytes reach the page's end.
LEMMA EnoughBeats ==
  ASSUME NEW n \in Nat, n >= 1, NEW x \in Nat, NEW b \in Nat
  PROVE  /\ CeilDiv(x, n) \in Nat
         /\ b >= CeilDiv(x, n) <=> b * n >= x
  <1>1. PICK c \in Nat, r \in 0..(n - 1) : c = CeilDiv(x, n) /\ x + n - 1 = c * n + r
    BY DEF CeilDiv
  <1>2. ASSUME b >= c PROVE b * n >= x
    <2>1. b * n >= c * n
      BY <1>2
    <2>2. QED
      BY <1>1, <2>1
  <1>3. ASSUME b < c PROVE b * n < x
    <2>1. (b + 1) * n <= c * n
      BY <1>3
    <2>2. (b + 1) * n = b * n + n
      OBVIOUS
    <2>3. QED
      BY <1>1, <2>1, <2>2
  <1>4. b * n \in Nat
    OBVIOUS
  <1>5. QED
    BY <1>1, <1>2, <1>3, <1>4

\* The payload of a BPE run: its whole inputs, and the group of eight beyond them.
LEMMA BpePayload ==
  ASSUME NEW c \in Nat, c % 8 = 0, NEW w \in Nat
  PROVE  /\ (c * w) \div 8 = (c \div 16) * (2 * w) + (IF c % 16 > 0 THEN w ELSE 0)
         /\ c = 16 * (c \div 16) + (IF c % 16 > 0 THEN 8 ELSE 0)
         /\ c \div 16 \in Nat /\ (c % 16 = 0 \/ c % 16 = 8)
  <1>1. PICK k \in Nat, e \in {0, 1} : c = 16 * k + 8 * e
    <2>1. c \div 16 \in Nat /\ c = 16 * (c \div 16) + (c % 16)
      OBVIOUS
    <2>2. c % 16 = 8 * 0 \/ c % 16 = 8 * 1
      OBVIOUS
    <2>3. QED
      BY <2>1, <2>2
  <1>2. c \div 16 = k /\ c % 16 = 8 * e
    BY <1>1
  <1>3. c * w = 8 * (2 * (k * w) + e * w)
    BY <1>1
  <1>4. k * w \in Nat /\ e * w \in Nat
    OBVIOUS
  <1>5. (c * w) \div 8 = 2 * (k * w) + e * w
    BY <1>3, <1>4
  <1>6. c % 16 = 0 \/ c % 16 = 8
    BY <1>2
  <1>7. QED
    BY <1>1, <1>2, <1>5, <1>6

-----------------------------------------------------------------------------
(* The page.                                                               *)

\* The sizes of the decoder: sixteen values to an output databeat.
Sizes == NumElements = 16 /\ NumBytes \in Nat /\ NumBytes >= 16

LEMMA RunSizes ==
  ASSUME Sizes, NEW p, Decodable(p), NEW i \in 1..Len(p.runs)
  PROVE  /\ p.runs[i] \in Run /\ p.bit_width \in 1..32 /\ 3 * p.bit_width <= NumBytes
         /\ CeilDiv(p.bit_width, 8) \in 1..4 /\ CeilDiv(p.bit_width, 8) <= p.bit_width
         /\ RunBytes(p, i) \in Nat /\ RunBytes(p, i) > p.runs[i].hlen
         /\ p.runs[i].enc = "BPE" => p.runs[i].count % 8 = 0 /\ p.runs[i].count >= 8
  <1>1. p \in Page /\ p.bit_width \in 1..32 /\ 3 * p.bit_width <= NumBytes
    BY DEF Decodable, Page
  <1>2. PICK r \in Run : r = p.runs[i]
    BY <1>1 DEF Page
  <1>3. r.hlen \in 1..4 /\ r.count \in Nat \ {0} /\ r.enc \in {"RLE", "BPE"}
    BY <1>2 DEF Run
  <1>4. CeilDiv(p.bit_width, 8) \in 1..4 /\ CeilDiv(p.bit_width, 8) <= p.bit_width
    <2>1. PICK w \in 1..32 : w = p.bit_width
      BY <1>1
    <2>2. CeilDiv(w, 8) = (w + 8 - 1) \div 8
      BY DEF CeilDiv
    <2>3. (w + 8 - 1) \div 8 \in 1..4 /\ (w + 8 - 1) \div 8 <= w
      OBVIOUS
    <2>4. QED
      BY <2>1, <2>2, <2>3
  <1>5. r.enc = "BPE" => r.count % 8 = 0
    BY <1>1, <1>2 DEF Decodable, Page
  <1>6. CASE r.enc = "RLE"
    <2>1. RunBytes(p, i) = r.hlen + CeilDiv(p.bit_width, 8)
      BY <1>2, <1>6 DEF RunBytes
    <2>2. PICK hlen \in 1..4, c \in 1..4 : hlen = r.hlen /\ c = CeilDiv(p.bit_width, 8)
      BY <1>3, <1>4
    <2>3. hlen + c \in Nat /\ hlen + c > hlen
      OBVIOUS
    <2>4. RunBytes(p, i) \in Nat /\ RunBytes(p, i) > p.runs[i].hlen
      BY <1>2, <2>1, <2>2, <2>3
    <2>5. p.runs[i].enc # "BPE"
      BY <1>2, <1>6
    <2>6. QED
      BY <1>1, <1>2, <1>4, <2>4, <2>5
  <1>7. CASE r.enc = "BPE"
    <2>1. PICK m \in Nat, w \in Nat : r.count = 8 * m /\ w = p.bit_width /\ m >= 1 /\ w >= 1
      <3>1. PICK c \in Nat : c = r.count /\ c # 0 /\ c % 8 = 0
        BY <1>3, <1>5, <1>7
      <3>2. c = 8 * (c \div 8) /\ c \div 8 \in Nat /\ c \div 8 >= 1
        BY <3>1
      <3>3. p.bit_width \in Nat /\ p.bit_width >= 1
        <4>1. PICK w \in 1..32 : w = p.bit_width
          BY <1>1
        <4>2. w \in Nat /\ w >= 1
          OBVIOUS
        <4>3. QED
          BY <4>1, <4>2, Zenon
      <3>4. QED
        BY <3>1, <3>2, <3>3
    <2>2. r.count * p.bit_width = 8 * (m * w) /\ m * w \in Nat
      BY <2>1
    <2>3. m * w >= 1
      BY <2>1
    <2>4. (r.count * p.bit_width) \div 8 = m * w
      BY <2>2
    <2>5. RunBytes(p, i) = r.hlen + m * w
      BY <1>2, <1>7, <2>4 DEF RunBytes
    <2>6. RunBytes(p, i) \in Nat /\ RunBytes(p, i) > r.hlen
      BY <1>3, <2>2, <2>3, <2>5
    <2>7. r.count % 8 = 0 /\ r.count >= 8
      BY <1>5, <1>7, <2>1
    <2>8. QED
      BY <1>1, <1>2, <1>4, <2>6, <2>7
  <1>8. QED
    BY <1>3, <1>6, <1>7

\* The headers of a page, in the page's order, and the values before them.
LEMMA PageFacts ==
  ASSUME Sizes, NEW p, Decodable(p)
  PROVE  /\ Len(p.runs) \in Nat /\ Len(p.runs) >= 1 /\ p.num_values \in Nat
         /\ p.offset \in 0..(NumBytes - 1)
         /\ \A i \in 1..(Len(p.runs) + 1) :
              /\ HeaderAt(p, i) \in Nat /\ ValuesBefore(p, i) \in Nat
              /\ HeaderAt(p, i) <= PageBytes(p)
         /\ HeaderAt(p, 1) = p.offset /\ ValuesBefore(p, 1) = 0
         /\ \A i \in 1..Len(p.runs) :
              /\ HeaderAt(p, i + 1) = HeaderAt(p, i) + RunBytes(p, i)
              /\ HeaderAt(p, i) < PageBytes(p)
              /\ ValuesBefore(p, i + 1) = ValuesBefore(p, i) + p.runs[i].count
              /\ ValuesBefore(p, i) < p.num_values
              /\ i < Len(p.runs) => ValuesBefore(p, i + 1) < p.num_values
         /\ \A i, j \in 1..Len(p.runs) : HeaderAt(p, i) = HeaderAt(p, j) => i = j
  <1> DEFINE n == Len(p.runs)
             bs == [k \in DOMAIN p.runs |-> RunBytes(p, k)]
             cs == [k \in DOMAIN p.runs |-> p.runs[k].count]
  <1>1. p \in Page
    BY DEF Decodable
  <1>2. p.runs \in Seq(Run) /\ n \in Nat /\ p.num_values \in Nat /\ p.offset \in 0..(NumBytes - 1)
    BY <1>1 DEF Page
  <1>3. n >= 1
    BY DEF Decodable
  <1>4. DOMAIN p.runs = 1..n
    BY <1>2
  <1>5. \A k \in 1..n : RunBytes(p, k) \in Nat /\ RunBytes(p, k) >= 1
    <2>1. SUFFICES ASSUME NEW k \in 1..n PROVE RunBytes(p, k) \in Nat /\ RunBytes(p, k) >= 1
      OBVIOUS
    <2>2. RunBytes(p, k) \in Nat /\ RunBytes(p, k) > p.runs[k].hlen /\ p.runs[k] \in Run
      BY RunSizes
    <2>3. QED
      BY <2>2 DEF Run
  <1>6. \A k \in 1..n : p.runs[k].count \in Nat /\ p.runs[k].count >= 1
    <2>1. SUFFICES ASSUME NEW k \in 1..n PROVE p.runs[k].count \in Nat /\ p.runs[k].count >= 1
      OBVIOUS
    <2>2. PICK r \in Run : r = p.runs[k]
      BY <1>2
    <2>3. r.count \in Nat /\ r.count >= 1
      BY DEF Run
    <2>4. QED
      BY <2>2, <2>3
  <1>7. bs \in Seq(Nat) /\ Len(bs) = n /\ \A k \in 1..n : bs[k] = RunBytes(p, k)
    BY <1>2, <1>4, <1>5
  <1>8. cs \in Seq(Nat) /\ Len(cs) = n /\ \A k \in 1..n : cs[k] = p.runs[k].count
    BY <1>2, <1>4, <1>6
  <1>9. \A i : HeaderAt(p, i) = Sums(p.offset, bs)[i] /\ ValuesBefore(p, i) = Sums(0, cs)[i]
    BY DEF HeaderAt, ValuesBefore
  <1>10. PageBytes(p) = HeaderAt(p, n + 1)
    BY DEF PageBytes
  <1> HIDE DEF bs, cs
  <1>11. /\ HeaderAt(p, 1) = p.offset
         /\ \A k \in 1..n : HeaderAt(p, k + 1) = HeaderAt(p, k) + RunBytes(p, k)
         /\ \A k \in 1..(n + 1) : HeaderAt(p, k) \in Nat
    <2>1. p.offset \in Nat
      BY <1>2
    <2>2. /\ Sums(p.offset, bs)[1] = p.offset
          /\ \A k \in 1..Len(bs) : Sums(p.offset, bs)[k + 1] = Sums(p.offset, bs)[k] + bs[k]
          /\ \A k \in 1..(Len(bs) + 1) : Sums(p.offset, bs)[k] \in Nat
      BY <1>7, <2>1, SumsStep
    <2>3. QED
      BY <1>7, <1>9, <2>2
  <1>12. /\ ValuesBefore(p, 1) = 0
         /\ \A k \in 1..n : ValuesBefore(p, k + 1) = ValuesBefore(p, k) + p.runs[k].count
         /\ \A k \in 1..(n + 1) : ValuesBefore(p, k) \in Nat
    <2>1. /\ Sums(0, cs)[1] = 0
          /\ \A k \in 1..Len(cs) : Sums(0, cs)[k + 1] = Sums(0, cs)[k] + cs[k]
          /\ \A k \in 1..(Len(cs) + 1) : Sums(0, cs)[k] \in Nat
      BY <1>8, SumsStep
    <2>2. QED
      BY <1>8, <1>9, <2>1
  <1>13. ASSUME NEW i \in 1..(n + 1), NEW j \in 1..(n + 1), i <= j
         PROVE  /\ HeaderAt(p, i) + (j - i) <= HeaderAt(p, j)
                /\ ValuesBefore(p, i) + (j - i) <= ValuesBefore(p, j)
    <2>1. HeaderAt(p, i) + (j - i) <= HeaderAt(p, j)
      <3>1. \A k \in 1..Len(bs) : bs[k] >= 1
        BY <1>5, <1>7
      <3>2. p.offset \in Nat /\ i \in 1..(Len(bs) + 1) /\ j \in 1..(Len(bs) + 1)
        BY <1>2, <1>7
      <3>3. QED
        BY <1>7, <1>9, <1>13, <3>1, <3>2, SumsGrow
    <2>2. ValuesBefore(p, i) + (j - i) <= ValuesBefore(p, j)
      <3>1. \A k \in 1..Len(cs) : cs[k] >= 1
        BY <1>6, <1>8
      <3>2. i \in 1..(Len(cs) + 1) /\ j \in 1..(Len(cs) + 1)
        BY <1>8
      <3>3. QED
        BY <1>8, <1>9, <1>13, <3>1, <3>2, SumsGrow
    <2>3. QED
      BY <2>1, <2>2
  <1>14. ASSUME NEW i \in 1..(n + 1) PROVE HeaderAt(p, i) <= PageBytes(p)
    <2>1. i <= n + 1 /\ n + 1 \in 1..(n + 1) /\ n + 1 - i >= 0
      BY <1>2
    <2>2. HeaderAt(p, i) + (n + 1 - i) <= HeaderAt(p, n + 1)
      BY <1>13, <2>1
    <2>3. PICK x \in Nat, y \in Nat, d \in Nat : x = HeaderAt(p, i) /\ y = HeaderAt(p, n + 1) /\ d = n + 1 - i
      <3>1. HeaderAt(p, i) \in Nat /\ HeaderAt(p, n + 1) \in Nat
        BY <1>11, <2>1
      <3>2. n + 1 - i \in Nat
        BY <1>2
      <3>3. QED
        BY <3>1, <3>2
    <2>4. x <= y
      <3>1. x + d <= y
        BY <2>2, <2>3
      <3>2. QED
        BY <3>1
    <2>5. QED
      BY <1>10, <2>3, <2>4
  <1>15. ValuesBefore(p, n) < p.num_values
    <2>1. p.num_values \in (ValuesBefore(p, n) + 1)..ValuesBefore(p, n + 1)
      BY DEF Decodable
    <2>2. n \in 1..(n + 1) /\ n + 1 \in 1..(n + 1)
      BY <1>2, <1>3
    <2>3. ValuesBefore(p, n) \in Nat /\ ValuesBefore(p, n + 1) \in Nat
      BY <1>12, <2>2
    <2>4. QED
      BY <1>2, <2>1, <2>3
  <1>16. ASSUME NEW i \in 1..n
         PROVE  /\ HeaderAt(p, i) < PageBytes(p) /\ ValuesBefore(p, i) < p.num_values
                /\ i < n => ValuesBefore(p, i + 1) < p.num_values
    <2>1. i \in 1..(n + 1) /\ n \in 1..(n + 1) /\ n + 1 \in 1..(n + 1) /\ i + 1 \in 1..(n + 1)
      BY <1>2, <1>3
    <2>2. HeaderAt(p, i) + (n + 1 - i) <= HeaderAt(p, n + 1)
      <3>1. i <= n + 1
        BY <1>2
      <3>2. QED
        BY <1>13, <2>1, <3>1
    <2>3. ValuesBefore(p, i) + (n - i) <= ValuesBefore(p, n)
      BY <1>2, <1>13, <2>1
    <2>4. i < n => ValuesBefore(p, i + 1) + (n - (i + 1)) <= ValuesBefore(p, n)
      BY <1>2, <1>13, <2>1
    <2>5. /\ HeaderAt(p, i) \in Nat /\ HeaderAt(p, n + 1) \in Nat
          /\ ValuesBefore(p, i) \in Nat /\ ValuesBefore(p, n) \in Nat /\ ValuesBefore(p, i + 1) \in Nat
      BY <1>11, <1>12, <2>1
    <2>6. HeaderAt(p, i) < PageBytes(p)
      BY <1>2, <1>10, <2>2, <2>5
    <2>7. ValuesBefore(p, i) < p.num_values
      BY <1>2, <1>15, <2>3, <2>5
    <2>8. i < n => ValuesBefore(p, i + 1) < p.num_values
      BY <1>2, <1>15, <2>4, <2>5
    <2>9. QED
      BY <2>6, <2>7, <2>8
  <1>17. ASSUME NEW i \in 1..n, NEW j \in 1..n, HeaderAt(p, i) = HeaderAt(p, j) PROVE i = j
    <2>1. i \in 1..(n + 1) /\ j \in 1..(n + 1)
      BY <1>2
    <2>2. HeaderAt(p, i) \in Nat /\ HeaderAt(p, j) \in Nat
      BY <1>11, <2>1
    <2>3. CASE i < j
      <3>1. HeaderAt(p, i) + (j - i) <= HeaderAt(p, j)
        BY <1>13, <2>1, <2>3
      <3>2. QED
        BY <1>17, <2>1, <2>2, <2>3, <3>1
    <2>4. CASE j < i
      <3>1. HeaderAt(p, j) + (i - j) <= HeaderAt(p, i)
        BY <1>13, <2>1, <2>4
      <3>2. QED
        BY <1>17, <2>1, <2>2, <2>4, <3>1
    <2>5. QED
      BY <2>3, <2>4
  <1>18. QED
    BY <1>2, <1>3, <1>11, <1>12, <1>14, <1>16, <1>17

-----------------------------------------------------------------------------
(* The window.                                                             *)

\* Databeats of the window that are filled, the position of its first byte, and the
\* position after the last byte taken.
Filled == IF store_in_second_half THEN 1 ELSE IF lo = 0 THEN 0 ELSE 2
Base == (beats - Filled) * NumBytes
End  == beats * NumBytes

\* A window with databeats l and h, when b are taken, has f of its databeats filled.
Holds(l, h, b, f) ==
  \/ f = 0 /\ l = 0 /\ h = 0
  \/ f = 1 /\ l = b /\ h = 0 /\ b >= 1
  \/ f = 2 /\ l = b - 1 /\ h = b /\ b >= 2

\* The window is filled by the databeats taken last, of which the page p has one more
\* unless the last has been received.
WindowInv(p) ==
  /\ beats \in Nat /\ store_in_second_half \in BOOLEAN /\ last_received \in BOOLEAN
  /\ Holds(lo, hi, beats, Filled) /\ beats <= NumBeats(p)
  /\ last_received = (End >= PageBytes(p))

LEMMA Offsets ==
  ASSUME Sizes
  PROVE  /\ \A o \in 0..(NumBytes - 1) : Trim(o) = o
         /\ \A o \in NumBytes..(2 * NumBytes - 1) : Trim(o) = o - NumBytes
         /\ \A o \in Nat : Trim(o) \in 0..(NumBytes - 1) /\ Trim(Offset(o)) = Trim(o)
         /\ \A o, k \in Nat : Trim(k * NumBytes + o) = Trim(o)
         /\ \A o \in 0..(2 * NumBytes - 1) : Offset(o) = o
         /\ \A o \in Nat : Offset(o) \in 0..(2 * NumBytes - 1)
  <1>1. NumBytes \in Nat /\ NumBytes >= 1 /\ Window \in Nat /\ Window >= 1 /\ Window = 2 * NumBytes
    BY DEF Sizes, Window
  <1>2. /\ \A o \in 0..(NumBytes - 1) : o % NumBytes = o
        /\ \A o \in NumBytes..(2 * NumBytes - 1) : o % NumBytes = o - NumBytes
        /\ \A o \in Nat : o % NumBytes \in 0..(NumBytes - 1)
        /\ \A o, k \in Nat : (k * NumBytes + o) % NumBytes = o % NumBytes
        /\ \A o \in Nat : (o % (2 * NumBytes)) % NumBytes = o % NumBytes
    BY <1>1, Remainders
  <1>3. /\ \A o \in 0..(Window - 1) : o % Window = o
        /\ \A o \in Nat : o % Window \in 0..(Window - 1)
    BY <1>1, Remainders
  <1>4. \A o : Trim(o) = o % NumBytes /\ Offset(o) = o % Window
    BY DEF Trim, Offset
  <1>5. \A o \in Nat : Trim(Offset(o)) = Trim(o)
    BY <1>1, <1>2, <1>4
  <1>6. QED
    BY <1>1, <1>2, <1>3, <1>4, <1>5

\* The bytes of the window are the page's, from its first databeat on.
LEMMA Positions ==
  ASSUME Sizes, NEW l, NEW h, NEW b \in Nat, NEW f \in 0..2, Holds(l, h, b, f)
  PROVE  /\ b >= f /\ (b - f) * NumBytes \in Nat /\ b * NumBytes \in Nat
         /\ f = 0 => b * NumBytes = (b - f) * NumBytes
         /\ f = 1 => b * NumBytes = (b - f) * NumBytes + NumBytes
         /\ f = 2 => b * NumBytes = (b - f) * NumBytes + 2 * NumBytes
         /\ l \in 0..b /\ h \in 0..b
         /\ \A o \in Nat : Pos(l, h, o) = IF (b - f) * NumBytes + o < b * NumBytes
                                         THEN (b - f) * NumBytes + o ELSE None
  <1>1. NumBytes \in Nat /\ NumBytes >= 16 /\ Window = 2 * NumBytes
    BY DEF Sizes, Window
  <1>2. /\ \A o \in 0..(NumBytes - 1) : Trim(o) = o
        /\ \A o \in NumBytes..(2 * NumBytes - 1) : Trim(o) = o - NumBytes
    BY Offsets
  <1>3. CASE f = 0
    <2>1. l = 0 /\ h = 0 /\ b - f = b /\ b * NumBytes \in Nat
      BY <1>1, <1>3 DEF Holds
    <2>2. \A o : Pos(l, h, o) = None
      BY <2>1 DEF Pos
    <2>3. QED
      BY <1>1, <1>3, <2>1, <2>2
  <1>4. CASE f = 1
    <2>1. l = b /\ h = 0 /\ b >= 1
      BY <1>4 DEF Holds
    <2>2. PICK k \in Nat : k = (b - 1) * NumBytes /\ b * NumBytes = k + NumBytes
      <3>1. b - 1 \in Nat /\ (b - 1) * NumBytes \in Nat
        BY <1>1, <2>1
      <3>2. b * NumBytes = (b - 1) * NumBytes + NumBytes
        BY <1>1
      <3>3. QED
        BY <3>1, <3>2
    <2>3. \A o \in Nat : Pos(l, h, o) = IF o < NumBytes THEN k + o ELSE None
      <3>1. SUFFICES ASSUME NEW o \in Nat PROVE Pos(l, h, o) = IF o < NumBytes THEN k + o ELSE None
        OBVIOUS
      <3>2. CASE o < NumBytes
        BY <1>1, <1>2, <2>1, <2>2, <3>2 DEF Pos
      <3>3. CASE o >= NumBytes
        BY <1>1, <2>1, <3>3 DEF Pos
      <3>4. QED
        BY <1>1, <3>2, <3>3
    <2>4. QED
      BY <1>1, <1>4, <2>1, <2>2, <2>3
  <1>5. CASE f = 2
    <2>1. l = b - 1 /\ h = b /\ b >= 2
      BY <1>5 DEF Holds
    <2>2. PICK k \in Nat : /\ k = (b - 2) * NumBytes /\ b * NumBytes = k + 2 * NumBytes
                           /\ (l - 1) * NumBytes = k /\ (h - 1) * NumBytes = k + NumBytes
      <3>1. b - 2 \in Nat /\ (b - 2) * NumBytes \in Nat
        BY <1>1, <2>1
      <3>2. b * NumBytes = (b - 2) * NumBytes + 2 * NumBytes
        BY <1>1
      <3>3. l - 1 = b - 2 /\ (h - 1) * NumBytes = (b - 2) * NumBytes + NumBytes
        BY <1>1, <2>1
      <3>4. QED
        BY <3>1, <3>2, <3>3
    <2>3. \A o \in Nat : Pos(l, h, o) = IF o < 2 * NumBytes THEN k + o ELSE None
      <3>1. SUFFICES ASSUME NEW o \in Nat
                     PROVE  Pos(l, h, o) = IF o < 2 * NumBytes THEN k + o ELSE None
        OBVIOUS
      <3>2. CASE o < NumBytes
        <4>1. Trim(o) = o /\ l # 0 /\ o < Window
          BY <1>1, <1>2, <2>1, <3>2
        <4>2. QED
          BY <1>1, <2>2, <3>2, <4>1 DEF Pos
      <3>3. CASE o >= NumBytes /\ o < 2 * NumBytes
        <4>1. Trim(o) = o - NumBytes /\ h # 0 /\ o < Window
          BY <1>1, <1>2, <2>1, <3>3
        <4>2. QED
          BY <1>1, <2>2, <3>3, <4>1 DEF Pos
      <3>4. CASE o >= 2 * NumBytes
        BY <1>1, <3>4 DEF Pos
      <3>5. QED
        BY <1>1, <3>2, <3>3, <3>4
    <2>4. \A o \in Nat : k + o < b * NumBytes <=> o < 2 * NumBytes
      BY <1>1, <2>2
    <2>5. QED
      BY <1>1, <1>5, <2>1, <2>2, <2>3, <2>4
  <1>6. QED
    BY <1>3, <1>4, <1>5

\* What the varint decoder makes of the bytes from q on.
Reading(v, p, lst, end, q) ==
  /\ v.valid = IF lst THEN q < PageBytes(p) ELSE q + 3 < end
  /\ v.valid => v.at = q /\ (v.row >= 4 \/ v.row >= end - q)

ReadsAt(v, p, lst, b, q) ==
  /\ Reading(v, p, lst, b * NumBytes, q) /\ v.valid \in BOOLEAN
  /\ b >= 1 => {v.at, v.row} \subseteq -1..(NumBytes * b)

LEMMA ReadVarintReads ==
  ASSUME Sizes, NEW p, PageBytes(p) \in Nat,
         NEW l, NEW h, NEW b \in Nat, NEW f \in 0..2, Holds(l, h, b, f),
         NEW lst \in BOOLEAN, lst = (b * NumBytes >= PageBytes(p)), NEW o \in 0..(2 * NumBytes - 1)
  PROVE  ReadsAt(ReadVarint(p, l, h, lst, o), p, lst, b, (b - f) * NumBytes + o)
  <1> DEFINE v == ReadVarint(p, l, h, lst, o)
  <1>1. NumBytes \in Nat /\ NumBytes >= 16
    BY DEF Sizes
  <1>2. PICK base \in Nat, end \in Nat :
          /\ base = (b - f) * NumBytes /\ end = b * NumBytes
          /\ f = 0 => end = base
          /\ f = 1 => end = base + NumBytes
          /\ f = 2 => end = base + 2 * NumBytes
          /\ \A x \in Nat : Pos(l, h, x) = IF base + x < end THEN base + x ELSE None
    <2>1. /\ (b - f) * NumBytes \in Nat /\ b * NumBytes \in Nat
          /\ f = 0 => b * NumBytes = (b - f) * NumBytes
          /\ f = 1 => b * NumBytes = (b - f) * NumBytes + NumBytes
          /\ f = 2 => b * NumBytes = (b - f) * NumBytes + 2 * NumBytes
          /\ \A x \in Nat : Pos(l, h, x) = IF (b - f) * NumBytes + x < b * NumBytes
                                          THEN (b - f) * NumBytes + x ELSE None
      BY Positions
    <2>2. QED
      BY <2>1, Zenon
  <1>3. PICK bytes \in Nat : bytes = PageBytes(p)
    OBVIOUS
  <1>4. (lst => end >= bytes) /\ (~lst => end < bytes)
    <2>1. (lst => b * NumBytes >= PageBytes(p)) /\ (~lst => ~(b * NumBytes >= PageBytes(p)))
      BY Zenon
    <2>2. b * NumBytes = end /\ PageBytes(p) = bytes
      BY <1>2, <1>3
    <2>3. QED
      BY <2>1, <2>2
  <1>5. \A x \in Nat : Keep(p, l, h, x) <=> base + x < end /\ base + x < bytes
    BY <1>2, <1>3 DEF Keep, None
  <1>6. v.valid = (Keep(p, l, h, o) /\ (lst \/ \A i \in 1..3 : Keep(p, l, h, o + i)))
    BY Zenon DEF ReadVarint
  <1>7. v.valid \in BOOLEAN
    BY <1>6 DEF Keep
  <1>8. v.valid <=> IF lst THEN base + o < bytes ELSE (base + o) + 3 < end
    <2>1. \A i \in 1..3 : o + i \in Nat /\ base + (o + i) = (base + o) + i
      OBVIOUS
    <2>2. CASE lst
      <3>1. v.valid <=> Keep(p, l, h, o)
        BY <1>6, <2>2, Zenon
      <3>2. Keep(p, l, h, o) <=> base + o < bytes
        BY <1>4, <1>5, <2>2
      <3>3. QED
        BY <2>2, <3>1, <3>2, Zenon
    <2>3. CASE ~lst
      <3>1. Keep(p, l, h, o) <=> base + o < end
        BY <1>4, <1>5, <2>3
      <3>2. \A i \in 1..3 : Keep(p, l, h, o + i) <=> (base + o) + i < end
        BY <1>4, <1>5, <2>1, <2>3
      <3>3. (Keep(p, l, h, o) /\ \A i \in 1..3 : Keep(p, l, h, o + i)) <=> (base + o) + 3 < end
        <4>1. 3 \in 1..3 /\ \A i \in 1..3 : i \in Nat /\ i <= 3
          OBVIOUS
        <4>2. QED
          BY <3>1, <3>2, <4>1
      <3>4. QED
        BY <1>6, <2>3, <3>3
    <2>4. QED
      BY <2>2, <2>3
  <1>9. v.at = IF base + o < end THEN base + o ELSE -1
    <2>1. v.at = Pos(l, h, o)
      BY Zenon DEF ReadVarint
    <2>2. QED
      BY <1>2, <2>1 DEF None
  <1>10. v.row \in Nat /\ v.row <= NumBytes /\ (base + o < end => v.row >= 4 \/ v.row >= end - (base + o))
    <2>1. v.row = IF Slice(l, h, o, 4) # None THEN 4 ELSE NumBytes - Trim(o)
      BY Zenon DEF ReadVarint
    <2>2. Trim(o) \in 0..(NumBytes - 1)
      BY Offsets
    <2>3. CASE Slice(l, h, o, 4) # None
      BY <1>1, <2>1, <2>3
    <2>4. CASE Slice(l, h, o, 4) = None
      <3>1. v.row = NumBytes - Trim(o)
        BY <2>1, <2>4
      <3>2. SUFFICES ASSUME base + o < end PROVE v.row >= end - (base + o)
        BY <1>1, <2>2, <3>1
      <3>3. Pos(l, h, o) = base + o
        BY <1>2, <3>2
      <3>4. Pos(l, h, o + 4 - 1) # Pos(l, h, o) + 4 - 1
        <4>1. 4 # 0
          OBVIOUS
        <4>2. Slice(l, h, o, 4) = IF Pos(l, h, o) # None /\ Pos(l, h, o + 4 - 1) = Pos(l, h, o) + 4 - 1
                                  THEN Pos(l, h, o) ELSE None
          BY <4>1, Zenon DEF Slice
        <4>3. Pos(l, h, o) # None
          BY <3>3 DEF None
        <4>4. QED
          BY <2>4, <4>2, <4>3
      <3>5. o + 4 - 1 = o + 3 /\ o + 3 \in Nat /\ base + (o + 3) = base + o + 4 - 1
        OBVIOUS
      <3>6. base + (o + 3) >= end
        BY <1>2, <3>3, <3>4, <3>5
      <3>7. CASE f = 0
        BY <1>2, <3>2, <3>7
      <3>8. CASE f = 1
        <4>1. Trim(o) = o
          <5>1. o \in 0..(NumBytes - 1)
            BY <1>1, <1>2, <3>2, <3>8
          <5>2. QED
            BY <5>1, Offsets
        <4>2. QED
          BY <1>1, <1>2, <3>1, <3>8, <4>1
      <3>9. CASE f = 2
        <4>1. Trim(o) = o - NumBytes
          <5>1. o \in NumBytes..(2 * NumBytes - 1)
            BY <1>1, <1>2, <3>6, <3>9
          <5>2. QED
            BY <5>1, Offsets
        <4>2. QED
          BY <1>1, <1>2, <3>1, <3>9, <4>1
      <3>10. QED
        BY <3>7, <3>8, <3>9
    <2>5. QED
      BY <2>3, <2>4
  <1>11. v.valid => base + o < end
    BY <1>4, <1>8
  <1>12. Reading(v, p, lst, end, base + o)
    BY <1>3, <1>7, <1>8, <1>9, <1>10, <1>11 DEF Reading
  <1>13. b >= 1 => {v.at, v.row} \subseteq -1..(NumBytes * b)
    <2>1. SUFFICES ASSUME b >= 1 PROVE {v.at, v.row} \subseteq -1..(NumBytes * b)
      OBVIOUS
    <2>2. NumBytes * b = end /\ NumBytes <= end
      BY <1>1, <1>2, <2>1
    <2>3. v.at \in -1..end
      BY <1>9
    <2>4. v.row \in -1..end
      BY <1>1, <1>10, <2>2
    <2>5. QED
      BY <2>2, <2>3, <2>4
  <1> HIDE DEF v
  <1>14. QED
    BY <1>2, <1>7, <1>12, <1>13 DEF v, ReadsAt

LEMMA WindowFacts ==
  ASSUME Sizes, NEW p, PageBytes(p) \in Nat, WindowInv(p)
  PROVE  /\ Filled \in 0..2 /\ Base \in Nat /\ End \in Nat /\ beats \in Nat /\ beats >= Filled
         /\ Filled = 0 => End = Base
         /\ Filled = 1 => End = Base + NumBytes
         /\ Filled = 2 => End = Base + 2 * NumBytes
         /\ lo \in 0..beats /\ hi \in 0..beats
         /\ last_received => End >= PageBytes(p)
         /\ ~last_received => End < PageBytes(p)
         /\ beats >= 1 => NumBytes <= End
         /\ Filled >= 1 => beats >= 1
         /\ \A o \in Nat : Pos(lo, hi, o) = IF Base + o < End THEN Base + o ELSE None
  <1>1. PICK f \in 0..2 : f = Filled
    BY DEF WindowInv, Filled
  <1>2. NumBytes \in Nat /\ NumBytes >= 16
    BY DEF Sizes
  <1>3. beats \in Nat /\ Holds(lo, hi, beats, f)
    BY <1>1 DEF WindowInv
  <1>4. Base = (beats - f) * NumBytes /\ End = beats * NumBytes
    BY <1>1, Zenon DEF Base, End
  <1>5. /\ beats >= f /\ Base \in Nat /\ End \in Nat
        /\ f = 0 => End = Base
        /\ f = 1 => End = Base + NumBytes
        /\ f = 2 => End = Base + 2 * NumBytes
        /\ lo \in 0..beats /\ hi \in 0..beats
        /\ \A o \in Nat : Pos(lo, hi, o) = IF Base + o < End THEN Base + o ELSE None
    <2>1. /\ beats >= f /\ (beats - f) * NumBytes \in Nat /\ beats * NumBytes \in Nat
          /\ f = 0 => beats * NumBytes = (beats - f) * NumBytes
          /\ f = 1 => beats * NumBytes = (beats - f) * NumBytes + NumBytes
          /\ f = 2 => beats * NumBytes = (beats - f) * NumBytes + 2 * NumBytes
          /\ lo \in 0..beats /\ hi \in 0..beats
          /\ \A o \in Nat : Pos(lo, hi, o) = IF (beats - f) * NumBytes + o < beats * NumBytes
                                           THEN (beats - f) * NumBytes + o ELSE None
      BY <1>3, Positions
    <2>2. QED
      BY <1>4, <2>1, Zenon
  <1>6. (last_received => End >= PageBytes(p)) /\ (~last_received => ~(End >= PageBytes(p)))
    BY Zenon DEF WindowInv
  <1>7. beats >= 1 => NumBytes <= End
    BY <1>2, <1>3, <1>4
  <1>8. f >= 1 => beats >= 1
    BY <1>3, <1>5
  <1>9. QED
    BY <1>1, <1>3, <1>5, <1>6, <1>7, <1>8

\* A position's place in its databeat.
LEMMA TrimAt ==
  ASSUME Sizes, NEW p, PageBytes(p) \in Nat, WindowInv(p), NEW x \in Nat
  PROVE  Trim(Base + x) = Trim(x)
  <1>1. beats \in Nat /\ Filled \in 0..2 /\ beats >= Filled
    BY WindowFacts
  <1>2. PICK m \in Nat : m = beats - Filled /\ Base = m * NumBytes
    BY <1>1 DEF Base
  <1>3. Trim(m * NumBytes + x) = Trim(x)
    BY Offsets
  <1>4. QED
    BY <1>2, <1>3

\* A databeat arrives.
LEMMA Stored ==
  ASSUME Sizes, NEW p, p = page, PageBytes(p) \in Nat, WindowInv(p), Filled <= 1, StoreInput
  PROVE  /\ WindowInv(p)' /\ page' = page /\ beats' = beats + 1
         /\ Filled' = Filled + 1 /\ Base' = Base /\ End' = End + NumBytes
         /\ lo' \in 0..beats' /\ hi' \in 0..beats'
         /\ ~last_received
         /\ last_received' => End' >= PageBytes(p)
         /\ ~last_received' => End' < PageBytes(p)
  <1>1. NumBytes \in Nat /\ NumBytes >= 16
    BY DEF Sizes
  <1>2. /\ Filled \in 0..2 /\ beats \in Nat /\ Base \in Nat /\ End \in Nat /\ beats >= Filled
        /\ last_received => End >= PageBytes(p)
        /\ ~last_received => End < PageBytes(p)
    BY WindowFacts
  <1>3. /\ beats < NumBeats(p) /\ beats' = beats + 1
        /\ lo' = NextLo /\ hi' = NextHi /\ last_received' = (beats + 1 = NumBeats(p))
        /\ store_in_second_half' = ~store_in_second_half
        /\ page' = page
    BY DEF StoreInput, NextLast, page
  <1>4. Holds(lo', hi', beats', Filled') /\ Filled' = Filled + 1
    <2>1. CASE Filled = 0
      <3>1. ~store_in_second_half /\ lo = 0 /\ hi = 0
        BY <1>2, <2>1 DEF WindowInv, Filled, Holds
      <3>2. lo' = beats + 1 /\ hi' = 0 /\ store_in_second_half' = TRUE
        BY <1>3, <3>1 DEF NextLo, NextHi
      <3>3. Filled' = 1
        BY <3>2 DEF Filled
      <3>4. QED
        BY <1>2, <1>3, <2>1, <3>2, <3>3 DEF Holds
    <2>2. CASE Filled = 1
      <3>1. store_in_second_half /\ lo = beats /\ hi = 0 /\ beats >= 1
        BY <1>2, <2>2 DEF WindowInv, Filled, Holds
      <3>2. lo' = beats /\ hi' = beats + 1 /\ store_in_second_half' = FALSE
        BY <1>3, <3>1 DEF NextLo, NextHi
      <3>3. lo' # 0
        BY <1>2, <3>1, <3>2
      <3>4. Filled' = 2
        BY <3>2, <3>3 DEF Filled
      <3>5. QED
        BY <1>2, <1>3, <2>2, <3>1, <3>2, <3>4 DEF Holds
    <2>3. QED
      BY <1>2, <2>1, <2>2
  <1>5. Base' = Base /\ End' = End + NumBytes
    <2>1. Base' = (beats' - Filled') * NumBytes /\ End' = beats' * NumBytes
      BY Zenon DEF Base, End
    <2>2. beats' - Filled' = beats - Filled
      BY <1>2, <1>3, <1>4
    <2>3. (beats + 1) * NumBytes = beats * NumBytes + NumBytes
      BY <1>1, <1>2
    <2>4. QED
      BY <1>3, <2>1, <2>2, <2>3 DEF Base, End
  <1>6. NumBeats(p) \in Nat /\ (beats' >= NumBeats(p) <=> End' >= PageBytes(p))
        /\ (beats >= NumBeats(p) <=> End >= PageBytes(p))
    <2>1. beats' \in Nat
      BY <1>2, <1>3
    <2>2. NumBytes >= 1
      BY <1>1
    <2>3. /\ CeilDiv(PageBytes(p), NumBytes) \in Nat
          /\ beats' >= CeilDiv(PageBytes(p), NumBytes) <=> beats' * NumBytes >= PageBytes(p)
      BY <1>1, <2>1, <2>2, EnoughBeats
    <2>4. beats >= CeilDiv(PageBytes(p), NumBytes) <=> beats * NumBytes >= PageBytes(p)
      BY <1>1, <1>2, <2>2, EnoughBeats
    <2>5. QED
      BY <2>3, <2>4, Zenon DEF NumBeats, End
  <1>7. beats' <= NumBeats(p) /\ (last_received' <=> End' >= PageBytes(p))
    <2>1. last_received' <=> beats + 1 = NumBeats(p)
      BY <1>3, Zenon
    <2>2. beats' <= NumBeats(p) /\ (beats + 1 = NumBeats(p) <=> beats' >= NumBeats(p))
      BY <1>2, <1>3, <1>6
    <2>3. QED
      BY <1>6, <2>1, <2>2, Zenon
  <1>8. WindowInv(p)'
    <2>1. beats' \in Nat /\ store_in_second_half' \in BOOLEAN /\ last_received' \in BOOLEAN
      BY <1>2, <1>3
    <2>2. last_received' = (End' >= PageBytes(p))
      BY <1>7, <2>1
    <2>3. QED
      BY <1>4, <1>7, <2>1, <2>2 DEF WindowInv
  <1>9. ~last_received
    BY <1>2, <1>3, <1>6
  <1>10. lo' \in 0..beats' /\ hi' \in 0..beats'
    BY <1>2, <1>3, <1>4 DEF Holds
  <1>11. End' \in Nat
    BY <1>1, <1>2, <1>5
  <1>12. last_received' => End' >= PageBytes(p)
    BY <1>7
  <1>13. ~last_received' => End' < PageBytes(p)
    BY <1>7, <1>11
  <1>14. QED
    BY <1>3, <1>4, <1>5, <1>8, <1>9, <1>10, <1>12, <1>13

\* offset moves on, and the window with it.
LEMMA Moved ==
  ASSUME Sizes, NEW p, p = page, PageBytes(p) \in Nat, WindowInv(p),
         NEW o \in 0..(2 * NumBytes - 1), o >= NumBytes => Filled >= 1, UpdateOffset(o)
  PROVE  /\ WindowInv(p)' /\ page' = page /\ pages' = pages /\ taken' = taken
         /\ beats' = beats /\ End' = End /\ last_received' = last_received
         /\ lo' \in 0..beats' /\ hi' \in 0..beats'
         /\ offset' \in 0..(NumBytes - 1) /\ offset' = Trim(o)
         /\ o < NumBytes => Filled' = Filled /\ Base' = Base /\ offset' = o
         /\ o >= NumBytes => Filled' = Filled - 1 /\ Base' = Base + NumBytes /\ offset' = o - NumBytes
  <1>1. NumBytes \in Nat /\ NumBytes >= 16
    BY DEF Sizes
  <1>2. /\ Filled \in 0..2 /\ beats \in Nat /\ Base \in Nat /\ beats >= Filled
        /\ lo \in 0..beats /\ hi \in 0..beats
    BY WindowFacts
  <1>3. /\ beats' = beats /\ pages' = pages /\ taken' = taken /\ page' = page
        /\ last_received' = last_received /\ offset' = Trim(o)
    BY DEF UpdateOffset, page, input_vars
  <1>4. End' = End
    BY <1>3 DEF End
  <1>5. CASE o < NumBytes
    <2>1. lo' = lo /\ hi' = hi /\ store_in_second_half' = store_in_second_half
      BY <1>1, <1>5 DEF UpdateOffset
    <2>2. Filled' = Filled
      BY <2>1 DEF Filled
    <2>3. Base' = Base
      BY <1>3, <2>2 DEF Base
    <2>4. WindowInv(p)'
      BY <1>3, <1>4, <2>1, <2>2 DEF WindowInv
    <2>5. Trim(o) = o
      <3>1. o \in 0..(NumBytes - 1)
        BY <1>1, <1>5
      <3>2. QED
        BY <3>1, Offsets
    <2>6. QED
      BY <1>1, <1>2, <1>3, <1>4, <1>5, <2>1, <2>2, <2>3, <2>4, <2>5
  <1>6. CASE o >= NumBytes
    <2>1. lo' = hi /\ hi' = 0 /\ store_in_second_half' = ~store_in_second_half
      BY <1>6 DEF UpdateOffset
    <2>2. Holds(lo', hi', beats', Filled') /\ Filled' = Filled - 1
      <3>1. CASE Filled = 1
        <4>1. store_in_second_half /\ hi = 0
          BY <1>2, <3>1 DEF WindowInv, Filled, Holds
        <4>2. lo' = 0 /\ hi' = 0 /\ store_in_second_half' = FALSE
          BY <2>1, <4>1
        <4>3. Filled' = 0
          BY <4>2 DEF Filled
        <4>4. QED
          BY <3>1, <4>2, <4>3 DEF Holds
      <3>2. CASE Filled = 2
        <4>1. ~store_in_second_half /\ hi = beats /\ beats >= 2
          BY <1>2, <3>2 DEF WindowInv, Filled, Holds
        <4>2. lo' = beats /\ hi' = 0 /\ store_in_second_half' = TRUE
          BY <2>1, <4>1
        <4>3. Filled' = 1
          BY <4>2 DEF Filled
        <4>4. QED
          BY <1>2, <1>3, <3>2, <4>1, <4>2, <4>3 DEF Holds
      <3>3. QED
        BY <1>2, <1>6, <3>1, <3>2
    <2>3. Base' = Base + NumBytes
      <3>1. Base' = (beats' - Filled') * NumBytes
        BY Zenon DEF Base
      <3>2. beats' - Filled' = (beats - Filled) + 1
        BY <1>2, <1>3, <2>2
      <3>3. ((beats - Filled) + 1) * NumBytes = (beats - Filled) * NumBytes + NumBytes
        BY <1>1, <1>2
      <3>4. QED
        BY <3>1, <3>2, <3>3 DEF Base
    <2>4. store_in_second_half' \in BOOLEAN
      BY <2>1
    <2>5. WindowInv(p)'
      BY <1>3, <1>4, <2>2, <2>4 DEF WindowInv
    <2>6. o \in NumBytes..(2 * NumBytes - 1)
      BY <1>1, <1>6
    <2>7. Trim(o) = o - NumBytes
      BY <2>6, Offsets
    <2>8. lo' \in 0..beats' /\ hi' \in 0..beats'
      BY <1>2, <1>3, <2>1
    <2>9. QED
      BY <1>1, <1>3, <1>4, <1>6, <2>2, <2>3, <2>5, <2>6, <2>7, <2>8
  <1>7. QED
    BY <1>1, <1>5, <1>6

\* The varint decoder is given the bytes from o of the window on.
LEMMA ReadsWindow ==
  ASSUME Sizes, NEW p, p = page, PageBytes(p) \in Nat, WindowInv(p), NEW o \in 0..(2 * NumBytes - 1)
  PROVE  ReadsAt(ReadVarint(page, lo, hi, last_received, o), p, last_received, beats, Base + o)
  <1>1. PICK f \in 0..2 : f = Filled
    BY DEF WindowInv, Filled
  <1>2. beats \in Nat /\ Holds(lo, hi, beats, f) /\ last_received \in BOOLEAN
        /\ last_received = (beats * NumBytes >= PageBytes(p))
    BY <1>1 DEF WindowInv, End
  <1>3. Base + o = (beats - f) * NumBytes + o
    BY <1>1, Zenon DEF Base
  <1>4. ReadsAt(ReadVarint(p, lo, hi, last_received, o), p, last_received, beats, (beats - f) * NumBytes + o)
    BY <1>2, ReadVarintReads
  <1>5. QED
    BY <1>3, <1>4, Zenon

-----------------------------------------------------------------------------
(* The invariant.                                                          *)

\* The registers hold what their widths allow.
Registers ==
  /\ beats \in Nat /\ {lo, hi} \subseteq 0..beats
  /\ {store_in_second_half, last_received} \subseteq BOOLEAN
  /\ offset \in 0..(NumBytes - 1) /\ varint_offset \in 0..(Window - 1)
  /\ {varint.at, varint.row} \subseteq -1..(NumBytes * beats) /\ varint.valid \in BOOLEAN
  /\ {remaining_values, count, bpe_remaining_inputs} \subseteq Nat

Item == [at : Int, count : Nat]
Queues ==
  /\ order \in Seq({"RLE", "BPE"}) /\ rle \in Seq(Item) /\ bpe \in Seq(Item)
  /\ Len(order) <= OrderDepth /\ Len(rle) <= RleDepth /\ Len(bpe) <= BpeDepth

\* varint_offset points at the header of run i, never far into the second half, and with
\* both halves filled never far from it.
AtHeader(p, i) ==
  /\ Base + varint_offset = HeaderAt(p, i) /\ varint_offset <= NumBytes + 3
  /\ Filled = 2 => varint_offset + 1 + 2 * p.bit_width >= NumBytes

\* The varint decoder was given the header of run i, and the page has not got more of it
\* than it was given.
Given(p, i) == Reading(varint, p, last_received, End, HeaderAt(p, i))

\* Looking for the header of run i.
HeaderInv(p, i) ==
  AtHeader(p, i) /\ Given(p, i) /\ remaining_values = p.num_values - ValuesBefore(p, i)

\* Run i is an RLE run whose value offset points at.
RleInv(p, i) ==
  /\ p.runs[i].enc = "RLE" /\ count = p.runs[i].count
  /\ Base + offset + CeilDiv(p.bit_width, 8) = HeaderAt(p, i + 1)
  /\ remaining_values = p.num_values - ValuesBefore(p, i)
  /\ i < Len(p.runs) => AtHeader(p, i + 1) /\ Given(p, i + 1) /\ HeaderAt(p, i + 1) <= End

\* Values, and bytes, of BPE run i when n whole inputs and the group beyond them are left.
GroupBeyond(p, i) == p.runs[i].count % 16 > 0
ValuesLeft(p, i, n) == 16 * n + (IF GroupBeyond(p, i) THEN 8 ELSE 0)
BytesLeft(p, i, n)  == n * (2 * p.bit_width) + (IF GroupBeyond(p, i) THEN p.bit_width ELSE 0)

\* Run i is a BPE run of which offset points at what is left.  The header after it is
\* where varint_offset points only when the run fits one input or its whole inputs are
\* used up; until then varint_offset has its place in a databeat.
BpeInv(p, i) ==
  /\ p.runs[i].enc = "BPE"
  /\ count >= 1 /\ count <= p.runs[i].count /\ count <= ValuesLeft(p, i, bpe_remaining_inputs)
  /\ Base + offset + BytesLeft(p, i, bpe_remaining_inputs) = HeaderAt(p, i + 1)
  /\ Filled = 2 => offset + 2 * p.bit_width >= NumBytes
  /\ i = Len(p.runs) => remaining_values = count
  /\ i < Len(p.runs) =>
       /\ count = ValuesLeft(p, i, bpe_remaining_inputs)
       /\ remaining_values - count = p.num_values - ValuesBefore(p, i + 1)
       /\ IF p.runs[i].count <= 16 \/ bpe_remaining_inputs = 0
          THEN /\ Base + varint_offset = HeaderAt(p, i + 1)
               /\ varint.valid => Given(p, i + 1)
               /\ varint.valid \/ bpe_remaining_inputs = 1 => varint_offset < NumBytes
          ELSE /\ varint_offset = Trim(HeaderAt(p, i + 1))
               /\ varint.valid => p.runs[i].count <= 24

\* j inputs of the run are unpacked, which are values of the page.
Unpacked(p, i, j) ==
  /\ bpe_remaining_inputs + j = p.runs[i].count \div 16
  /\ count + 16 * j = RunValues(p, i)

\* Run i is next, or being unpacked, with j of its databeats done.
RunAt(p, i, j) ==
  \/ state \in {"HEADER", "HEADER2"} /\ HeaderInv(p, i) /\ j = 0
  \/ state = "DECODE_RLE" /\ RleInv(p, i) /\ j = 0
  \/ state = "DECODE_BPE" /\ BpeInv(p, i) /\ Unpacked(p, i, j)

RunInv(p) == \E i \in 1..Len(p.runs), j \in Nat : RunAt(p, i, j)

IdleInv == lo = 0 /\ hi = 0 /\ ~store_in_second_half /\ ~last_received /\ varint = NoVarint

-----------------------------------------------------------------------------
(* From a header to the run's decoding.                                    *)

\* Packed and the payload of a BPE run, by the page's bit width.
LEMMA Inputs ==
  ASSUME Sizes, NEW p, p = page, Decodable(p)
  PROVE  /\ Packed = 2 * p.bit_width /\ RleWidth = CeilDiv(p.bit_width, 8)
         /\ \A i \in 1..Len(p.runs) : p.runs[i].enc = "BPE" =>
              /\ p.runs[i].count \div NumElements \in Nat
              /\ BpeBytes(p.runs[i].count) = BytesLeft(p, i, p.runs[i].count \div NumElements)
              /\ p.runs[i].count = ValuesLeft(p, i, p.runs[i].count \div NumElements)
              /\ HeaderAt(p, i + 1) = HeaderAt(p, i) + p.runs[i].hlen + BpeBytes(p.runs[i].count)
  <1>1. NumElements = 16 /\ page = p
    BY DEF Sizes
  <1>2. PICK w \in 1..32 : w = p.bit_width
    BY DEF Decodable, Page
  <1>3. Packed = 2 * w
    <2>1. Packed = (16 * w) \div 8
      BY <1>1, <1>2, Zenon DEF Packed
    <2>2. QED
      BY <2>1
  <1>4. RleWidth = CeilDiv(p.bit_width, 8)
    BY <1>1, Zenon DEF RleWidth
  <1>5. ASSUME NEW i \in 1..Len(p.runs), p.runs[i].enc = "BPE"
        PROVE  /\ p.runs[i].count \div NumElements \in Nat
               /\ BpeBytes(p.runs[i].count) = BytesLeft(p, i, p.runs[i].count \div NumElements)
               /\ p.runs[i].count = ValuesLeft(p, i, p.runs[i].count \div NumElements)
               /\ HeaderAt(p, i + 1) = HeaderAt(p, i) + p.runs[i].hlen + BpeBytes(p.runs[i].count)
    <2>1. p.runs[i] \in Run /\ p.runs[i].count % 8 = 0
      BY <1>5, RunSizes
    <2>2. PICK c \in Nat : c = p.runs[i].count /\ c % 8 = 0
      BY <2>1 DEF Run
    <2>3. PICK k \in Nat : k = c \div 16
      BY BpePayload, <2>2
    <2>4. /\ (c * w) \div 8 = k * (2 * w) + (IF c % 16 > 0 THEN w ELSE 0)
          /\ c = 16 * k + (IF c % 16 > 0 THEN 8 ELSE 0)
      <3>1. w \in Nat
        OBVIOUS
      <3>2. /\ (c * w) \div 8 = (c \div 16) * (2 * w) + (IF c % 16 > 0 THEN w ELSE 0)
            /\ c = 16 * (c \div 16) + (IF c % 16 > 0 THEN 8 ELSE 0)
        BY <2>2, <3>1, BpePayload, Zenon
      <3>3. QED
        BY <2>3, <3>2, Zenon
    <2>5. BpeBytes(c) = k * (2 * w) + (IF c % 16 > 0 THEN w ELSE 0)
      BY <1>1, <1>2, <1>3, <2>3, Zenon DEF BpeBytes
    <2>6. BytesLeft(p, i, k) = k * (2 * w) + (IF c % 16 > 0 THEN w ELSE 0)
      BY <1>2, <2>2, Zenon DEF BytesLeft, GroupBeyond
    <2>7. ValuesLeft(p, i, k) = 16 * k + (IF c % 16 > 0 THEN 8 ELSE 0)
      BY <2>2, Zenon DEF ValuesLeft, GroupBeyond
    <2>8. RunBytes(p, i) = p.runs[i].hlen + BpeBytes(c)
      BY <1>2, <1>5, <2>2, <2>4, <2>5 DEF RunBytes
    <2>9. HeaderAt(p, i + 1) = HeaderAt(p, i) + (p.runs[i].hlen + BpeBytes(c))
      BY <2>8, PageFacts
    <2>10. HeaderAt(p, i) \in Nat /\ p.runs[i].hlen \in Nat /\ BpeBytes(c) \in Nat
      <3>1. i \in 1..(Len(p.runs) + 1)
        BY PageFacts
      <3>2. HeaderAt(p, i) \in Nat
        BY <3>1, PageFacts
      <3>3. p.runs[i].hlen \in Nat
        BY <2>1 DEF Run
      <3>4. k * (2 * w) \in Nat /\ w \in Nat
        OBVIOUS
      <3>5. QED
        BY <2>5, <3>2, <3>3, <3>4
    <2>11. HeaderAt(p, i + 1) = HeaderAt(p, i) + p.runs[i].hlen + BpeBytes(c)
      BY <2>9, <2>10
    <2>12. QED
      BY <1>1, <2>2, <2>3, <2>4, <2>5, <2>6, <2>7, <2>11
  <1>6. QED
    BY <1>2, <1>3, <1>4, <1>5

\* A header that the varint decoder has got whole is decoded, the run after it is unpacked.
LEMMA GotoDecodeKeeps ==
  ASSUME Sizes, NEW p, p = page, Decodable(p), NEW i \in 1..Len(p.runs), WindowInv(p), Registers,
         AtHeader(p, i), varint.valid, Given(p, i),
         NEW left \in Nat, left = p.num_values - ValuesBefore(p, i),
         GotoDecode(left), remaining_values' = left
  PROVE  /\ pages' = pages /\ taken' = taken /\ page' = p /\ Registers'
         /\ state' \in {"DECODE_RLE", "DECODE_BPE"} /\ WindowInv(p)' /\ RunAt(p, i, 0)'
  <1>1. NumBytes \in Nat /\ NumBytes >= 16 /\ NumElements = 16 /\ Window = 2 * NumBytes
    BY DEF Sizes, Window
  <1>2. PICK w \in 1..32, c \in 1..4, hlen \in 1..4, n0 \in Nat :
          /\ w = p.bit_width /\ 3 * w <= NumBytes /\ c = CeilDiv(p.bit_width, 8)
          /\ hlen = p.runs[i].hlen /\ n0 = p.runs[i].count /\ n0 >= 1
          /\ p.runs[i].enc \in {"RLE", "BPE"}
    <2>1. p.runs[i] \in Run
      BY RunSizes
    <2>2. /\ p.runs[i].hlen \in 1..4 /\ p.runs[i].count \in Nat /\ p.runs[i].count >= 1
          /\ p.runs[i].enc \in {"RLE", "BPE"}
      BY <2>1 DEF Run
    <2>3. QED
      BY <2>2, RunSizes
  <1>2a. 3 * w <= NumBytes /\ n0 >= 1
    BY <1>2
  <1>3. PICK n \in Nat : n = Len(p.runs) /\ i \in 1..n /\ i \in 1..(n + 1) /\ i + 1 \in 1..(n + 1)
    BY PageFacts
  <1>4. PICK at \in Nat, next \in Nat, bytes \in Nat :
          /\ at = HeaderAt(p, i) /\ next = HeaderAt(p, i + 1) /\ bytes = PageBytes(p)
          /\ next = at + RunBytes(p, i) /\ RunBytes(p, i) \in Nat /\ RunBytes(p, i) > hlen
          /\ at < bytes /\ next <= bytes
    <2>1. HeaderAt(p, i) \in Nat /\ HeaderAt(p, i + 1) \in Nat /\ HeaderAt(p, i + 1) <= PageBytes(p)
      BY <1>3, PageFacts
    <2>2. HeaderAt(p, i + 1) = HeaderAt(p, i) + RunBytes(p, i) /\ HeaderAt(p, i) < PageBytes(p)
      BY PageFacts
    <2>3. PageBytes(p) \in Nat
      <3>1. n + 1 \in 1..(n + 1)
        BY <1>3
      <3>2. HeaderAt(p, n + 1) \in Nat
        BY <1>3, <3>1, PageFacts
      <3>3. QED
        BY <1>3, <3>2 DEF PageBytes
    <2>4. RunBytes(p, i) \in Nat /\ RunBytes(p, i) > hlen
      BY <1>2, RunSizes
    <2>5. QED
      BY <2>1, <2>2, <2>3, <2>4
  <1>4a. at < bytes /\ next <= bytes /\ next > at + hlen
    BY <1>4
  <1>5. /\ Filled \in 0..2 /\ Base \in Nat /\ End \in Nat /\ beats \in Nat
        /\ Filled = 0 => End = Base
        /\ Filled = 1 => End = Base + NumBytes
        /\ Filled = 2 => End = Base + 2 * NumBytes
        /\ last_received => End >= bytes
        /\ ~last_received => End < bytes
        /\ Filled >= 1 => beats >= 1
    BY <1>4, WindowFacts
  <1>6. PICK vo \in 0..(2 * NumBytes - 1) :
          /\ vo = varint_offset /\ Base + vo = at /\ vo <= NumBytes + 3
          /\ Filled = 2 => vo + 1 + 2 * w >= NumBytes
    BY <1>1, <1>2, <1>4 DEF Registers, AtHeader
  <1>7. PICK row \in Int :
          /\ row = varint.row /\ varint.at = at /\ (row >= 4 \/ row >= End - at)
          /\ (last_received => at < bytes) /\ (~last_received => at + 3 < End)
    <2>1. /\ last_received => HeaderAt(p, i) < PageBytes(p)
          /\ ~last_received => HeaderAt(p, i) + 3 < End
          /\ varint.at = HeaderAt(p, i) /\ (varint.row >= 4 \/ varint.row >= End - HeaderAt(p, i))
      BY Zenon DEF Given, Reading
    <2>2. varint.row \in Int
      <3>1. varint.row \in -1..(NumBytes * beats) /\ NumBytes * beats \in Nat
        BY <1>1, <1>5 DEF Registers
      <3>2. QED
        BY <3>1
    <2>3. QED
      BY <1>4, <2>1, <2>2, Zenon
  <1>8. row >= hlen /\ Filled >= 1 /\ beats >= 1
    <2>1. row >= hlen
      BY <1>4a, <1>5, <1>7
    <2>2. at < End
      BY <1>4a, <1>5, <1>7
    <2>3. Filled >= 1
      BY <1>5, <1>6, <2>2
    <2>4. QED
      BY <1>5, <2>1, <2>3
  <1>9. Header = {i}
    <2>1. p.runs \in Seq(Run) /\ DOMAIN p.runs = 1..Len(p.runs)
      BY DEF Decodable, Page
    <2>2. i \in Header
      BY <1>2, <1>4, <1>7, <1>8, <2>1 DEF Header
    <2>3. ASSUME NEW j \in Header PROVE j = i
      <3>1. j \in 1..Len(p.runs) /\ HeaderAt(p, j) = HeaderAt(p, i)
        BY <1>4, <1>7, <2>1 DEF Header
      <3>2. QED
        BY <3>1, PageFacts
    <2>4. QED
      BY <2>2, <2>3
  <1>10. PICK a \in 1..(NumBytes + 7) : a = vo + hlen
    BY <1>1, <1>2a, <1>6
  <1>11. a \in 0..(2 * NumBytes - 1) /\ AfterVarint(i) = a
    <2>1. a \in 0..(2 * NumBytes - 1)
      BY <1>1, <1>10
    <2>2. AfterVarint(i) = Offset(a)
      BY <1>2, <1>6, <1>10 DEF AfterVarint
    <2>3. QED
      BY <2>1, <2>2, Offsets
  <1>12. UpdateOffset(a) /\ IF p.runs[i].enc = "RLE" THEN GotoDecodeRle(i) ELSE GotoDecodeBpe(i, left)
    BY <1>2, <1>9, <1>11 DEF GotoDecode
  <1>13. /\ WindowInv(p)' /\ page' = page /\ pages' = pages /\ taken' = taken
         /\ beats' = beats /\ End' = End /\ last_received' = last_received
         /\ lo' \in 0..beats' /\ hi' \in 0..beats'
         /\ offset' \in 0..(NumBytes - 1) /\ offset' = Trim(a)
         /\ a < NumBytes => Filled' = Filled /\ Base' = Base /\ offset' = a
         /\ a >= NumBytes => Filled' = Filled - 1 /\ Base' = Base + NumBytes /\ offset' = a - NumBytes
    BY <1>4, <1>8, <1>11, <1>12, Moved
  <1>14. PICK o \in 0..(NumBytes - 1), base \in Nat :
           /\ o = offset' /\ base = Base' /\ o = Trim(a)
           /\ a < NumBytes => base = Base /\ o = a
           /\ a >= NumBytes => base = Base + NumBytes /\ o = a - NumBytes
    BY <1>1, <1>5, <1>13
  <1>14a. base + o = at + hlen /\ (Filled' = 2 => a < NumBytes /\ Filled = 2)
    <2>1. base + o = Base + a
      BY <1>1, <1>5, <1>14
    <2>2. Base + a = at + hlen
      BY <1>5, <1>6, <1>10
    <2>3. a >= NumBytes => Filled' # 2
      BY <1>5, <1>13
    <2>4. a < NumBytes => Filled' = Filled
      BY <1>13
    <2>5. QED
      BY <1>1, <2>1, <2>2, <2>3, <2>4
  <1>15. Packed = 2 * w /\ RleWidth = c
    BY <1>2, Inputs
  <1>16. ASSUME NEW x \in 0..(2 * NumBytes - 1)
         PROVE  ReadsAt(ReadVarint(page, lo, hi, last_received, x), p, last_received, beats, Base + x)
    BY <1>4, ReadsWindow
  <1>17. CASE p.runs[i].enc = "RLE"
    <2>1. GotoDecodeRle(i)
      BY <1>12, <1>17
    <2>2. a + c \in 0..(2 * NumBytes - 1) /\ o + c \in 0..(2 * NumBytes - 1)
      BY <1>1
    <2>3. /\ state' = "DECODE_RLE" /\ count' = n0 /\ varint_offset' = o + c
          /\ bpe_remaining_inputs' = bpe_remaining_inputs
          /\ varint' = ReadVarint(page, lo, hi, last_received, a + c)
      <3>1. Offset(a + c) = a + c /\ Offset(o + c) = o + c /\ Trim(AfterVarint(i)) = o
        BY <1>11, <1>14, <2>2, Offsets
      <3>2. QED
        BY <1>2, <1>11, <1>15, <2>1, <3>1 DEF GotoDecodeRle
    <2>4. next = at + hlen + c
      <3>1. RunBytes(p, i) = hlen + c
        BY <1>2, <1>17, Zenon DEF RunBytes
      <3>2. QED
        BY <1>4, <3>1
    <2>5. ReadsAt(varint', p, last_received, beats, next)
      <3>1. Base + (a + c) = next
        BY <1>5, <1>6, <1>10, <2>4
      <3>2. QED
        BY <1>16, <2>2, <2>3, <3>1
    <2>6. Registers'
      <3>1. beats' \in Nat /\ {lo', hi'} \subseteq 0..beats' /\ offset' \in 0..(NumBytes - 1)
        BY <1>5, <1>13
      <3>2. {store_in_second_half', last_received'} \subseteq BOOLEAN
        BY <1>13 DEF WindowInv
      <3>3. varint_offset' \in 0..(Window - 1)
        BY <1>1, <2>2, <2>3
      <3>4. {varint'.at, varint'.row} \subseteq -1..(NumBytes * beats') /\ varint'.valid \in BOOLEAN
        BY <1>8, <1>13, <2>5 DEF ReadsAt
      <3>5. {remaining_values', count', bpe_remaining_inputs'} \subseteq Nat
        BY <1>2, <2>3 DEF Registers
      <3>6. QED
        BY <3>1, <3>2, <3>3, <3>4, <3>5 DEF Registers, Window
    <2>7. RleInv(p, i)'
      <3>1. p.runs[i].enc = "RLE" /\ count' = p.runs[i].count
        BY <1>2, <1>17, <2>3
      <3>2. Base' + offset' + CeilDiv(p.bit_width, 8) = HeaderAt(p, i + 1)
        <4>1. base + o + c = next
          BY <1>14a, <2>4
        <4>2. QED
          BY <1>2, <1>4, <1>14, <4>1
      <3>3. ASSUME i < n
            PROVE AtHeader(p, i + 1)' /\ Given(p, i + 1)' /\ HeaderAt(p, i + 1) <= End'
        <4>1. Base' + varint_offset' = next
          <5>1. base + (o + c) = next
            BY <1>14a, <2>4
          <5>2. QED
            BY <1>14, <2>3, <5>1
        <4>2. varint_offset' <= NumBytes + 3
          BY <1>1, <2>3
        <4>3. Filled' = 2 => varint_offset' + 1 + 2 * p.bit_width >= NumBytes
          <5>1. Filled' = 2 => (o + c) + 1 + 2 * w >= NumBytes
            <6>1. SUFFICES ASSUME Filled' = 2 PROVE (o + c) + 1 + 2 * w >= NumBytes
              OBVIOUS
            <6>2. o = a /\ vo + 1 + 2 * w >= NumBytes
              BY <1>6, <1>14, <1>14a, <6>1
            <6>3. QED
              BY <1>1, <1>10, <6>2
          <5>2. QED
            BY <1>2, <2>3, <5>1
        <4>4. AtHeader(p, i + 1)'
          BY <1>4, <4>1, <4>2, <4>3 DEF AtHeader
        <4>5. Reading(varint', p, last_received', End', next)
          BY <1>13, <2>5 DEF ReadsAt, End
        <4>6. Given(p, i + 1)'
          BY <1>4, <4>5 DEF Given, Reading
        <4>7. hlen + c <= 4
          <5>1. i \in 1..(Len(p.runs) - 1)
            BY <1>3, <3>3
          <5>2. ~LateHeader(p)
            BY DEF Decodable
          <5>3. ~(p.runs[i].hlen + CeilDiv(p.bit_width, 8) > 4)
            BY <3>1, <5>1, <5>2 DEF LateHeader
          <5>4. ~(hlen + c > 4)
            BY <1>2, <5>3
          <5>5. QED
            BY <5>4
        <4>8. next <= End
          BY <1>4a, <1>5, <1>7, <2>4, <4>7
        <4>9. QED
          BY <1>4, <1>13, <4>4, <4>6, <4>8
      <3>4. QED
        BY <1>3, <3>1, <3>2, <3>3 DEF RleInv
    <2>8. RunAt(p, i, 0)'
      BY <2>3, <2>7 DEF RunAt
    <2>9. QED
      BY <1>13, <2>3, <2>6, <2>8
  <1>18. CASE p.runs[i].enc # "RLE"
    <2>1. GotoDecodeBpe(i, left) /\ p.runs[i].enc = "BPE"
      BY <1>2, <1>12, <1>18 DEF Run
    <2>2. PICK k \in Nat, size \in Nat :
            /\ k = n0 \div 16 /\ size = BytesLeft(p, i, k) /\ size = BpeBytes(n0)
            /\ n0 = ValuesLeft(p, i, k) /\ next = at + hlen + size
      <3>1. /\ n0 \div NumElements \in Nat
            /\ BpeBytes(n0) = BytesLeft(p, i, n0 \div NumElements)
            /\ n0 = ValuesLeft(p, i, n0 \div NumElements)
            /\ next = at + hlen + BpeBytes(n0)
        BY <1>2, <1>4, <2>1, Inputs
      <3>2. PICK k \in Nat : k = n0 \div 16
        BY <1>1, <3>1
      <3>3. k * (2 * w) \in Nat
        OBVIOUS
      <3>4. BytesLeft(p, i, k) \in Nat
        <4>1. BytesLeft(p, i, k) = k * (2 * w) + (IF GroupBeyond(p, i) THEN w ELSE 0)
          BY <1>2, Zenon DEF BytesLeft
        <4>2. QED
          BY <3>3, <4>1
      <3>5. QED
        BY <1>1, <3>1, <3>2, <3>4
    <2>2a. next = at + hlen + size
      BY <2>2
    <2>3. /\ state' = "DECODE_BPE" /\ count' = (IF left < n0 THEN left ELSE n0)
          /\ bpe_remaining_inputs' = k /\ varint_offset' = Trim(a + size)
          /\ varint' = IF k <= 1 THEN ReadVarint(page, lo, hi, last_received, Offset(a + size))
                       ELSE [varint EXCEPT !.valid = FALSE]
      <3>1. a + size \in Nat /\ Trim(Offset(a + size)) = Trim(a + size)
        BY Offsets
      <3>2. QED
        BY <1>1, <1>2, <1>11, <2>1, <2>2, <3>1 DEF GotoDecodeBpe
    <2>4. left >= 1 /\ (i < n => left > n0) /\ (i = n => left <= n0)
          /\ (i < n => left - n0 = p.num_values - ValuesBefore(p, i + 1))
      <3>1. PICK v \in Nat, u \in Nat : v = ValuesBefore(p, i) /\ u = ValuesBefore(p, i + 1)
        BY <1>3, PageFacts
      <3>2. u = v + n0 /\ v < p.num_values /\ (i < n => u < p.num_values) /\ p.num_values \in Nat
        BY <1>2, <1>3, <3>1, PageFacts
      <3>3. i = n => p.num_values <= u
        BY <1>3, <3>1 DEF Decodable
      <3>4. QED
        <4>1. left = p.num_values - v /\ p.num_values \in Nat
          BY <3>1, <3>2
        <4>2. u = v + n0 /\ v < p.num_values /\ (i < n => u < p.num_values) /\ (i = n => p.num_values <= u)
          BY <3>2, <3>3
        <4>3. PICK total \in Nat : total = p.num_values
          BY <3>2
        <4>4. left = total - v /\ v < total /\ (i < n => u < total) /\ (i = n => total <= u)
          BY <4>1, <4>2, <4>3
        <4>5. /\ left >= 1 /\ (i < n => left > n0) /\ (i = n => left <= n0)
              /\ (i < n => left - n0 = total - u)
          BY <4>2, <4>4
        <4>6. QED
          BY <3>1, <4>3, <4>5
    <2>5. /\ varint'.valid \in BOOLEAN
          /\ {varint'.at, varint'.row} \subseteq -1..(NumBytes * beats)
      <3>1. CASE k <= 1
        <4>1. Offset(a + size) \in 0..(2 * NumBytes - 1)
          <5>1. a + size \in Nat
            OBVIOUS
          <5>2. QED
            BY <5>1, Offsets
        <4>2. varint' = ReadVarint(page, lo, hi, last_received, Offset(a + size))
          BY <2>3, <3>1
        <4>3. QED
          BY <1>8, <1>16, <4>1, <4>2 DEF ReadsAt
      <3>2. CASE ~(k <= 1)
        <4>1. varint' = [varint EXCEPT !.valid = FALSE]
          BY <2>3, <3>2
        <4>2. QED
          BY <4>1 DEF Registers
      <3>3. QED
        BY <3>1, <3>2
    <2>6. Registers'
      <3>1. beats' \in Nat /\ {lo', hi'} \subseteq 0..beats' /\ offset' \in 0..(NumBytes - 1)
        BY <1>5, <1>13
      <3>2. {store_in_second_half', last_received'} \subseteq BOOLEAN
        BY <1>13 DEF WindowInv
      <3>3. varint_offset' \in 0..(Window - 1)
        <4>1. a + size \in Nat
          OBVIOUS
        <4>2. varint_offset' \in 0..(NumBytes - 1)
          BY <2>3, <4>1, Offsets
        <4>3. QED
          BY <1>1, <4>2
      <3>4. {remaining_values', count', bpe_remaining_inputs'} \subseteq Nat
        BY <1>2, <2>3
      <3>5. QED
        BY <1>13, <2>5, <3>1, <3>2, <3>3, <3>4 DEF Registers, Window
    <2>7. varint_offset' = Trim(next) /\ Trim(at) = Trim(vo)
      <3>1. next = Base + (a + size) /\ a + size \in Nat
        BY <1>5, <1>6, <1>10, <2>2a
      <3>2. Trim(Base + (a + size)) = Trim(a + size) /\ Trim(Base + vo) = Trim(vo)
        <4>1. vo \in Nat
          BY <1>1
        <4>2. QED
          BY <1>4, <3>1, <4>1, TrimAt
      <3>3. QED
        BY <1>6, <2>3, <3>1, <3>2
    <2>8. PICK beyond \in {0, 1} :
            /\ beyond = (IF GroupBeyond(p, i) THEN 1 ELSE 0)
            /\ n0 = 16 * k + 8 * beyond /\ size = k * (2 * w) + beyond * w
      <3>1. /\ n0 = 16 * k + (IF GroupBeyond(p, i) THEN 8 ELSE 0)
            /\ size = k * (2 * w) + (IF GroupBeyond(p, i) THEN w ELSE 0)
        BY <1>2, <2>2, Zenon DEF ValuesLeft, BytesLeft
      <3>2. CASE GroupBeyond(p, i)
        <4>1. n0 = 16 * k + 8 * 1 /\ size = k * (2 * w) + 1 * w
          BY <3>1, <3>2
        <4>2. QED
          BY <3>2, <4>1
      <3>3. CASE ~GroupBeyond(p, i)
        <4>1. n0 = 16 * k + 8 * 0 /\ size = k * (2 * w) + 0 * w
          BY <3>1, <3>3
        <4>2. QED
          BY <3>3, <4>1
      <3>4. QED
        BY <3>2, <3>3
    <2>9. ASSUME i < n, n0 <= 16
          PROVE  /\ o + size < NumBytes /\ varint_offset' = o + size
                 /\ ReadsAt(varint', p, last_received, beats, next)
      <3>1. k <= 1 /\ size <= 2 * w
        <4>1. k = 0 \/ (k = 1 /\ beyond = 0)
          BY <2>8, <2>9
        <4>2. CASE k = 0
          BY <2>8, <4>2
        <4>3. CASE k = 1 /\ beyond = 0
          BY <2>8, <4>3
        <4>4. QED
          BY <4>1, <4>2, <4>3
      <3>2. ~(Trim(at) + hlen < NumBytes /\ Trim(at) + (hlen + size) >= NumBytes)
        <4>1. i \in 1..(Len(p.runs) - 1)
          BY <1>3, <2>9
        <4>2. RunBytes(p, i) = hlen + size
          <5>1. next = at + RunBytes(p, i) /\ RunBytes(p, i) \in Nat
            BY <1>4
          <5>2. QED
            BY <2>2a, <5>1
        <4>3. p.runs[i].enc = "BPE" /\ p.runs[i].count <= NumElements
          BY <1>1, <1>2, <2>1, <2>9
        <4>4. ~UnmovedHeader(p)
          BY DEF Decodable
        <4>5. ~((HeaderAt(p, i) % NumBytes) + p.runs[i].hlen < NumBytes
                  /\ (HeaderAt(p, i) % NumBytes) + RunBytes(p, i) >= NumBytes)
          BY <4>1, <4>3, <4>4, Zenon DEF UnmovedHeader
        <4>6. QED
          BY <1>2, <1>4, <4>2, <4>5, Zenon DEF Trim
      <3>3. Trim(at) = Trim(vo)
        BY <2>7
      <3>4. o + size < NumBytes
        <4>1. CASE vo < NumBytes
          <5>1. Trim(at) = vo
            <6>1. vo \in 0..(NumBytes - 1)
              BY <1>1, <4>1
            <6>2. QED
              BY <3>3, <6>1, Offsets
          <5>2. CASE a < NumBytes
            BY <1>1, <1>10, <1>14, <3>2, <5>1, <5>2
          <5>3. CASE a >= NumBytes
            BY <1>1, <1>2a, <1>10, <1>14, <3>1, <4>1, <5>3
          <5>4. QED
            BY <1>1, <5>2, <5>3
        <4>2. CASE vo >= NumBytes
          <5>1. Trim(at) = vo - NumBytes
            <6>1. vo \in NumBytes..(2 * NumBytes - 1)
              BY <1>1, <4>2
            <6>2. QED
              BY <3>3, <6>1, Offsets
          <5>2. vo - NumBytes <= 3 /\ a >= NumBytes
            BY <1>1, <1>6, <1>10, <4>2
          <5>3. QED
            BY <1>1, <1>10, <1>14, <3>2, <5>1, <5>2
        <4>3. QED
          BY <1>1, <4>1, <4>2
      <3>5. a + size \in 0..(2 * NumBytes - 1) /\ Trim(a + size) = o + size
        <4>1. CASE a < NumBytes
          <5>1. a + size \in 0..(NumBytes - 1) /\ a + size = o + size
            BY <1>1, <1>14, <3>4, <4>1
          <5>2. Trim(a + size) = o + size
            BY <5>1, Offsets
          <5>3. QED
            BY <1>1, <5>1, <5>2
        <4>2. CASE a >= NumBytes
          <5>1. a + size \in NumBytes..(2 * NumBytes - 1) /\ (a + size) - NumBytes = o + size
            BY <1>1, <1>14, <3>4, <4>2
          <5>2. Trim(a + size) = o + size
            BY <5>1, Offsets
          <5>3. QED
            BY <1>1, <5>1, <5>2
        <4>3. QED
          BY <1>1, <4>1, <4>2
      <3>6. Offset(a + size) = a + size
        BY <3>5, Offsets
      <3>7. Base + (a + size) = next
        BY <1>5, <1>6, <1>10, <2>2a
      <3>8. ReadsAt(varint', p, last_received, beats, next)
        BY <1>16, <2>3, <3>1, <3>5, <3>6, <3>7
      <3>9. QED
        BY <2>3, <3>4, <3>5, <3>8
    <2>10. BpeInv(p, i)'
      <3>1. /\ BytesLeft(p, i, bpe_remaining_inputs)' = size
            /\ ValuesLeft(p, i, bpe_remaining_inputs)' = n0
        BY <2>2, <2>3 DEF BytesLeft, ValuesLeft, GroupBeyond
      <3>2. count' >= 1 /\ count' <= n0
        <4>1. count' = IF left < n0 THEN left ELSE n0
          BY <2>3
        <4>2. left >= 1 /\ n0 >= 1
          BY <1>2a, <2>4
        <4>3. QED
          BY <4>1, <4>2
      <3>3. Base' + offset' + size = next
        BY <1>14, <1>14a, <2>2a
      <3>4. Filled' = 2 => offset' + 2 * w >= NumBytes
        <4>1. SUFFICES ASSUME Filled' = 2 PROVE o + 2 * w >= NumBytes
          BY <1>14
        <4>2. o = a /\ vo + 1 + 2 * w >= NumBytes
          BY <1>6, <1>14, <1>14a, <4>1
        <4>3. QED
          BY <1>1, <1>10, <4>2
      <3>5. i = n => remaining_values' = count'
        <4>1. SUFFICES ASSUME i = n PROVE remaining_values' = count'
          OBVIOUS
        <4>2. left <= n0
          BY <2>4, <4>1
        <4>3. (IF left < n0 THEN left ELSE n0) = left
          BY <4>2
        <4>4. QED
          BY <2>3, <4>3
      <3>6. ASSUME i < n
            PROVE  count' = n0 /\ remaining_values' - count' = p.num_values - ValuesBefore(p, i + 1)
        <4>1. left > n0 /\ left - n0 = p.num_values - ValuesBefore(p, i + 1)
          BY <2>4, <3>6
        <4>2. count' = n0
          <5>1. left > n0
            BY <4>1
          <5>2. (IF left < n0 THEN left ELSE n0) = n0
            BY <5>1
          <5>3. QED
            BY <2>3, <5>2
        <4>3. remaining_values' = left
          OBVIOUS
        <4>4. QED
          BY <4>1, <4>2, <4>3
      <3>7. ASSUME i < n, n0 <= 16 \/ k = 0
            PROVE  /\ Base' + varint_offset' = next /\ Given(p, i + 1)' /\ varint_offset' < NumBytes
        <4>1. n0 <= 16
          BY <2>8, <3>7
        <4>2. /\ o + size < NumBytes /\ varint_offset' = o + size
              /\ ReadsAt(varint', p, last_received, beats, next)
          BY <2>9, <3>7, <4>1
        <4>3. Reading(varint', p, last_received', End', next)
          BY <1>13, <4>2 DEF ReadsAt, End
        <4>4. Given(p, i + 1)'
          BY <1>4, <4>3 DEF Given, Reading
        <4>5. Base' + varint_offset' = next
          <5>1. base + (o + size) = next
            BY <1>14a, <2>2a
          <5>2. QED
            BY <1>14, <4>2, <5>1
        <4>6. QED
          BY <4>2, <4>4, <4>5
      <3>8. varint'.valid => n0 <= 24
        <4>1. CASE k <= 1
          BY <2>8, <4>1
        <4>2. CASE ~(k <= 1)
          <5>1. varint' = [varint EXCEPT !.valid = FALSE]
            BY <2>3, <4>2
          <5>2. QED
            BY <5>1
        <4>3. QED
          BY <4>1, <4>2
      <3>9. QED
        BY <1>2, <1>3, <1>4, <2>1, <2>3, <2>7, <3>1, <3>2, <3>3, <3>4, <3>5, <3>6, <3>7, <3>8 DEF BpeInv
    <2>11. Unpacked(p, i, 0)'
      <3>1. count' = RunValues(p, i)
        <4>1. CASE i = n
          <5>1. RunValues(p, i) = left
            BY <1>3, <4>1 DEF RunValues
          <5>2. count' = left
            BY <2>3, <2>4, <4>1
          <5>3. QED
            BY <5>1, <5>2
        <4>2. CASE i # n
          <5>1. RunValues(p, i) = n0
            BY <1>2, <1>3, <4>2 DEF RunValues
          <5>2. i < n
            BY <1>3, <4>2
          <5>3. ~(left < n0)
            <6>1. left > n0
              BY <2>4, <5>2
            <6>2. QED
              BY <6>1
          <5>4. count' = n0
            BY <2>3, <5>3, Zenon
          <5>5. QED
            BY <5>1, <5>4
        <4>3. QED
          BY <4>1, <4>2
      <3>2. bpe_remaining_inputs' = p.runs[i].count \div 16 /\ bpe_remaining_inputs' \in Nat
        BY <1>2, <2>2, <2>3
      <3>3. count' \in Nat
        BY <2>6 DEF Registers
      <3>4. QED
        BY <3>1, <3>2, <3>3 DEF Unpacked
    <2>12. RunAt(p, i, 0)'
      BY <2>3, <2>10, <2>11 DEF RunAt
    <2>13. QED
      BY <1>13, <2>3, <2>6, <2>12
  <1>19. QED
    BY <1>17, <1>18

-----------------------------------------------------------------------------
(* Input.                                                                  *)

LEMMA PageSize ==
  ASSUME Sizes, NEW p, Decodable(p)
  PROVE  PageBytes(p) \in Nat /\ PageBytes(p) >= 1
  <1>1. PICK n \in Nat : n = Len(p.runs) /\ n >= 1
    BY PageFacts
  <1>2. n \in 1..n /\ n + 1 \in 1..(n + 1)
    BY <1>1
  <1>3. HeaderAt(p, n + 1) \in Nat /\ HeaderAt(p, n) < PageBytes(p) /\ HeaderAt(p, n) \in Nat
    <2>1. n \in 1..(n + 1)
      BY <1>1
    <2>2. QED
      BY <1>1, <1>2, <2>1, PageFacts
  <1>4. PageBytes(p) = HeaderAt(p, n + 1)
    BY <1>1 DEF PageBytes
  <1>5. QED
    BY <1>3, <1>4

\* One more databeat brings the header in, or part of it.
LEMMA HeaderInputKeeps ==
  ASSUME Sizes, NEW p, p = page, Decodable(p), NEW i \in 1..Len(p.runs), WindowInv(p), Registers,
         HeaderInv(p, i), HeaderInput
  PROVE  pages' = pages /\ taken' = taken /\ page' = p /\ Registers' /\ WindowInv(p)' /\ RunAt(p, i, 0)'
  <1>1. NumBytes \in Nat /\ NumBytes >= 16 /\ Window = 2 * NumBytes
    BY DEF Sizes, Window
  <1>2. PageBytes(p) \in Nat
    BY PageSize
  <1>3. PICK at \in Nat, bytes \in Nat : at = HeaderAt(p, i) /\ bytes = PageBytes(p) /\ at < bytes
    <2>1. Len(p.runs) \in Nat /\ i \in 1..(Len(p.runs) + 1)
      BY PageFacts
    <2>2. HeaderAt(p, i) \in Nat
      BY <2>1, PageFacts
    <2>3. HeaderAt(p, i) < PageBytes(p)
      BY PageFacts
    <2>4. QED
      BY <1>2, <2>2, <2>3
  <1>4. /\ Filled \in 0..2 /\ Base \in Nat /\ End \in Nat /\ beats \in Nat
        /\ Filled = 0 => End = Base
        /\ Filled = 1 => End = Base + NumBytes
        /\ Filled = 2 => End = Base + 2 * NumBytes
    BY <1>2, WindowFacts
  <1>5. PICK vo \in 0..(2 * NumBytes - 1) : vo = varint_offset /\ Base + vo = at /\ vo <= NumBytes + 3
    BY <1>1, <1>3 DEF Registers, HeaderInv, AtHeader
  <1>6. /\ StoreInput /\ ~varint.valid /\ state' = "HEADER2"
        /\ varint' = ReadVarint(page, NextLo, NextHi, NextLast, varint_offset)
        /\ varint_offset' = varint_offset /\ offset' = offset /\ remaining_values' = remaining_values
        /\ count' = count /\ bpe_remaining_inputs' = bpe_remaining_inputs
    BY DEF HeaderInput
  <1>7. (last_received => ~(at < bytes)) /\ (~last_received => ~(at + 3 < End))
    <2>1. varint.valid = IF last_received THEN at < bytes ELSE at + 3 < End
      BY <1>3 DEF HeaderInv, Given, Reading
    <2>2. QED
      BY <1>6, <2>1, Zenon
  <1>8. ~last_received /\ at + 3 >= End
    BY <1>3, <1>4, <1>7
  <1>9. vo + 3 >= NumBytes \/ Filled = 0
    BY <1>1, <1>4, <1>5, <1>8
  <1>10. Filled <= 1
    BY <1>1, <1>4, <1>5, <1>8
  <1>11. /\ WindowInv(p)' /\ page' = page /\ beats' = beats + 1
         /\ Filled' = Filled + 1 /\ Base' = Base
         /\ lo' \in 0..beats' /\ hi' \in 0..beats'
    BY <1>2, <1>6, <1>10, Stored
  <1>12. varint' = ReadVarint(p, lo', hi', last_received', vo)
    BY <1>5, <1>6 DEF StoreInput
  <1>13. ReadsAt(varint', p, last_received', beats', at)
    <2>1. PICK b \in Nat, f \in 0..2, lst \in BOOLEAN :
            /\ b = beats' /\ f = Filled' /\ lst = last_received'
            /\ Holds(lo', hi', b, f) /\ lst = (b * NumBytes >= PageBytes(p))
      <3>1. beats' \in Nat /\ Filled' \in 0..2 /\ last_received' \in BOOLEAN
        BY <1>4, <1>10, <1>11 DEF WindowInv
      <3>2. Holds(lo', hi', beats', Filled') /\ last_received' = (beats' * NumBytes >= PageBytes(p))
        BY <1>11 DEF WindowInv, End
      <3>3. QED
        BY <3>1, <3>2
    <2>2. ReadsAt(ReadVarint(p, lo', hi', lst, vo), p, lst, b, (b - f) * NumBytes + vo)
      BY <1>2, <2>1, ReadVarintReads
    <2>3. (b - f) * NumBytes = Base
      BY <1>11, <2>1 DEF Base
    <2>4. QED
      BY <1>5, <1>12, <2>1, <2>2, <2>3
  <1>14. Registers'
    <2>1. beats' \in Nat /\ {lo', hi'} \subseteq 0..beats'
      BY <1>4, <1>11
    <2>2. {store_in_second_half', last_received'} \subseteq BOOLEAN
      BY <1>11 DEF WindowInv
    <2>3. {varint'.at, varint'.row} \subseteq -1..(NumBytes * beats') /\ varint'.valid \in BOOLEAN
      BY <1>4, <1>11, <1>13 DEF ReadsAt
    <2>4. QED
      BY <1>6, <2>1, <2>2, <2>3 DEF Registers, Window
  <1>15. HeaderInv(p, i)'
    <2>1. Filled' = 2 => varint_offset' + 1 + 2 * p.bit_width >= NumBytes
      <3>1. PICK w \in 1..32 : w = p.bit_width
        BY DEF Decodable, Page
      <3>2. Filled' = 2 => vo + 1 + 2 * w >= NumBytes
        BY <1>1, <1>4, <1>9, <1>11
      <3>3. QED
        BY <1>5, <1>6, <3>1, <3>2
    <2>2. AtHeader(p, i)'
      BY <1>3, <1>5, <1>6, <1>11, <2>1 DEF AtHeader
    <2>3. Given(p, i)'
      BY <1>3, <1>13 DEF Given, ReadsAt, Reading, End
    <2>4. remaining_values' = p.num_values - ValuesBefore(p, i)
      BY <1>6 DEF HeaderInv
    <2>5. QED
      BY <2>2, <2>3, <2>4 DEF HeaderInv
  <1>16. RunAt(p, i, 0)'
    BY <1>6, <1>15 DEF RunAt
  <1>17. QED
    BY <1>6, <1>11, <1>14, <1>16 DEF StoreInput

\* One more databeat brings in what is missing of a run's payload.
LEMMA PayloadInputKeeps ==
  ASSUME Sizes, NEW p, p = page, Decodable(p), NEW i \in 1..Len(p.runs), WindowInv(p), Registers,
         NEW j \in Nat, RunAt(p, i, j), PayloadInput
  PROVE  pages' = pages /\ taken' = taken /\ page' = p /\ Registers' /\ WindowInv(p)' /\ RunAt(p, i, j)'
  <1>0. /\ state = "DECODE_RLE" => RleInv(p, i) /\ j = 0
        /\ state = "DECODE_BPE" => BpeInv(p, i) /\ Unpacked(p, i, j)
    BY DEF RunAt
  <1>1. NumBytes \in Nat /\ NumBytes >= 16 /\ Window = 2 * NumBytes
    BY DEF Sizes, Window
  <1>2. PICK w \in 1..32, c \in 1..4 :
          /\ w = p.bit_width /\ c = CeilDiv(p.bit_width, 8) /\ 3 * w <= NumBytes
          /\ Packed = 2 * w /\ RleWidth = c
    BY RunSizes, Inputs
  <1>3. PICK bytes \in Nat, next \in Nat, n \in Nat :
          /\ bytes = PageBytes(p) /\ n = Len(p.runs) /\ next = HeaderAt(p, i + 1) /\ next <= bytes
    <2>1. Len(p.runs) \in Nat /\ i + 1 \in 1..(Len(p.runs) + 1)
      BY PageFacts
    <2>2. HeaderAt(p, i + 1) \in Nat /\ HeaderAt(p, i + 1) <= PageBytes(p)
      BY <2>1, PageFacts
    <2>3. QED
      BY <2>1, <2>2, PageSize
  <1>4. /\ Filled \in 0..2 /\ Base \in Nat /\ End \in Nat /\ beats \in Nat
        /\ Filled = 0 => End = Base
        /\ Filled = 1 => End = Base + NumBytes
        /\ Filled = 2 => End = Base + 2 * NumBytes
        /\ ~last_received => End < bytes
        /\ \A o \in Nat : Pos(lo, hi, o) = IF Base + o < End THEN Base + o ELSE None
    BY <1>3, WindowFacts
  <1>5. /\ StoreInput /\ ~last_received /\ state' = state
        /\ varint' = varint /\ varint_offset' = varint_offset /\ offset' = offset
        /\ remaining_values' = remaining_values
        /\ count' = count /\ bpe_remaining_inputs' = bpe_remaining_inputs
    BY DEF PayloadInput, run_vars
  <1>6. \A o \in Nat : Keep(page, lo, hi, o) <=> Base + o < End
    <2>1. SUFFICES ASSUME NEW o \in Nat PROVE Keep(page, lo, hi, o) <=> Base + o < End
      OBVIOUS
    <2>2. Keep(page, lo, hi, o) <=> Pos(lo, hi, o) # -1 /\ Pos(lo, hi, o) < bytes
      BY <1>3 DEF Keep, None
    <2>3. Pos(lo, hi, o) = IF Base + o < End THEN Base + o ELSE -1
      BY <1>4 DEF None
    <2>4. QED
      BY <1>4, <1>5, <2>2, <2>3
  <1>7. PICK off \in 0..(NumBytes - 1) : off = offset
    BY DEF Registers
  <1>8. state \in {"DECODE_RLE", "DECODE_BPE"}
    BY DEF PayloadInput
  <1>9. ASSUME state = "DECODE_RLE"
        PROVE  i = n /\ Filled <= 1
    <2>1. ~RleKept
      BY <1>9 DEF PayloadInput
    <2>2. PICK x \in 0..(c - 1) : ~Keep(page, lo, hi, off + x)
      BY <1>2, <1>7, <2>1 DEF RleKept
    <2>3. Base + (off + x) >= End
      <3>1. off + x \in Nat
        OBVIOUS
      <3>2. ~(Base + (off + x) < End)
        BY <1>6, <1>7, <2>2, <3>1
      <3>3. QED
        BY <1>4, <3>1, <3>2
    <2>4. Base + off + c = next
      BY <1>0, <1>2, <1>3, <1>7, <1>9 DEF RleInv
    <2>5. next > End
      BY <1>4, <2>3, <2>4
    <2>6. i = n
      <3>1. i < n => next <= End
        BY <1>0, <1>3, <1>9 DEF RleInv
      <3>2. QED
        BY <1>3, <1>4, <2>5, <3>1
    <2>7. Filled <= 1
      BY <1>1, <1>4, <2>3
    <2>8. QED
      BY <2>6, <2>7
  <1>10. ASSUME state = "DECODE_BPE"
         PROVE  Filled <= 1 /\ (Filled = 1 => off + 2 * w >= NumBytes)
    <2>1. ~(Keep(page, lo, hi, off) /\ Keep(page, lo, hi, off + 2 * w - 1))
      BY <1>2, <1>7, <1>10 DEF PayloadInput, BpeKept
    <2>2. off + 2 * w - 1 \in Nat /\ off \in Nat
      BY <1>1
    <2>3. Base + (off + 2 * w - 1) >= End
      BY <1>4, <1>6, <2>1, <2>2
    <2>4. 2 * w <= NumBytes
      BY <1>1, <1>2
    <2>5. QED
      BY <1>1, <1>4, <2>3, <2>4
  <1>11. Filled <= 1
    BY <1>8, <1>9, <1>10
  <1>12. /\ WindowInv(p)' /\ page' = page /\ beats' = beats + 1
         /\ Filled' = Filled + 1 /\ Base' = Base /\ End' = End + NumBytes
         /\ lo' \in 0..beats' /\ hi' \in 0..beats'
         /\ last_received' => End' >= bytes
         /\ ~last_received' => End' < bytes
    BY <1>3, <1>5, <1>11, Stored
  <1>13. Registers'
    <2>1. beats' \in Nat /\ {lo', hi'} \subseteq 0..beats'
      BY <1>4, <1>12
    <2>2. {store_in_second_half', last_received'} \subseteq BOOLEAN
      BY <1>12 DEF WindowInv
    <2>3. {varint'.at, varint'.row} \subseteq -1..(NumBytes * beats') /\ varint'.valid \in BOOLEAN
      <3>1. NumBytes * beats <= NumBytes * beats'
        BY <1>1, <1>4, <1>12
      <3>2. {varint.at, varint.row} \subseteq -1..(NumBytes * beats) /\ varint.valid \in BOOLEAN
        BY DEF Registers
      <3>3. NumBytes * beats \in Nat /\ NumBytes * beats' \in Nat
        BY <1>1, <1>4, <1>12
      <3>4. QED
        BY <1>5, <3>1, <3>2, <3>3
    <2>4. QED
      BY <1>5, <2>1, <2>2, <2>3 DEF Registers, Window
  <1>14. CASE state = "DECODE_RLE"
    <2>1. RleInv(p, i)'
      BY <1>0, <1>3, <1>5, <1>9, <1>12, <1>14 DEF RleInv
    <2>2. QED
      BY <1>0, <1>5, <1>12, <1>13, <1>14, <2>1 DEF RunAt, StoreInput
  <1>15. CASE state = "DECODE_BPE"
    <2>1. ASSUME i < Len(p.runs), varint.valid, Given(p, i + 1) PROVE Given(p, i + 1)'
      <3>1. varint.valid = (next + 3 < End) /\ varint.at = next /\ (varint.row >= 4 \/ varint.row >= End - next)
        BY <1>3, <1>5, <2>1 DEF Given, Reading
      <3>2. PICK row \in Int : row = varint.row
        <4>1. varint.row \in -1..(NumBytes * beats) /\ NumBytes * beats \in Nat
          BY <1>1, <1>4 DEF Registers
        <4>2. QED
          BY <4>1
      <3>3. next + 3 < End
        BY <2>1, <3>1, Zenon
      <3>4. row >= 4
        BY <1>4, <3>1, <3>2, <3>3
      <3>5. next < bytes /\ next + 3 < End'
        BY <1>1, <1>3, <1>4, <1>5, <1>12, <3>3
      <3>6. varint.valid = IF last_received' THEN next < bytes ELSE next + 3 < End'
        BY <2>1, <3>1, <3>5
      <3>7. QED
        BY <1>3, <1>5, <2>1, <3>1, <3>2, <3>4, <3>6 DEF Given, Reading
    <2>2. BytesLeft(p, i, bpe_remaining_inputs)' = BytesLeft(p, i, bpe_remaining_inputs)
          /\ ValuesLeft(p, i, bpe_remaining_inputs)' = ValuesLeft(p, i, bpe_remaining_inputs)
      BY <1>5 DEF BytesLeft, ValuesLeft, GroupBeyond
    <2>3. Filled' = 2 => offset' + 2 * p.bit_width >= NumBytes
      BY <1>2, <1>4, <1>5, <1>7, <1>10, <1>12, <1>15
    <2>4. BpeInv(p, i)'
      BY <1>0, <1>5, <1>12, <1>15, <2>1, <2>2, <2>3 DEF BpeInv
    <2>5. Unpacked(p, i, j)'
      BY <1>0, <1>5, <1>15 DEF Unpacked
    <2>6. QED
      BY <1>5, <1>12, <1>13, <1>15, <2>4, <2>5 DEF RunAt, StoreInput
  <1>16. QED
    BY <1>8, <1>14, <1>15

-----------------------------------------------------------------------------
(* From a run to the next, or to the end of the page.                      *)

LEMMA ResetKeeps ==
  ASSUME Registers, Reset, remaining_values' \in Nat
  PROVE  pages' = pages /\ taken' = taken /\ state' = "IDLE" /\ IdleInv' /\ Registers'
  <1>1. /\ pages' = pages /\ taken' = taken /\ state' = "IDLE" /\ lo' = 0 /\ hi' = 0 /\ beats' = beats
        /\ store_in_second_half' = FALSE /\ last_received' = FALSE /\ offset' = 0
        /\ varint_offset' = 0 /\ varint' = NoVarint /\ count' = 0 /\ bpe_remaining_inputs' = 0
    BY DEF Reset, input_vars
  <1>2. IdleInv'
    BY <1>1 DEF IdleInv
  <1>3. varint'.at = -1 /\ varint'.row = 0 /\ varint'.valid = FALSE
    BY <1>1 DEF NoVarint, None
  <1>4. beats \in Nat /\ NumBytes \in Nat /\ NumBytes >= 1 /\ NumBytes * beats \in Nat
    BY DecoderSizes DEF Registers
  <1>5. /\ beats' \in Nat /\ {lo', hi'} \subseteq 0..beats'
        /\ {store_in_second_half', last_received'} \subseteq BOOLEAN
        /\ offset' \in 0..(NumBytes - 1)
    <2>1. 0 \in 0..beats /\ 0 \in 0..(NumBytes - 1)
      BY <1>4
    <2>2. lo' \in 0..beats' /\ hi' \in 0..beats' /\ beats' \in Nat
      BY <1>1, <1>4, <2>1, Zenon
    <2>3. store_in_second_half' \in BOOLEAN /\ last_received' \in BOOLEAN
      BY <1>1
    <2>4. QED
      BY <1>1, <2>1, <2>2, <2>3, Zenon
  <1>6. varint_offset' \in 0..(Window - 1)
    BY <1>1, <1>4 DEF Window
  <1>7. {varint'.at, varint'.row} \subseteq -1..(NumBytes * beats') /\ varint'.valid \in BOOLEAN
    <2>1. PICK e \in Nat : e = NumBytes * beats /\ e = NumBytes * beats'
      BY <1>1, <1>4
    <2>2. varint'.at \in -1..e /\ varint'.row \in -1..e
      BY <1>3
    <2>3. QED
      BY <1>3, <2>1, <2>2
  <1>8. {remaining_values', count', bpe_remaining_inputs'} \subseteq Nat
    BY <1>1
  <1>9. Registers'
    BY <1>5, <1>6, <1>7, <1>8 DEF Registers, Window
  <1>10. QED
    BY <1>1, <1>2, <1>9

LEMMA WindowKept ==
  ASSUME NEW p, p = page, WindowInv(p), UNCHANGED <<input_vars, window>>
  PROVE  /\ pages' = pages /\ taken' = taken /\ page' = p /\ WindowInv(p)'
         /\ beats' = beats /\ Filled' = Filled /\ Base' = Base /\ End' = End
         /\ lo' = lo /\ hi' = hi /\ last_received' = last_received
         /\ store_in_second_half' = store_in_second_half
  <1>1. /\ pages' = pages /\ taken' = taken /\ page' = p /\ beats' = beats
        /\ lo' = lo /\ hi' = hi /\ last_received' = last_received
        /\ store_in_second_half' = store_in_second_half
    BY DEF input_vars, window, page
  <1>2. Filled' = Filled
    BY <1>1 DEF Filled
  <1>3. Base' = Base /\ End' = End
    BY <1>1, <1>2 DEF Base, End
  <1>4. WindowInv(p)'
    BY <1>1, <1>2, <1>3 DEF WindowInv
  <1>5. QED
    BY <1>1, <1>2, <1>3, <1>4

\* The values that are left after run i.
LEMMA ValuesAfter ==
  ASSUME Sizes, NEW p, Decodable(p), NEW i \in 1..Len(p.runs)
  PROVE  /\ p.num_values \in Nat /\ ValuesBefore(p, i) \in Nat /\ ValuesBefore(p, i + 1) \in Nat
         /\ p.runs[i].count \in Nat /\ p.runs[i].count >= 1
         /\ ValuesBefore(p, i + 1) = ValuesBefore(p, i) + p.runs[i].count
         /\ i < Len(p.runs) => i + 1 \in 1..Len(p.runs) /\ ValuesBefore(p, i + 1) < p.num_values
         /\ i = Len(p.runs) /\ p.runs[i].enc = "RLE" => p.num_values = ValuesBefore(p, i + 1)
  <1>1. PICK n \in Nat : n = Len(p.runs)
    BY PageFacts
  <1>2. i \in 1..(n + 1) /\ i + 1 \in 1..(n + 1) /\ (i < n => i + 1 \in 1..n)
    BY <1>1
  <1>3. ValuesBefore(p, i) \in Nat /\ ValuesBefore(p, i + 1) \in Nat /\ p.num_values \in Nat
    BY <1>1, <1>2, PageFacts
  <1>4. /\ ValuesBefore(p, i + 1) = ValuesBefore(p, i) + p.runs[i].count
        /\ i < n => ValuesBefore(p, i + 1) < p.num_values
    BY <1>1, PageFacts
  <1>5. p.runs[i] \in Run
    BY RunSizes
  <1>6. p.runs[i].count \in Nat /\ p.runs[i].count >= 1
    BY <1>5 DEF Run
  <1>7. i = n /\ p.runs[i].enc = "RLE" => p.num_values = ValuesBefore(p, i + 1)
    BY <1>1 DEF Decodable
  <1>8. QED
    BY <1>1, <1>2, <1>3, <1>4, <1>6, <1>7

\* A whole RLE run goes to ExpandRLE.
LEMMA FinishRleKeeps ==
  ASSUME Sizes, NEW p, p = page, Decodable(p), NEW i \in 1..Len(p.runs), WindowInv(p), Registers,
         RleInv(p, i), FinishRle
  PROVE  /\ pages' = pages /\ taken' = taken /\ Registers'
         /\ \/ state' = "IDLE" /\ IdleInv' /\ i = Len(p.runs)
            \/ page' = p /\ WindowInv(p)' /\ \E j \in 1..Len(p.runs) : j = i + 1 /\ RunAt(p, j, 0)'
  <1>1. PICK left : left = remaining_values - count /\ remaining_values' = left
    BY DEF FinishRle
  <1>2. /\ left = p.num_values - ValuesBefore(p, i + 1)
        /\ i = Len(p.runs) => left = 0
        /\ i < Len(p.runs) => left # 0
        /\ left \in Nat
    <2>1. PICK total \in Nat, u \in Nat, v \in Nat, c \in Nat :
            /\ total = p.num_values /\ u = ValuesBefore(p, i) /\ v = ValuesBefore(p, i + 1)
            /\ c = p.runs[i].count
      BY ValuesAfter
    <2>2. v = u + c /\ (i < Len(p.runs) => v < total)
      BY <2>1, ValuesAfter
    <2>3. i = Len(p.runs) => v = total
      <3>1. p.runs[i].enc = "RLE"
        BY DEF RleInv
      <3>2. QED
        BY <2>1, <3>1, ValuesAfter
    <2>4. remaining_values = total - u /\ count = c
      BY <2>1 DEF RleInv
    <2>5. left = total - v
      BY <1>1, <2>2, <2>4
    <2>6. i <= Len(p.runs) /\ Len(p.runs) \in Nat
      BY PageFacts
    <2>7. i = Len(p.runs) => left = 0
      BY <2>3, <2>5
    <2>8. i < Len(p.runs) => left \in Nat /\ left # 0
      BY <2>2, <2>5
    <2>9. i = Len(p.runs) \/ i < Len(p.runs)
      BY <2>6
    <2>10. left = p.num_values - ValuesBefore(p, i + 1)
      BY <2>1, <2>5
    <2>11. left \in Nat
      BY <2>7, <2>8, <2>9
    <2>12. QED
      BY <2>7, <2>8, <2>10, <2>11
  <1>3. CASE left = 0
    <2>1. Reset
      BY <1>1, <1>3 DEF FinishRle
    <2>2. i = Len(p.runs)
      <3>1. i <= Len(p.runs) /\ Len(p.runs) \in Nat
        BY PageFacts
      <3>2. QED
        BY <1>2, <1>3, <3>1
    <2>3. QED
      BY <1>1, <1>2, <2>1, <2>2, ResetKeeps
  <1>4. CASE left # 0
    <2>1. i < Len(p.runs)
      <3>1. i <= Len(p.runs) /\ Len(p.runs) \in Nat
        BY PageFacts
      <3>2. QED
        BY <1>2, <1>4, <3>1
    <2>2. PICK j \in 1..Len(p.runs) : j = i + 1
      BY <2>1, ValuesAfter
    <2>3. AtHeader(p, j) /\ Given(p, j) /\ left = p.num_values - ValuesBefore(p, j)
      BY <1>2, <2>1, <2>2 DEF RleInv
    <2>4. CASE varint.valid
      <3>1. GotoDecode(left)
        BY <1>1, <1>4, <2>4 DEF FinishRle
      <3>2. QED
        BY <1>1, <1>2, <2>2, <2>3, <2>4, <3>1, GotoDecodeKeeps
    <2>5. CASE ~varint.valid
      <3>1. /\ state' = "HEADER2" /\ UNCHANGED <<input_vars, window>>
            /\ offset' = offset /\ varint_offset' = varint_offset /\ varint' = varint
            /\ count' = count /\ bpe_remaining_inputs' = bpe_remaining_inputs
        BY <1>1, <1>4, <2>5 DEF FinishRle
      <3>2. /\ pages' = pages /\ taken' = taken /\ page' = p /\ WindowInv(p)'
            /\ beats' = beats /\ Filled' = Filled /\ Base' = Base /\ End' = End
            /\ lo' = lo /\ hi' = hi /\ last_received' = last_received
            /\ store_in_second_half' = store_in_second_half
        BY <3>1, WindowKept
      <3>3. Registers'
        BY <1>1, <1>2, <3>1, <3>2 DEF Registers, Window
      <3>4. HeaderInv(p, j)'
        BY <1>1, <2>3, <3>1, <3>2 DEF HeaderInv, AtHeader, Given, Reading
      <3>5. RunAt(p, j, 0)'
        BY <3>1, <3>4 DEF RunAt
      <3>6. QED
        BY <2>2, <3>2, <3>3, <3>5
    <2>6. QED
      BY <2>4, <2>5
  <1>5. QED
    BY <1>3, <1>4

\* What is left of BPE run i, in numbers: k inputs, and the group beyond them or not, the
\* next at off, size bytes in all; next is where the header after the run is.
BpeIs(p, i, w, k, beyond, off, vo, n, c, next, bytes, size) ==
  /\ w = p.bit_width /\ k = bpe_remaining_inputs /\ off = offset /\ vo = varint_offset
  /\ n = p.runs[i].count /\ c = count /\ next = HeaderAt(p, i + 1) /\ bytes = PageBytes(p)
  /\ size = BytesLeft(p, i, k)
  /\ 3 * w <= NumBytes /\ c >= 1 /\ c <= n /\ next <= bytes
  /\ size = k * (2 * w) + beyond * w /\ ValuesLeft(p, i, k) = 16 * k + 8 * beyond
  /\ c <= 16 * k + 8 * beyond /\ n % 16 = 8 * beyond
  /\ Base + (off + size) = next
  /\ Filled = 2 => off + 2 * w >= NumBytes

LEMMA BpeNumbers ==
  ASSUME Sizes, NEW p, p = page, Decodable(p), NEW i \in 1..Len(p.runs), WindowInv(p), Registers,
         BpeInv(p, i)
  PROVE  \E w \in 1..32, k \in Nat, beyond \in {0, 1}, off \in 0..(NumBytes - 1),
            vo \in 0..(2 * NumBytes - 1), n \in Nat, c \in Nat, next \in Nat, bytes \in Nat, size \in Nat :
           BpeIs(p, i, w, k, beyond, off, vo, n, c, next, bytes, size)
  <1>1. PICK w \in 1..32 : w = p.bit_width /\ 3 * w <= NumBytes
    BY RunSizes
  <1>2. PICK k \in Nat, c \in Nat, off \in 0..(NumBytes - 1), vo \in 0..(2 * NumBytes - 1) :
          k = bpe_remaining_inputs /\ c = count /\ off = offset /\ vo = varint_offset
    BY DEF Registers, Window
  <1>3. PICK next \in Nat, bytes \in Nat, base \in Nat :
          next = HeaderAt(p, i + 1) /\ bytes = PageBytes(p) /\ next <= bytes /\ base = Base
    <2>1. Len(p.runs) \in Nat /\ i + 1 \in 1..(Len(p.runs) + 1)
      BY PageFacts
    <2>2. HeaderAt(p, i + 1) \in Nat /\ HeaderAt(p, i + 1) <= PageBytes(p)
      BY <2>1, PageFacts
    <2>3. PageBytes(p) \in Nat
      BY PageSize
    <2>4. Base \in Nat
      BY <2>3, WindowFacts
    <2>5. QED
      BY <2>2, <2>3, <2>4
  <1>4. p.runs[i].enc = "BPE"
    BY DEF BpeInv
  <1>5. PICK n \in Nat : n = p.runs[i].count /\ n % 8 = 0
    <2>1. p.runs[i].count \in Nat
      BY ValuesAfter
    <2>2. QED
      BY <1>4, <2>1, RunSizes
  <1>6. PICK beyond \in {0, 1} : beyond = (IF GroupBeyond(p, i) THEN 1 ELSE 0) /\ n % 16 = 8 * beyond
    <2>1. GroupBeyond(p, i) <=> n % 16 > 0
      BY <1>5 DEF GroupBeyond
    <2>2. n % 16 = 0 \/ n % 16 = 8
      BY <1>5, BpePayload
    <2>3. CASE n % 16 = 0
      BY <2>1, <2>3
    <2>4. CASE n % 16 = 8
      BY <2>1, <2>4
    <2>5. QED
      BY <2>2, <2>3, <2>4
  <1>7. /\ BytesLeft(p, i, k) = k * (2 * w) + (IF GroupBeyond(p, i) THEN w ELSE 0)
        /\ ValuesLeft(p, i, k) = 16 * k + (IF GroupBeyond(p, i) THEN 8 ELSE 0)
    BY <1>1, Zenon DEF BytesLeft, ValuesLeft
  <1>8. k * (2 * w) \in Nat
    OBVIOUS
  <1>9. BytesLeft(p, i, k) = k * (2 * w) + beyond * w /\ ValuesLeft(p, i, k) = 16 * k + 8 * beyond
    <2>1. CASE GroupBeyond(p, i)
      BY <1>6, <1>7, <1>8, <2>1
    <2>2. CASE ~GroupBeyond(p, i)
      BY <1>6, <1>7, <1>8, <2>2
    <2>3. QED
      BY <2>1, <2>2
  <1>10. PICK size \in Nat : size = BytesLeft(p, i, k) /\ size = k * (2 * w) + beyond * w
    BY <1>8, <1>9
  <1>11. c >= 1 /\ c <= n /\ c <= 16 * k + 8 * beyond
    BY <1>2, <1>5, <1>9 DEF BpeInv
  <1>12. Base + (off + size) = next
    <2>1. base + off + size = next
      BY <1>2, <1>3, <1>10 DEF BpeInv
    <2>2. base + (off + size) = next
      BY <2>1
    <2>3. QED
      BY <1>3, <2>2
  <1>13. Filled = 2 => off + 2 * w >= NumBytes
    BY <1>1, <1>2 DEF BpeInv
  <1> WITNESS w \in 1..32, k \in Nat, beyond \in {0, 1}, off \in 0..(NumBytes - 1),
              vo \in 0..(2 * NumBytes - 1), n \in Nat, c \in Nat, next \in Nat, bytes \in Nat, size \in Nat
  <1>14. QED
    BY <1>1, <1>2, <1>3, <1>5, <1>6, <1>9, <1>10, <1>11, <1>12, <1>13, Zenon DEF BpeIs

\* The next input of a BPE run is in the window.
LEMMA InputInWindow ==
  ASSUME Sizes, NEW p, p = page, Decodable(p), NEW i \in 1..Len(p.runs), WindowInv(p), Registers,
         BpeInv(p, i), BpeKept \/ last_received
  PROVE  Filled >= 1 /\ beats >= 1
  <1>0. PICK w \in 1..32, k \in Nat, beyond \in {0, 1}, off \in 0..(NumBytes - 1),
            vo \in 0..(2 * NumBytes - 1), n \in Nat, c \in Nat, next \in Nat, bytes \in Nat, size \in Nat :
           BpeIs(p, i, w, k, beyond, off, vo, n, c, next, bytes, size)
    BY BpeNumbers, ZenonT(30)
  <1>1. /\ w = p.bit_width /\ k = bpe_remaining_inputs /\ off = offset /\ vo = varint_offset
        /\ n = p.runs[i].count /\ c = count /\ next = HeaderAt(p, i + 1) /\ bytes = PageBytes(p)
        /\ size = BytesLeft(p, i, k)
        /\ 3 * w <= NumBytes /\ c >= 1 /\ c <= n /\ next <= bytes
        /\ size = k * (2 * w) + beyond * w /\ ValuesLeft(p, i, k) = 16 * k + 8 * beyond
        /\ c <= 16 * k + 8 * beyond /\ n % 16 = 8 * beyond
        /\ Base + (off + size) = next
        /\ Filled = 2 => off + 2 * w >= NumBytes
    BY <1>0 DEF BpeIs
  <1>2. /\ Filled \in 0..2 /\ Base \in Nat /\ End \in Nat /\ beats \in Nat
        /\ Filled = 0 => End = Base
        /\ last_received => End >= bytes
        /\ Filled >= 1 => beats >= 1
        /\ \A o \in Nat : Pos(lo, hi, o) = IF Base + o < End THEN Base + o ELSE None
    BY <1>1, WindowFacts
  <1>3. Base + (off + size) = next /\ next <= bytes
    BY <1>1
  <1>4. size >= 1
    <2>1. k >= 1 \/ beyond = 1
      BY <1>1
    <2>2. CASE k >= 1
      <3>1. k * (2 * w) >= 2 * w
        BY <2>2
      <3>2. beyond * w >= 0 /\ 2 * w >= 1
        OBVIOUS
      <3>3. size = k * (2 * w) + beyond * w
        BY <1>1
      <3>4. k * (2 * w) \in Nat /\ beyond * w \in Nat
        OBVIOUS
      <3>5. QED
        BY <3>1, <3>2, <3>3, <3>4
    <2>3. CASE beyond = 1
      <3>1. k * (2 * w) \in Nat /\ beyond * w = w
        BY <2>3
      <3>2. size = k * (2 * w) + beyond * w
        BY <1>1
      <3>3. QED
        BY <3>1, <3>2
    <2>4. QED
      BY <2>1, <2>2, <2>3
  <1>5. Base + off < End
    <2>1. CASE BpeKept
      <3>1. Pos(lo, hi, off) # None
        BY <1>1, <2>1 DEF BpeKept, Keep
      <3>2. QED
        BY <1>2, <3>1
    <2>2. CASE last_received
      BY <1>2, <1>3, <1>4, <2>2
    <2>3. QED
      BY <2>1, <2>2
  <1>6. QED
    BY <1>2, <1>5

\* The last input of a BPE run has been handed on.
LEMMA FinishBpeKeeps ==
  ASSUME Sizes, NEW p, p = page, Decodable(p), NEW i \in 1..Len(p.runs), WindowInv(p), Registers,
         BpeInv(p, i), BpeKept \/ last_received, count <= 16, FinishBpe
  PROVE  /\ pages' = pages /\ taken' = taken /\ Registers'
         /\ \/ state' = "IDLE" /\ IdleInv' /\ i = Len(p.runs)
            \/ page' = p /\ WindowInv(p)' /\ \E j \in 1..Len(p.runs) : j = i + 1 /\ RunAt(p, j, 0)'
  <1>0. PICK w \in 1..32, k \in Nat, beyond \in {0, 1}, off \in 0..(NumBytes - 1),
            vo \in 0..(2 * NumBytes - 1), n \in Nat, c \in Nat, next \in Nat, bytes \in Nat, size \in Nat :
           BpeIs(p, i, w, k, beyond, off, vo, n, c, next, bytes, size)
    BY BpeNumbers, ZenonT(30)
  <1>1. /\ w = p.bit_width /\ k = bpe_remaining_inputs /\ off = offset /\ vo = varint_offset
        /\ n = p.runs[i].count /\ c = count /\ next = HeaderAt(p, i + 1) /\ bytes = PageBytes(p)
        /\ size = BytesLeft(p, i, k)
        /\ 3 * w <= NumBytes /\ c >= 1 /\ c <= n /\ next <= bytes
        /\ size = k * (2 * w) + beyond * w /\ ValuesLeft(p, i, k) = 16 * k + 8 * beyond
        /\ c <= 16 * k + 8 * beyond /\ n % 16 = 8 * beyond
        /\ Base + (off + size) = next
        /\ Filled = 2 => off + 2 * w >= NumBytes
    BY <1>0 DEF BpeIs
  <1>2. PICK left : left = remaining_values - count /\ remaining_values' = left
    BY DEF FinishBpe
  <1>3. CASE i = Len(p.runs)
    <2>1. left = 0
      BY <1>1, <1>2, <1>3 DEF BpeInv
    <2>2. Reset /\ remaining_values' \in Nat
      BY <1>2, <2>1 DEF FinishBpe
    <2>3. QED
      BY <1>3, <2>2, ResetKeeps
  <1>4. CASE i < Len(p.runs)
    <2>1. NumBytes \in Nat /\ NumBytes >= 16 /\ Window = 2 * NumBytes
      BY DEF Sizes, Window
    <2>2. PICK j \in 1..Len(p.runs) : j = i + 1
      BY <1>4, ValuesAfter
    <2>3. left \in Nat /\ left # 0 /\ left = p.num_values - ValuesBefore(p, j)
      <3>1. PICK total \in Nat, v \in Nat : total = p.num_values /\ v = ValuesBefore(p, j) /\ v < total
        BY <1>4, <2>2, ValuesAfter
      <3>2. left = total - v
        BY <1>2, <1>4, <2>2, <3>1 DEF BpeInv
      <3>3. QED
        BY <3>1, <3>2
    <2>4. c = 16 * k + 8 * beyond /\ c <= 16
      BY <1>1, <1>4 DEF BpeInv
    <2>5. (k = 1 /\ beyond = 0 /\ size = 2 * w) \/ (k = 0 /\ beyond = 1 /\ size = w)
      <3>1. size = k * (2 * w) + beyond * w /\ c >= 1
        BY <1>1
      <3>2. (k = 1 /\ beyond = 0) \/ (k = 0 /\ beyond = 1)
        BY <2>4, <3>1
      <3>3. QED
        BY <3>1, <3>2
    <2>6. size \in 1..(2 * w) /\ 3 * w <= NumBytes
      <3>1. size = 2 * w \/ size = w
        BY <2>5
      <3>2. 3 * w <= NumBytes
        BY <1>1
      <3>3. QED
        BY <3>1, <3>2
    <2>7. /\ Filled \in 0..2 /\ Base \in Nat /\ End \in Nat /\ beats \in Nat
          /\ Filled >= 1 /\ beats >= 1 /\ Base + (off + size) = next
          /\ Filled = 2 => off + 2 * w >= NumBytes
      BY <1>1, WindowFacts, InputInWindow
    <2>8. off + size \in 0..(2 * NumBytes - 1)
      BY <2>1, <2>6
    \* Where the header after the run is, as varint_offset has it.
    <2>9. /\ n <= 16 \/ k = 0 => /\ Base + vo = next /\ (varint.valid => Given(p, j))
                                /\ (varint.valid => vo < NumBytes)
          /\ ~(n <= 16 \/ k = 0) => vo = Trim(next) /\ (varint.valid => n <= 24)
      BY <1>1, <1>4, <2>2 DEF BpeInv
    <2>10. CASE varint.valid
      <3>1. n <= 16 \/ k = 0
        <4>1. SUFFICES ASSUME k = 1, n > 16 PROVE FALSE
          BY <2>5
        <4>2. ~(n <= 16 \/ k = 0) /\ beyond = 0
          BY <2>5, <4>1
        <4>3. n <= 24
          BY <2>9, <2>10, <4>2
        <4>4. n % 16 = 8 * beyond
          BY <1>1
        <4>5. n % 16 = 0
          BY <4>2, <4>4
        <4>6. QED
          BY <4>1, <4>3, <4>5
      <3>2. Base + vo = next /\ Given(p, j) /\ vo < NumBytes
        BY <2>9, <2>10, <3>1
      <3>3. vo = off + size
        BY <2>7, <3>2
      <3>4. Filled = 2 => vo + 1 + 2 * w >= NumBytes
        BY <2>1, <2>6, <2>7, <3>3
      <3>5. AtHeader(p, j)
        <4>1. vo <= NumBytes + 3
          BY <2>1, <3>2
        <4>2. QED
          BY <1>1, <2>2, <3>2, <3>4, <4>1 DEF AtHeader
      <3>6. GotoDecode(left)
        BY <1>2, <2>3, <2>10 DEF FinishBpe
      <3>7. QED
        BY <1>2, <2>2, <2>3, <2>10, <3>2, <3>5, <3>6, GotoDecodeKeeps
    <2>11. CASE ~varint.valid
      <3>1. PICK x \in 0..(2 * NumBytes - 1) : x = off + size
        BY <2>8
      <3>2. Base + x = next
        BY <2>7, <3>1
      <3>3. Wrapped = x /\ (x < NumBytes => vo = x) /\ (x >= NumBytes => Trim(vo) = x - NumBytes)
        <4>1. CASE n <= 16 \/ k = 0
          <5>1. vo = x
            BY <2>7, <2>9, <3>2, <4>1
          <5>2. vo > off
            BY <2>6, <3>1, <5>1
          <5>3. Wrapped = vo
            BY <1>1, <5>2 DEF Wrapped
          <5>4. x >= NumBytes => Trim(x) = x - NumBytes
            <6>1. SUFFICES ASSUME x >= NumBytes PROVE Trim(x) = x - NumBytes
              OBVIOUS
            <6>2. x \in NumBytes..(2 * NumBytes - 1)
              BY <2>1, <6>1
            <6>3. QED
              BY <6>2, Offsets
          <5>5. QED
            BY <5>1, <5>3, <5>4
        <4>2. CASE ~(n <= 16 \/ k = 0)
          <5>1. vo = Trim(x)
            <6>1. PageBytes(p) \in Nat /\ x \in Nat
              BY <1>1, <2>1
            <6>2. Trim(Base + x) = Trim(x)
              BY <6>1, TrimAt
            <6>3. QED
              BY <2>9, <3>2, <4>2, <6>2
          <5>2. CASE x < NumBytes
            <6>1. x \in 0..(NumBytes - 1)
              BY <2>1, <5>2
            <6>2. vo = x
              BY <5>1, <6>1, Offsets
            <6>3. vo > off
              BY <2>6, <3>1, <6>2
            <6>4. Wrapped = vo
              BY <1>1, <6>3 DEF Wrapped
            <6>5. QED
              BY <2>1, <5>2, <6>2, <6>4
          <5>3. CASE x >= NumBytes
            <6>1. x \in NumBytes..(2 * NumBytes - 1)
              BY <2>1, <5>3
            <6>2. vo = x - NumBytes
              BY <5>1, <6>1, Offsets
            <6>3. vo <= off /\ vo \in 0..(NumBytes - 1)
              BY <2>1, <2>6, <3>1, <6>1, <6>2
            <6>4. Wrapped = vo + NumBytes
              BY <1>1, <6>3 DEF Wrapped
            <6>5. Trim(vo) = vo
              BY <6>3, Offsets
            <6>6. QED
              BY <2>1, <5>3, <6>2, <6>4, <6>5
          <5>4. QED
            BY <2>1, <5>2, <5>3
        <4>3. QED
          BY <4>1, <4>2
      <3>4. /\ varint' = ReadVarint(page, lo, hi, last_received, x) /\ UpdateOffset(x)
            /\ varint_offset' = (IF x >= NumBytes THEN Trim(vo) ELSE vo) /\ state' = "HEADER2"
            /\ count' = count /\ bpe_remaining_inputs' = bpe_remaining_inputs
        BY <1>1, <1>2, <2>3, <2>11, <3>3 DEF FinishBpe
      <3>5. ReadsAt(varint', p, last_received, beats, next)
        <4>1. PageBytes(p) \in Nat
          BY <1>1
        <4>2. QED
          BY <3>2, <3>4, <4>1, ReadsWindow
      <3>6. /\ WindowInv(p)' /\ page' = page /\ pages' = pages /\ taken' = taken
            /\ beats' = beats /\ End' = End /\ last_received' = last_received
            /\ lo' \in 0..beats' /\ hi' \in 0..beats'
            /\ offset' \in 0..(NumBytes - 1) /\ offset' = Trim(x)
            /\ x < NumBytes => Filled' = Filled /\ Base' = Base /\ offset' = x
            /\ x >= NumBytes => Filled' = Filled - 1 /\ Base' = Base + NumBytes /\ offset' = x - NumBytes
        <4>1. PageBytes(p) \in Nat
          BY <1>1
        <4>2. QED
          BY <2>7, <3>4, <4>1, Moved
      <3>7. PICK v \in 0..(NumBytes - 1) :
              /\ v = varint_offset' /\ (x < NumBytes => v = x) /\ (x >= NumBytes => v = x - NumBytes)
        <4>1. CASE x < NumBytes
          BY <2>1, <3>3, <3>4, <4>1
        <4>2. CASE x >= NumBytes
          BY <2>1, <3>3, <3>4, <4>2
        <4>3. QED
          BY <2>1, <4>1, <4>2
      <3>8. Registers'
        <4>1. beats' \in Nat /\ {lo', hi'} \subseteq 0..beats'
          BY <2>7, <3>6
        <4>2. {store_in_second_half', last_received'} \subseteq BOOLEAN
          BY <3>6 DEF WindowInv
        <4>3. varint_offset' \in 0..(Window - 1)
          BY <2>1, <3>7
        <4>4. {varint'.at, varint'.row} \subseteq -1..(NumBytes * beats') /\ varint'.valid \in BOOLEAN
          BY <2>7, <3>5, <3>6 DEF ReadsAt
        <4>5. {remaining_values', count', bpe_remaining_inputs'} \subseteq Nat
          BY <1>1, <1>2, <2>3, <3>4
        <4>6. QED
          BY <3>6, <4>1, <4>2, <4>3, <4>4, <4>5 DEF Registers, Window
      <3>9. HeaderInv(p, j)'
        <4>1. Base' + v = next
          <5>1. CASE x < NumBytes
            BY <3>2, <3>6, <3>7, <5>1
          <5>2. CASE x >= NumBytes
            <6>1. v = x - NumBytes /\ Base' = Base + NumBytes
              BY <3>6, <3>7, <5>2
            <6>2. (Base + NumBytes) + (x - NumBytes) = Base + x
              BY <2>1, <2>7
            <6>3. QED
              BY <3>2, <6>1, <6>2
          <5>3. QED
            BY <2>1, <5>1, <5>2
        <4>2. v <= NumBytes + 3
          BY <2>1
        <4>3. Filled' = 2 => v + 1 + 2 * w >= NumBytes
          <5>1. SUFFICES ASSUME Filled' = 2 PROVE v + 1 + 2 * w >= NumBytes
            OBVIOUS
          <5>2. x < NumBytes /\ Filled = 2
            BY <2>1, <2>7, <3>6, <5>1
          <5>3. v = off + size /\ off + 2 * w >= NumBytes
            BY <2>7, <3>1, <3>7, <5>2
          <5>4. QED
            BY <2>1, <2>6, <5>3
        <4>4. AtHeader(p, j)'
          BY <1>1, <2>2, <3>7, <4>1, <4>2, <4>3 DEF AtHeader
        <4>5. Reading(varint', p, last_received', End', next)
          BY <3>5, <3>6 DEF ReadsAt, End
        <4>6. Given(p, j)'
          BY <1>1, <2>2, <4>5 DEF Given, Reading
        <4>7. QED
          BY <1>2, <2>3, <4>4, <4>6 DEF HeaderInv
      <3>10. RunAt(p, j, 0)'
        BY <3>4, <3>9 DEF RunAt
      <3>11. QED
        BY <2>2, <3>6, <3>8, <3>10
    <2>12. QED
      BY <2>10, <2>11
  <1>5. i = Len(p.runs) \/ i < Len(p.runs)
    <2>1. Len(p.runs) \in Nat
      BY PageFacts
    <2>2. QED
      BY <2>1
  <1>6. QED
    BY <1>3, <1>4, <1>5

\* One input of a BPE run has been handed on, others follow.
LEMMA AdvanceBpeKeeps ==
  ASSUME Sizes, NEW p, p = page, Decodable(p), NEW i \in 1..Len(p.runs), WindowInv(p), Registers,
         state = "DECODE_BPE", BpeInv(p, i), BpeKept \/ last_received, ~(count <= 16), AdvanceBpe,
         NEW j \in Nat, Unpacked(p, i, j)
  PROVE  /\ pages' = pages /\ taken' = taken /\ Registers' /\ page' = p /\ WindowInv(p)'
         /\ RunAt(p, i, j + 1)'
  <1>0. PICK w \in 1..32, k \in Nat, beyond \in {0, 1}, off \in 0..(NumBytes - 1),
            vo \in 0..(2 * NumBytes - 1), n \in Nat, c \in Nat, next \in Nat, bytes \in Nat, size \in Nat :
           BpeIs(p, i, w, k, beyond, off, vo, n, c, next, bytes, size)
    BY BpeNumbers, ZenonT(30)
  <1>1. /\ w = p.bit_width /\ k = bpe_remaining_inputs /\ off = offset /\ vo = varint_offset
        /\ n = p.runs[i].count /\ c = count /\ next = HeaderAt(p, i + 1) /\ bytes = PageBytes(p)
        /\ size = BytesLeft(p, i, k)
        /\ 3 * w <= NumBytes /\ c >= 1 /\ c <= n /\ next <= bytes
        /\ size = k * (2 * w) + beyond * w /\ ValuesLeft(p, i, k) = 16 * k + 8 * beyond
        /\ c <= 16 * k + 8 * beyond /\ n % 16 = 8 * beyond
        /\ Base + (off + size) = next
        /\ Filled = 2 => off + 2 * w >= NumBytes
    BY <1>0 DEF BpeIs
  <1>2. NumBytes \in Nat /\ NumBytes >= 16 /\ Window = 2 * NumBytes /\ NumElements = 16
    BY DEF Sizes, Window
  <1>3. 3 * w <= NumBytes /\ c <= 16 * k + 8 * beyond /\ c > 16 /\ c <= n /\ bytes \in Nat
    BY <1>1
  <1>4. PICK m \in Nat : m = k - 1 /\ k = m + 1
    BY <1>3
  <1>5. /\ Filled \in 0..2 /\ Base \in Nat /\ End \in Nat /\ beats \in Nat
        /\ Filled = 0 => End = Base
        /\ Filled = 1 => End = Base + NumBytes
        /\ Filled = 2 => End = Base + 2 * NumBytes
        /\ last_received => End >= bytes
        /\ ~last_received => End < bytes
        /\ Filled >= 1 /\ beats >= 1
        /\ Filled = 2 => off + 2 * w >= NumBytes
    BY <1>1, WindowFacts, InputInWindow
  <1>6. PICK x \in 0..(2 * NumBytes - 1) : x = off + 2 * w
    BY <1>2, <1>3
  <1>7. Packed = 2 * w /\ offset + Packed = x
    <2>1. Packed = 2 * w
      BY <1>1, Inputs
    <2>2. QED
      BY <1>1, <1>6, <2>1
  <1>8. /\ count' = count - 16 /\ remaining_values' = remaining_values - 16 /\ bpe_remaining_inputs' = m
        /\ UpdateOffset(x) /\ state' = "DECODE_BPE"
    BY <1>1, <1>2, <1>4, <1>7 DEF AdvanceBpe
  <1>9. PICK o : o = AheadOf(x)
    OBVIOUS
  <1>10. PICK v : v = ReadVarint(page, lo, hi, last_received, o)
    OBVIOUS
  <1>11. IF k = 1
         THEN /\ varint' = v
              /\ varint_offset' = IF ~v.valid /\ x < NumBytes THEN o
                                  ELSE IF x >= NumBytes THEN Trim(vo) ELSE vo
         ELSE varint_offset' = (IF x >= NumBytes THEN Trim(vo) ELSE vo) /\ varint' = varint
    BY <1>1, <1>7, <1>9, <1>10, Zenon DEF AdvanceBpe
  <1>12. /\ WindowInv(p)' /\ page' = page /\ pages' = pages /\ taken' = taken
         /\ beats' = beats /\ End' = End /\ last_received' = last_received
         /\ lo' \in 0..beats' /\ hi' \in 0..beats'
         /\ offset' \in 0..(NumBytes - 1) /\ offset' = Trim(x)
         /\ x < NumBytes => Filled' = Filled /\ Base' = Base /\ offset' = x
         /\ x >= NumBytes => Filled' = Filled - 1 /\ Base' = Base + NumBytes /\ offset' = x - NumBytes
    BY <1>3, <1>1, <1>5, <1>8, Moved
  <1>13. PICK new \in 0..(NumBytes - 1), base \in Nat :
           /\ new = offset' /\ base = Base' /\ base + new = Base + x
           /\ x < NumBytes => base = Base /\ new = x
           /\ x >= NumBytes => base = Base + NumBytes /\ new = x - NumBytes
    BY <1>2, <1>5, <1>12
  <1>14. Filled' # 2
    BY <1>2, <1>5, <1>6, <1>12
  <1>15. PICK rest \in Nat : rest = m * (2 * w) + beyond * w /\ size = 2 * w + rest
    <2>1. k * (2 * w) = m * (2 * w) + 2 * w
      BY <1>4
    <2>2. m * (2 * w) \in Nat /\ beyond * w \in Nat
      OBVIOUS
    <2>3. size = k * (2 * w) + beyond * w
      BY <1>1
    <2>4. QED
      BY <2>1, <2>2, <2>3
  <1>16. Base + (x + rest) = next /\ base + (new + rest) = next
    <2>1. Base + (off + size) = next
      BY <1>1
    <2>2. Base + (x + rest) = next
      BY <1>5, <1>6, <1>15, <2>1
    <2>3. base + new = Base + x /\ Base \in Nat
      BY <1>5, <1>13
    <2>4. base + (new + rest) = Base + (x + rest)
      BY <2>3
    <2>5. QED
      BY <2>2, <2>4
  <1>17. BytesLeft(p, i, m) = rest /\ ValuesLeft(p, i, m) = 16 * m + 8 * beyond
    <2>1. beyond = (IF GroupBeyond(p, i) THEN 1 ELSE 0)
      <3>1. GroupBeyond(p, i) <=> n % 16 > 0
        BY <1>1, Zenon DEF GroupBeyond
      <3>2. n % 16 = 8 * beyond
        BY <1>1
      <3>3. QED
        BY <3>1, <3>2
    <2>2. /\ BytesLeft(p, i, m) = m * (2 * w) + (IF GroupBeyond(p, i) THEN w ELSE 0)
          /\ ValuesLeft(p, i, m) = 16 * m + (IF GroupBeyond(p, i) THEN 8 ELSE 0)
      BY <1>1, Zenon DEF BytesLeft, ValuesLeft
    <2>3. m * (2 * w) \in Nat
      OBVIOUS
    <2>4. CASE GroupBeyond(p, i)
      BY <1>15, <2>1, <2>2, <2>3, <2>4
    <2>5. CASE ~GroupBeyond(p, i)
      BY <1>15, <2>1, <2>2, <2>3, <2>5
    <2>6. QED
      BY <2>4, <2>5
  \* Where the header after the run is, as varint_offset has it.
  <1>18. ASSUME i < Len(p.runs)
         PROVE  /\ c = 16 * k + 8 * beyond /\ n > 16
                /\ vo = Trim(x + rest) /\ (varint.valid => n <= 24)
    <2>1. c = 16 * k + 8 * beyond
      BY <1>1, <1>18 DEF BpeInv
    <2>2. ~(n <= 16 \/ k = 0)
      BY <1>3, <1>4
    <2>3. vo = Trim(next) /\ (varint.valid => n <= 24)
      BY <1>1, <1>18, <2>2 DEF BpeInv
    <2>4. Trim(Base + (x + rest)) = Trim(x + rest)
      <3>1. x + rest \in Nat
        BY <1>2
      <3>2. QED
        BY <1>1, <3>1, TrimAt
    <2>5. QED
      BY <1>16, <2>1, <2>2, <2>3, <2>4
  <1>19. Trim(vo) \in 0..(NumBytes - 1) /\ (vo < NumBytes => Trim(vo) = vo)
    <2>1. vo \in Nat
      BY <1>2
    <2>2. vo < NumBytes => vo \in 0..(NumBytes - 1)
      BY <1>2
    <2>3. QED
      BY <2>1, <2>2, Offsets
  <1>20. o \in 0..(2 * NumBytes - 1)
    <2>1. o = IF x > vo /\ x + 2 * w >= NumBytes THEN Offset(vo + NumBytes) ELSE vo
      BY <1>1, <1>7, <1>9 DEF AheadOf
    <2>2. vo + NumBytes \in Nat
      BY <1>2
    <2>3. Offset(vo + NumBytes) \in 0..(2 * NumBytes - 1)
      BY <2>2, Offsets
    <2>4. QED
      BY <1>2, <2>1, <2>3
  <1>21. ReadsAt(v, p, last_received, beats, Base + o)
    BY <1>3, <1>1, <1>10, <1>20, ReadsWindow
  <1>22. Registers'
    <2>1. beats' \in Nat /\ {lo', hi'} \subseteq 0..beats'
      BY <1>5, <1>12
    <2>2. {store_in_second_half', last_received'} \subseteq BOOLEAN
      BY <1>12 DEF WindowInv
    <2>3. varint_offset' \in 0..(Window - 1)
      BY <1>2, <1>11, <1>19, <1>20
    <2>4. {varint'.at, varint'.row} \subseteq -1..(NumBytes * beats') /\ varint'.valid \in BOOLEAN
      <3>1. CASE k = 1
        BY <1>5, <1>11, <1>12, <1>21, <3>1 DEF ReadsAt
      <3>2. CASE k # 1
        BY <1>11, <1>12, <3>2 DEF Registers
      <3>3. QED
        BY <3>1, <3>2
    <2>5. remaining_values >= count /\ remaining_values \in Nat
      <3>1. remaining_values \in Nat
        BY DEF Registers
      <3>2. CASE i = Len(p.runs)
        BY <1>1, <3>1, <3>2 DEF BpeInv
      <3>3. CASE i < Len(p.runs)
        <4>1. PICK total \in Nat, u \in Nat : total = p.num_values /\ u = ValuesBefore(p, i + 1) /\ u < total
          BY <3>3, ValuesAfter
        <4>2. PICK r \in Nat : r = remaining_values
          BY <3>1
        <4>3. r - c = total - u
          BY <1>1, <3>3, <4>1, <4>2 DEF BpeInv
        <4>4. r >= c
          BY <4>1, <4>3
        <4>5. QED
          BY <1>1, <4>2, <4>4
      <3>4. i = Len(p.runs) \/ i < Len(p.runs)
        <4>1. Len(p.runs) \in Nat
          BY PageFacts
        <4>2. QED
          BY <4>1
      <3>5. QED
        BY <3>1, <3>2, <3>3, <3>4
    <2>6. {remaining_values', count', bpe_remaining_inputs'} \subseteq Nat
      <3>1. PICK r \in Nat : r = remaining_values /\ r >= c
        BY <1>1, <2>5
      <3>2. r - 16 \in Nat /\ c - 16 \in Nat
        BY <1>3, <3>1
      <3>3. QED
        BY <1>1, <1>8, <3>1, <3>2
    <2>7. QED
      BY <1>12, <2>1, <2>2, <2>3, <2>4, <2>6 DEF Registers, Window
  <1>23. BpeInv(p, i)'
    <2>1. /\ BytesLeft(p, i, bpe_remaining_inputs)' = rest
          /\ ValuesLeft(p, i, bpe_remaining_inputs)' = 16 * m + 8 * beyond
      BY <1>8, <1>17 DEF BytesLeft, ValuesLeft, GroupBeyond
    <2>2. count' = c - 16 /\ c - 16 >= 1 /\ c - 16 <= n /\ c - 16 <= 16 * m + 8 * beyond
      <3>1. count' = c - 16
        BY <1>1, <1>8
      <3>2. c - 16 >= 1 /\ c - 16 <= n /\ c - 16 <= 16 * m + 8 * beyond
        BY <1>3, <1>4
      <3>3. QED
        BY <3>1, <3>2
    <2>3. Base' + offset' + rest = next
      <3>1. base + new + rest = next
        BY <1>16
      <3>2. QED
        BY <1>13, <3>1
    <2>4. i = Len(p.runs) => remaining_values' = count'
      BY <1>8 DEF BpeInv
    <2>5. ASSUME i < Len(p.runs)
          PROVE  count' = 16 * m + 8 * beyond /\ remaining_values' - count' = p.num_values - ValuesBefore(p, i + 1)
      <3>1. count' = 16 * m + 8 * beyond
        BY <1>4, <1>18, <2>2, <2>5
      <3>2. PICK r \in Nat : r = remaining_values
        BY DEF Registers
      <3>3. r - c = p.num_values - ValuesBefore(p, i + 1)
        BY <1>1, <2>5, <3>2 DEF BpeInv
      <3>4. (r - 16) - (c - 16) = r - c
        OBVIOUS
      <3>5. QED
        BY <1>8, <2>2, <3>1, <3>2, <3>3, <3>4
    <2>6. ASSUME i < Len(p.runs), m = 0
          PROVE  /\ Base' + varint_offset' = next /\ (varint'.valid => Given(p, i + 1)')
                 /\ varint'.valid => varint_offset' < NumBytes
      <3>1. k = 1 /\ beyond = 1 /\ rest = w
        <4>1. k = 1 /\ m * (2 * w) = 0
          BY <1>4, <2>6
        <4>2. beyond = 1
          BY <1>3, <4>1
        <4>3. QED
          BY <1>15, <4>1, <4>2
      <3>2. PICK y \in 0..(2 * NumBytes - 1) : y = x + w /\ Base + y = next
        BY <1>2, <1>3, <1>6, <1>16, <3>1
      <3>3. vo = Trim(y)
        BY <1>18, <2>6, <3>1, <3>2
      <3>4. /\ y < NumBytes => vo = y
            /\ y >= NumBytes => vo = y - NumBytes
        <4>1. y < NumBytes => y \in 0..(NumBytes - 1)
          BY <1>2
        <4>2. y >= NumBytes => y \in NumBytes..(2 * NumBytes - 1)
          BY <1>2
        <4>3. QED
          BY <3>3, <4>1, <4>2, Offsets
      <3>5. o = y
        <4>1. o = IF x > vo /\ x + 2 * w >= NumBytes THEN Offset(vo + NumBytes) ELSE vo
          BY <1>1, <1>7, <1>9 DEF AheadOf
        <4>2. CASE y < NumBytes
          <5>1. vo = y /\ ~(x > vo)
            BY <1>2, <3>2, <3>4, <4>2
          <5>2. QED
            BY <4>1, <5>1
        <4>3. CASE y >= NumBytes
          <5>1. vo = y - NumBytes /\ x > vo /\ x + 2 * w >= NumBytes /\ vo + NumBytes = y
            BY <1>2, <1>3, <3>2, <3>4, <4>3
          <5>2. o = Offset(y)
            BY <4>1, <5>1
          <5>3. QED
            BY <5>2, Offsets
        <4>4. QED
          BY <1>2, <4>2, <4>3
      <3>6. varint' = v /\ ReadsAt(v, p, last_received, beats, next)
        BY <1>11, <1>21, <3>1, <3>2, <3>5
      <3>7. Reading(varint', p, last_received', End', next)
        BY <1>12, <3>6 DEF ReadsAt, End
      <3>8. Given(p, i + 1)'
        BY <1>1, <3>7 DEF Given, Reading
      <3>9. varint'.valid => next < End
        <4>1. /\ varint'.valid => (last_received => next < bytes)
              /\ varint'.valid => (~last_received => next + 3 < End)
          BY <1>1, <1>12, <3>7, Zenon DEF Reading
        <4>2. QED
          BY <1>5, <4>1
      <3>10. CASE x >= NumBytes
        <4>1. y >= NumBytes /\ vo = y - NumBytes /\ vo < NumBytes
          BY <1>2, <3>2, <3>4, <3>10
        <4>2. varint_offset' = vo
          BY <1>2, <1>11, <1>19, <3>1, <3>10, <4>1
        <4>3. base + vo = next
          BY <1>2, <1>5, <1>13, <3>2, <3>10, <4>1
        <4>4. QED
          BY <1>13, <3>8, <4>1, <4>2, <4>3
      <3>11. CASE x < NumBytes /\ v.valid
        <4>1. next < End
          BY <3>6, <3>9, <3>11
        <4>2. Filled # 2
          BY <1>2, <1>5, <1>6, <3>11
        <4>3. y < NumBytes
          BY <1>2, <1>5, <3>2, <4>1, <4>2
        <4>4. varint_offset' = vo /\ vo = y
          BY <1>2, <1>11, <3>1, <3>4, <3>11, <4>3
        <4>5. QED
          BY <1>13, <3>2, <3>8, <3>11, <4>3, <4>4
      <3>12. CASE x < NumBytes /\ ~v.valid
        <4>1. varint_offset' = o
          BY <1>11, <3>1, <3>12
        <4>2. ~varint'.valid
          BY <3>6, <3>12
        <4>3. QED
          BY <1>13, <3>2, <3>5, <3>12, <4>1, <4>2
      <3>13. QED
        BY <1>2, <3>10, <3>11, <3>12
    <2>7. ASSUME i < Len(p.runs), m # 0
          PROVE  varint_offset' = Trim(next) /\ ~varint'.valid
      <3>1. k # 1 /\ n > 24
        BY <1>3, <1>4, <1>18, <2>7
      <3>2. varint' = varint /\ ~varint.valid
        BY <1>11, <1>18, <2>7, <3>1
      <3>3. vo < NumBytes /\ vo = Trim(next)
        <4>1. x + rest \in Nat
          BY <1>2
        <4>2. Trim(x + rest) \in 0..(NumBytes - 1)
          BY <4>1, Offsets
        <4>3. Trim(Base + (x + rest)) = Trim(x + rest)
          BY <1>1, <4>1, TrimAt
        <4>4. QED
          BY <1>2, <1>16, <1>18, <2>7, <4>2, <4>3
      <3>4. QED
        BY <1>11, <1>19, <3>1, <3>2, <3>3
    <2>8. ASSUME i < Len(p.runs)
          PROVE  IF p.runs[i].count <= 16 \/ m = 0
                 THEN /\ Base' + varint_offset' = HeaderAt(p, i + 1)
                      /\ varint'.valid => Given(p, i + 1)'
                      /\ varint'.valid \/ m = 1 => varint_offset' < NumBytes
                 ELSE /\ varint_offset' = Trim(HeaderAt(p, i + 1))
                      /\ varint'.valid => p.runs[i].count <= 24
      <3>1. p.runs[i].count > 16
        BY <1>1, <1>18, <2>8
      <3>2. CASE m = 0
        BY <1>1, <2>6, <2>8, <3>2
      <3>3. CASE m # 0
        <4>1. varint_offset' = Trim(HeaderAt(p, i + 1)) /\ ~varint'.valid
          BY <1>1, <2>7, <2>8, <3>3
        <4>2. ~(p.runs[i].count <= 16 \/ m = 0)
          <5>1. n = p.runs[i].count /\ n > 16 /\ m # 0
            BY <1>1, <3>1, <3>3
          <5>2. ~(n <= 16 \/ m = 0)
            BY <5>1
          <5>3. QED
            BY <5>1, <5>2
        <4>3. QED
          BY <4>1, <4>2, Zenon
      <3>4. QED
        BY <3>2, <3>3
    <2>9. p.runs[i].enc = "BPE"
      BY DEF BpeInv
    <2>10. QED
      BY <1>1, <1>8, <1>14, <2>1, <2>2, <2>3, <2>4, <2>5, <2>8, <2>9 DEF BpeInv
  <1>24. RunAt(p, i, j + 1)'
    <2>1. k + j = p.runs[i].count \div 16 /\ c + 16 * j = RunValues(p, i)
      BY <1>1 DEF Unpacked
    <2>2. m + (j + 1) = k + j /\ (c - 16) + 16 * (j + 1) = c + 16 * j
      BY <1>4
    <2>3. bpe_remaining_inputs' = m /\ count' = c - 16
      BY <1>1, <1>8
    <2>4. Unpacked(p, i, j + 1)'
      BY <2>1, <2>2, <2>3 DEF Unpacked
    <2>5. QED
      BY <1>8, <1>23, <2>4 DEF RunAt
  <1>25. QED
    BY <1>12, <1>22, <1>24

-----------------------------------------------------------------------------
(* A page is begun, and the queues of the output.                          *)

\* The configuration of page p arrives, with the first databeat or before it.
LEMMA ConfigureKeeps ==
  ASSUME Sizes, NEW p, p = pages[taken + 1], Decodable(p), taken \in Nat, Registers, IdleInv,
         NEW with_input \in BOOLEAN, Configure(with_input)
  PROVE  pages' = pages /\ taken' = taken + 1 /\ Registers' /\ page' = p /\ WindowInv(p)' /\ RunAt(p, 1, 0)'
  <1>1. NumBytes \in Nat /\ NumBytes >= 16 /\ Window = 2 * NumBytes
    BY DEF Sizes, Window
  <1>2. /\ pages' = pages /\ taken' = taken + 1 /\ hi' = hi /\ count' = count
        /\ bpe_remaining_inputs' = bpe_remaining_inputs
        /\ offset' = p.offset /\ varint_offset' = p.offset /\ remaining_values' = p.num_values
    BY DEF Configure
  <1>3. page' = p
    BY <1>2 DEF page
  <1>4. /\ p.num_values \in Nat /\ p.num_values = p.num_values - ValuesBefore(p, 1)
        /\ p.offset \in 0..(NumBytes - 1) /\ HeaderAt(p, 1) = p.offset /\ p.offset < PageBytes(p)
        /\ 1 \in 1..Len(p.runs)
    <2>1. PICK n \in Nat : n = Len(p.runs) /\ n >= 1
      BY PageFacts
    <2>2. 1 \in 1..n
      BY <2>1
    <2>3. HeaderAt(p, 1) = p.offset /\ HeaderAt(p, 1) < PageBytes(p) /\ ValuesBefore(p, 1) = 0
      BY <2>1, <2>2, PageFacts
    <2>4. p.num_values \in Nat /\ p.offset \in 0..(NumBytes - 1)
      BY PageFacts
    <2>5. QED
      BY <2>1, <2>2, <2>3, <2>4
  <1>5. PICK bytes \in Nat : bytes = PageBytes(p) /\ bytes >= 1
    BY PageSize
  <1>6. PICK enough \in Nat : /\ enough = NumBeats(p) /\ enough >= 1
                              /\ 1 >= enough <=> NumBytes >= bytes
    <2>1. CeilDiv(bytes, NumBytes) \in Nat
      BY <1>1, EnoughBeats
    <2>2. 0 >= CeilDiv(bytes, NumBytes) <=> 0 * NumBytes >= bytes
      BY <1>1, EnoughBeats
    <2>3. 1 >= CeilDiv(bytes, NumBytes) <=> 1 * NumBytes >= bytes
      BY <1>1, EnoughBeats
    <2>4. NumBeats(p) = CeilDiv(bytes, NumBytes)
      BY <1>5 DEF NumBeats
    <2>5. QED
      BY <1>1, <1>5, <2>1, <2>2, <2>3, <2>4
  <1>7. lo = 0 /\ hi = 0 /\ store_in_second_half = FALSE /\ last_received = FALSE /\ varint = NoVarint
    BY DEF IdleInv
  <1>8. PICK off \in 0..(NumBytes - 1) : off = p.offset
    BY <1>4
  <1>9. CASE with_input
    <2>1. /\ state' = "HEADER2" /\ beats' = 1 /\ lo' = 1 /\ hi' = 0
          /\ last_received' = (enough = 1) /\ store_in_second_half' = TRUE
          /\ varint' = ReadVarint(p, 1, 0, enough = 1, off)
      BY <1>2, <1>6, <1>7, <1>8, <1>9 DEF Configure
    <2>2. Filled' = 1
      BY <2>1 DEF Filled
    <2>3. Base' = 0 /\ End' = NumBytes
      <3>1. Base' = (1 - 1) * NumBytes /\ End' = 1 * NumBytes
        BY <2>1, <2>2 DEF Base, End
      <3>2. QED
        BY <1>1, <3>1
    <2>4. PICK lst \in BOOLEAN : lst = (enough = 1) /\ lst = (NumBytes >= bytes)
      <3>1. PICK lst \in BOOLEAN : lst = (enough = 1)
        OBVIOUS
      <3>2. lst <=> NumBytes >= bytes
        <4>1. enough = 1 <=> NumBytes >= bytes
          BY <1>6
        <4>2. QED
          BY <3>1, <4>1, Zenon
      <3>3. lst = (NumBytes >= bytes)
        BY <3>2
      <3>4. QED
        BY <3>1, <3>3, Zenon
    <2>5. WindowInv(p)'
      <3>1. Holds(lo', hi', beats', Filled')
        BY <2>1, <2>2 DEF Holds
      <3>2. /\ beats' \in Nat /\ store_in_second_half' \in BOOLEAN /\ last_received' \in BOOLEAN
            /\ beats' <= NumBeats(p) /\ last_received' = (End' >= PageBytes(p))
        BY <1>5, <1>6, <2>1, <2>3, <2>4
      <3>3. QED
        BY <3>1, <3>2 DEF WindowInv
    <2>6. ReadsAt(varint', p, last_received', beats', off)
      <3>1. PICK b \in Nat, f \in 0..2 : b = 1 /\ f = 1 /\ (b - f) * NumBytes + off = off /\ b * NumBytes = NumBytes
        <4>1. 1 \in Nat /\ 1 \in 0..2 /\ (1 - 1) * NumBytes + off = off /\ 1 * NumBytes = NumBytes
          BY <1>1
        <4>2. QED
          BY <4>1
      <3>2. Holds(1, 0, b, f)
        BY <3>1 DEF Holds
      <3>3. lst = (b * NumBytes >= PageBytes(p)) /\ PageBytes(p) \in Nat /\ off \in 0..(2 * NumBytes - 1)
        BY <1>1, <1>5, <2>4, <3>1
      <3>4. ReadsAt(ReadVarint(p, 1, 0, lst, off), p, lst, b, (b - f) * NumBytes + off)
        BY <3>2, <3>3, ReadVarintReads
      <3>5. QED
        BY <2>1, <2>4, <3>1, <3>4
    <2>7. Registers'
      <3>1. beats' \in Nat /\ {lo', hi'} \subseteq 0..beats'
        BY <2>1
      <3>2. {varint'.at, varint'.row} \subseteq -1..(NumBytes * beats') /\ varint'.valid \in BOOLEAN
        BY <2>1, <2>6 DEF ReadsAt
      <3>3. {remaining_values', count', bpe_remaining_inputs'} \subseteq Nat
        BY <1>2, <1>4 DEF Registers
      <3>4. {store_in_second_half', last_received'} \subseteq BOOLEAN
        BY <2>1
      <3>5. offset' \in 0..(NumBytes - 1) /\ varint_offset' \in 0..(2 * NumBytes - 1)
        BY <1>1, <1>2, <1>8
      <3>6. QED
        BY <3>1, <3>2, <3>3, <3>4, <3>5 DEF Registers, Window
    <2>8. HeaderInv(p, 1)'
      <3>1. Base' + varint_offset' = HeaderAt(p, 1) /\ varint_offset' <= NumBytes + 3
        BY <1>1, <1>2, <1>4, <1>8, <2>3
      <3>2. AtHeader(p, 1)'
        BY <2>2, <3>1 DEF AtHeader
      <3>3. Given(p, 1)'
        BY <1>4, <1>8, <2>6 DEF Given, ReadsAt, End
      <3>4. QED
        BY <1>2, <1>4, <3>2, <3>3 DEF HeaderInv
    <2>9. RunAt(p, 1, 0)'
      BY <1>4, <2>1, <2>8 DEF RunAt
    <2>10. QED
      BY <1>2, <1>3, <2>5, <2>7, <2>9
  <1>10. CASE ~with_input
    <2>1. /\ state' = "HEADER" /\ beats' = 0 /\ lo' = 0 /\ hi' = 0
          /\ last_received' = FALSE /\ store_in_second_half' = FALSE /\ varint' = NoVarint
      BY <1>2, <1>7, <1>10 DEF Configure
    <2>2. Filled' = 0
      BY <2>1 DEF Filled
    <2>3. Base' = 0 /\ End' = 0
      <3>1. Base' = (0 - 0) * NumBytes /\ End' = 0 * NumBytes
        BY <2>1, <2>2 DEF Base, End
      <3>2. QED
        BY <1>1, <3>1
    <2>4. WindowInv(p)'
      <3>1. Holds(lo', hi', beats', Filled')
        BY <2>1, <2>2 DEF Holds
      <3>2. beats' \in Nat /\ beats' <= NumBeats(p)
        BY <1>6, <2>1
      <3>3. ~(End' >= PageBytes(p))
        BY <1>5, <2>3
      <3>4. last_received' \in BOOLEAN /\ (last_received' <=> End' >= PageBytes(p))
        BY <2>1, <3>3
      <3>5. last_received' = (End' >= PageBytes(p))
        BY <3>4
      <3>6. QED
        BY <2>1, <3>1, <3>2, <3>5 DEF WindowInv
    <2>5. varint'.at = -1 /\ varint'.row = 0 /\ varint'.valid = FALSE
      BY <2>1 DEF NoVarint, None
    <2>6. Registers'
      <3>1. beats' \in Nat /\ {lo', hi'} \subseteq 0..beats'
        BY <2>1
      <3>2. {varint'.at, varint'.row} \subseteq -1..(NumBytes * beats') /\ varint'.valid \in BOOLEAN
        <4>1. NumBytes * beats' = 0
          BY <1>1, <2>1
        <4>2. -1 \in -1..(NumBytes * beats') /\ 0 \in -1..(NumBytes * beats')
          BY <4>1
        <4>3. QED
          BY <2>5, <4>2, Zenon
      <3>3. {remaining_values', count', bpe_remaining_inputs'} \subseteq Nat
        BY <1>2, <1>4 DEF Registers
      <3>4. {store_in_second_half', last_received'} \subseteq BOOLEAN
        BY <2>1
      <3>5. offset' \in 0..(NumBytes - 1) /\ varint_offset' \in 0..(2 * NumBytes - 1)
        BY <1>1, <1>2, <1>8
      <3>6. QED
        BY <3>1, <3>2, <3>3, <3>4, <3>5 DEF Registers, Window
    <2>7. HeaderInv(p, 1)'
      <3>1. Base' + varint_offset' = HeaderAt(p, 1) /\ varint_offset' <= NumBytes + 3
        BY <1>1, <1>2, <1>4, <1>8, <2>3
      <3>2. AtHeader(p, 1)'
        BY <2>2, <3>1 DEF AtHeader
      <3>3. FALSE = (off + 3 < End')
        BY <2>3
      <3>4. Given(p, 1)'
        BY <1>4, <1>8, <2>1, <2>5, <3>3 DEF Given, Reading
      <3>5. QED
        BY <1>2, <1>4, <3>2, <3>4 DEF HeaderInv
    <2>8. RunAt(p, 1, 0)'
      BY <1>4, <2>1, <2>7 DEF RunAt
    <2>9. QED
      BY <1>2, <1>3, <2>4, <2>6, <2>8
  <1>11. QED
    BY <1>9, <1>10

LEMMA SlicePosition ==
  ASSUME Sizes, NEW l \in Nat, NEW h \in Nat, NEW o \in Nat, NEW n
  PROVE  Slice(l, h, o, n) \in Int
  <1>1. NumBytes \in Nat
    BY DEF Sizes
  <1>2. Trim(o) \in 0..(NumBytes - 1)
    BY Offsets
  <1>3. Pos(l, h, o) \in Int
    <2>1. PICK b \in Nat : b = IF o < NumBytes THEN l ELSE h
      OBVIOUS
    <2>2. Pos(l, h, o) = IF o >= Window \/ b = 0 THEN -1 ELSE (b - 1) * NumBytes + Trim(o)
      BY <2>1 DEF Pos, None
    <2>3. (b - 1) * NumBytes + Trim(o) \in Int
      BY <1>1, <1>2
    <2>4. QED
      BY <2>2, <2>3
  <1>4. Slice(l, h, o, n) \in {0, Pos(l, h, o), -1}
    BY Zenon DEF Slice, None
  <1>5. QED
    BY <1>3, <1>4

\* The queues hold what they have room for.
LEMMA QueuesKept ==
  ASSUME Sizes, Registers, Queues, [Next]_vars
  PROVE  Queues'
  <1>1. /\ order \in Seq({"RLE", "BPE"}) /\ rle \in Seq(Item) /\ bpe \in Seq(Item)
        /\ Len(order) <= OrderDepth /\ Len(rle) <= RleDepth /\ Len(bpe) <= BpeDepth
        /\ OrderDepth \in Nat /\ RleDepth \in Nat /\ BpeDepth \in Nat
    BY DecoderSizes DEF Queues
  <1>2. lo \in Nat /\ hi \in Nat /\ offset \in Nat /\ count \in Nat /\ NumElements \in Nat
    BY DecoderSizes DEF Registers
  <1>3. CASE DecodeRle
    <2>1. PICK item \in Item : item = [at |-> Slice(lo, hi, offset, RleWidth), count |-> count]
      BY <1>2, SlicePosition DEF Item
    <2>2. /\ order' = Append(order, "RLE") /\ rle' = Append(rle, item) /\ bpe' = bpe
          /\ Len(order) < OrderDepth /\ Len(rle) < RleDepth
      BY <1>3, <2>1 DEF DecodeRle
    <2>3. QED
      BY <1>1, <2>2 DEF Queues
  <1>4. CASE DecodeBpe
    <2>1. PICK item \in Item : bpe' = Append(bpe, item)
      <3>1. PICK n \in Nat : /\ n = IF count <= NumElements THEN count ELSE NumElements
                             /\ bpe' = Append(bpe, [at |-> Slice(lo, hi, offset, CeilDiv(n * page.bit_width, 8)),
                                                    count |-> n])
        BY <1>2, <1>4 DEF DecodeBpe
      <3>2. Slice(lo, hi, offset, CeilDiv(n * page.bit_width, 8)) \in Int
        BY <1>2, SlicePosition
      <3>3. QED
        BY <3>1, <3>2 DEF Item
    <2>2. /\ order' = Append(order, "BPE") /\ rle' = rle
          /\ Len(order) < OrderDepth /\ Len(bpe) < BpeDepth
      BY <1>4 DEF DecodeBpe, OrderBpe
    <2>3. QED
      BY <1>1, <2>1, <2>2 DEF Queues
  <1>5. CASE OutputRle
    <2>1. rle # <<>> /\ order # <<>> /\ bpe' = bpe
      BY <1>5 DEF OutputRle
    <2>2. order' \in {order, Tail(order)}
      BY <1>5 DEF OutputRle
    <2>3. rle' \in Seq(Item) /\ Len(rle') <= Len(rle)
      <3>1. Head(rle) \in Item /\ Tail(rle) \in Seq(Item) /\ Len(Tail(rle)) = Len(rle) - 1
        BY <1>1, <2>1
      <3>2. CASE Head(rle).count <= NumElements
        <4>1. rle' = Tail(rle)
          BY <1>5, <3>2 DEF OutputRle
        <4>2. QED
          BY <1>1, <3>1, <4>1
      <3>3. CASE ~(Head(rle).count <= NumElements)
        <4>1. PICK item \in Item : rle' = <<item>> \o Tail(rle)
          <5>1. [Head(rle) EXCEPT !.count = @ - NumElements] \in Item
            <6>1. PICK r \in Item : r = Head(rle)
              BY <3>1
            <6>2. r.at \in Int /\ r.count \in Nat /\ r.count - NumElements \in Nat
              BY <1>2, <3>3, <6>1 DEF Item
            <6>3. [r EXCEPT !.count = r.count - NumElements] = [at |-> r.at, count |-> r.count - NumElements]
              BY <6>1 DEF Item
            <6>4. QED
              BY <6>1, <6>2, <6>3 DEF Item
          <5>2. rle' = <<[Head(rle) EXCEPT !.count = @ - NumElements]>> \o Tail(rle)
            BY <1>5, <3>3 DEF OutputRle
          <5>3. QED
            BY <5>1, <5>2
        <4>2. QED
          BY <1>1, <3>1, <4>1
      <3>4. QED
        BY <3>2, <3>3
    <2>4. order' \in Seq({"RLE", "BPE"}) /\ Len(order') <= Len(order)
      <3>1. Tail(order) \in Seq({"RLE", "BPE"}) /\ Len(Tail(order)) <= Len(order)
        BY <1>1, <2>1
      <3>2. CASE order' = order
        BY <1>1, <3>2
      <3>3. CASE order' = Tail(order)
        BY <3>1, <3>3
      <3>4. QED
        BY <2>2, <3>2, <3>3
    <2>5. QED
      BY <1>1, <2>1, <2>3, <2>4 DEF Queues
  <1>6. CASE OutputBpe
    <2>1. /\ order # <<>> /\ bpe # <<>>
          /\ order' = Tail(order) /\ bpe' = Tail(bpe) /\ rle' = rle
      BY <1>6 DEF OutputBpe
    <2>2. QED
      BY <1>1, <2>1 DEF Queues
  <1>7. CASE UNCHANGED output_vars
    BY <1>1, <1>7 DEF Queues, output_vars
  <1>8. \/ DecodeRle \/ DecodeBpe \/ OutputRle \/ OutputBpe \/ UNCHANGED output_vars
    BY DEF Next, Step, Output, Done, Configure, HeaderInput, HeaderDecoded, PayloadInput, vars, output_vars
  <1>9. QED
    BY <1>3, <1>4, <1>5, <1>6, <1>7, <1>8

-----------------------------------------------------------------------------
(* The databeats of the pages.                                             *)

\* The decoder's sizes, and the pages it is made for.
MadeFor ==
  /\ NumElements = 16 /\ NumBytes >= 16
  /\ \A work \in Workloads : work \in Seq(Page) /\ \A k \in DOMAIN work : Decodable(work[k])

LEMMA MadeForSizes ==
  ASSUME MadeFor
  PROVE  Sizes
BY DecoderSizes DEF MadeFor, Sizes

\* The pages of a workload are ones the decoder is made for.
LEMMA PagesDecodable ==
  ASSUME MadeFor, NEW ps \in Workloads
  PROVE  /\ Len(ps) \in Nat /\ DOMAIN ps = 1..Len(ps)
         /\ \A k \in 1..Len(ps) : Decodable(ps[k])
BY DEF MadeFor

\* The databeats of a page's runs: no more than its values need, run after run.
LEMMA BeatNumbers ==
  ASSUME Sizes, NEW p, Decodable(p)
  PROVE  /\ \A i \in 1..Len(p.runs) :
              /\ RunValues(p, i) \in Nat /\ RunValues(p, i) >= 1
              /\ RunBeats(p, i) \in Nat /\ RunBeats(p, i) >= 1
              /\ RunValues(p, i) <= 16 * RunBeats(p, i)
              /\ RunValues(p, i) > 16 * (RunBeats(p, i) - 1)
              /\ BeatsBefore(p, i + 1) = BeatsBefore(p, i) + RunBeats(p, i)
         /\ BeatsBefore(p, 1) = 0
         /\ \A i \in 1..(Len(p.runs) + 1) : BeatsBefore(p, i) \in Nat
  <1> DEFINE n == Len(p.runs)
             bs == [k \in DOMAIN p.runs |-> RunBeats(p, k)]
  <1>1. p.runs \in Seq(Run) /\ n \in Nat /\ DOMAIN p.runs = 1..n
    <2>1. p \in Page
      BY DEF Decodable
    <2>2. QED
      BY <2>1 DEF Page
  <1>2. ASSUME NEW i \in 1..n
        PROVE  /\ RunValues(p, i) \in Nat /\ RunValues(p, i) >= 1
               /\ RunBeats(p, i) \in Nat /\ RunBeats(p, i) >= 1
               /\ RunValues(p, i) <= 16 * RunBeats(p, i)
               /\ RunValues(p, i) > 16 * (RunBeats(p, i) - 1)
    <2>1. PICK v \in Nat : v = RunValues(p, i) /\ v >= 1
      <3>1. p.num_values \in Nat /\ ValuesBefore(p, i) \in Nat /\ ValuesBefore(p, i) < p.num_values
        BY PageFacts, ValuesAfter
      <3>2. p.runs[i].count \in Nat /\ p.runs[i].count >= 1
        BY ValuesAfter
      <3>3. RunValues(p, i) = p.num_values - ValuesBefore(p, i) \/ RunValues(p, i) = p.runs[i].count
        BY DEF RunValues
      <3>4. QED
        BY <3>1, <3>2, <3>3
    <2>2. RunBeats(p, i) = (v + 16 - 1) \div 16
      BY <2>1 DEF RunBeats, CeilDiv, Sizes
    <2>3. PICK b \in Nat : b = (v + 16 - 1) \div 16 /\ v <= 16 * b /\ v > 16 * (b - 1)
      BY <2>1
    <2>4. b >= 1
      BY <2>1, <2>3
    <2>5. QED
      BY <2>1, <2>2, <2>3, <2>4
  <1>3. bs \in Seq(Nat) /\ Len(bs) = n /\ \A k \in 1..n : bs[k] = RunBeats(p, k)
    BY <1>1, <1>2
  <1>4. \A i : BeatsBefore(p, i) = Sums(0, bs)[i]
    BY DEF BeatsBefore
  <1> HIDE DEF bs
  <1>5. /\ Sums(0, bs)[1] = 0
        /\ \A k \in 1..Len(bs) : Sums(0, bs)[k + 1] = Sums(0, bs)[k] + bs[k]
        /\ \A k \in 1..(Len(bs) + 1) : Sums(0, bs)[k] \in Nat
    BY <1>3, SumsStep
  <1>6. QED
    BY <1>2, <1>3, <1>4, <1>5

\* The databeats of the pages of a workload, page after page.
LEMMA PageNumbers ==
  ASSUME MadeFor, NEW ps \in Workloads
  PROVE  /\ PagesBefore(ps, 1) = 0
         /\ \A q \in 1..Len(ps) :
              PagesBefore(ps, q + 1) = PagesBefore(ps, q) + BeatsBefore(ps[q], Len(ps[q].runs) + 1)
         /\ \A q \in 1..(Len(ps) + 1) : PagesBefore(ps, q) \in Nat
  <1> DEFINE bs == [k \in DOMAIN ps |-> BeatsBefore(ps[k], Len(ps[k].runs) + 1)]
  <1>1. Len(ps) \in Nat /\ DOMAIN ps = 1..Len(ps)
    BY PagesDecodable
  <1>2. ASSUME NEW k \in 1..Len(ps) PROVE BeatsBefore(ps[k], Len(ps[k].runs) + 1) \in Nat
    <2>1. PICK p : p = ps[k] /\ Decodable(p)
      BY PagesDecodable
    <2>2. Sizes /\ Len(p.runs) \in Nat
      BY <2>1, MadeForSizes, PageFacts
    <2>3. Len(p.runs) + 1 \in 1..(Len(p.runs) + 1)
      BY <2>2
    <2>4. BeatsBefore(p, Len(p.runs) + 1) \in Nat
      BY <2>1, <2>2, <2>3, BeatNumbers
    <2>5. QED
      BY <2>1, <2>4
  <1>3. /\ bs \in Seq(Nat) /\ Len(bs) = Len(ps)
        /\ \A k \in 1..Len(ps) : bs[k] = BeatsBefore(ps[k], Len(ps[k].runs) + 1)
    BY <1>1, <1>2
  <1>4. \A q : PagesBefore(ps, q) = Sums(0, bs)[q]
    BY DEF PagesBefore
  <1> HIDE DEF bs
  <1>5. /\ Sums(0, bs)[1] = 0
        /\ \A k \in 1..Len(bs) : Sums(0, bs)[k + 1] = Sums(0, bs)[k] + bs[k]
        /\ \A k \in 1..(Len(bs) + 1) : Sums(0, bs)[k] \in Nat
    BY <1>3, SumsStep
  <1>6. QED
    BY <1>3, <1>4, <1>5

\* The place of the first databeat of run i of page q.
Place(ps, q, i) == PagesBefore(ps, q) + BeatsBefore(ps[q], i)

LEMMA Places ==
  ASSUME MadeFor, NEW ps \in Workloads, NEW q \in 1..Len(ps)
  PROVE  /\ \A i \in 1..(Len(ps[q].runs) + 1) : Place(ps, q, i) \in Nat
         /\ Place(ps, q, 1) = PagesBefore(ps, q)
         /\ \A i \in 1..Len(ps[q].runs) : Place(ps, q, i + 1) = Place(ps, q, i) + RunBeats(ps[q], i)
         /\ Place(ps, q, Len(ps[q].runs) + 1) = PagesBefore(ps, q + 1)
  <1>1. PICK p : p = ps[q] /\ Decodable(p)
    BY PagesDecodable
  <1>2. Sizes /\ Len(p.runs) \in Nat
    BY <1>1, MadeForSizes, PageFacts
  <1>3. PICK a \in Nat : a = PagesBefore(ps, q)
    <2>1. Len(ps) \in Nat /\ q \in 1..(Len(ps) + 1)
      BY PagesDecodable
    <2>2. QED
      BY <2>1, PageNumbers
  <1>4. \A i : Place(ps, q, i) = a + BeatsBefore(p, i)
    BY <1>1, <1>3 DEF Place
  <1>5. /\ \A i \in 1..Len(p.runs) :
             BeatsBefore(p, i + 1) = BeatsBefore(p, i) + RunBeats(p, i) /\ RunBeats(p, i) \in Nat
        /\ BeatsBefore(p, 1) = 0
        /\ \A i \in 1..(Len(p.runs) + 1) : BeatsBefore(p, i) \in Nat
    BY <1>1, <1>2, BeatNumbers
  <1>6. ASSUME NEW i \in 1..Len(p.runs) PROVE Place(ps, q, i + 1) = Place(ps, q, i) + RunBeats(p, i)
    <2>1. i \in 1..(Len(p.runs) + 1)
      BY <1>2
    <2>2. QED
      BY <1>4, <1>5, <2>1
  <1>7. PagesBefore(ps, q + 1) = a + BeatsBefore(p, Len(p.runs) + 1)
    BY <1>1, <1>3, PageNumbers
  <1>8. QED
    BY <1>1, <1>3, <1>4, <1>5, <1>6, <1>7

\* The databeat that comes behind d others.
Due(ps, beat, d) == \E q \in 1..Len(ps) : \E i \in 1..Len(ps[q].runs), j \in Nat :
  j < RunBeats(ps[q], i) /\ d = Place(ps, q, i) + j /\ beat = BeatAt(ps[q], i, j)

LEMMA DueIsNext ==
  ASSUME MadeFor, NEW ps \in Workloads, NEW o, NEW beat, Due(ps, beat, Len(o))
  PROVE  beat \in NextBeats(ps, o)
  <1>0. PICK q \in 1..Len(ps) : \E i \in 1..Len(ps[q].runs), j \in Nat :
          j < RunBeats(ps[q], i) /\ Len(o) = Place(ps, q, i) + j /\ beat = BeatAt(ps[q], i, j)
    BY DEF Due
  <1>1. PICK i \in 1..Len(ps[q].runs), j \in Nat :
          j < RunBeats(ps[q], i) /\ Len(o) = Place(ps, q, i) + j /\ beat = BeatAt(ps[q], i, j)
    BY <1>0
  <1>2. PICK p : p = ps[q] /\ Decodable(p)
    BY PagesDecodable
  <1>3. Sizes /\ Len(p.runs) \in Nat /\ DOMAIN p.runs = 1..Len(p.runs) /\ DOMAIN ps = 1..Len(ps)
    <2>1. p \in Page
      BY <1>2 DEF Decodable
    <2>2. p.runs \in Seq(Run)
      BY <2>1 DEF Page
    <2>3. QED
      BY <2>2, MadeForSizes, PagesDecodable
  <1>4. PICK a \in Nat, b \in Nat : a = PagesBefore(ps, q) /\ b = BeatsBefore(p, i)
    <2>1. Len(ps) \in Nat /\ q \in 1..(Len(ps) + 1) /\ i \in 1..(Len(p.runs) + 1)
      BY <1>2, <1>3, PagesDecodable
    <2>2. PagesBefore(ps, q) \in Nat
      BY <2>1, PageNumbers
    <2>3. BeatsBefore(p, i) \in Nat
      BY <1>2, <1>3, <2>1, BeatNumbers
    <2>4. QED
      BY <2>2, <2>3
  <1>5. PICK m \in Nat : m = RunBeats(p, i)
    BY <1>2, <1>3, BeatNumbers
  <1> DEFINE ahead(x, y) == Len(o) - PagesBefore(ps, x) - BeatsBefore(ps[x], y)
  <1>6. ahead(q, i) = j
    <2>1. Len(o) = a + b + j
      BY <1>1, <1>2, <1>4 DEF Place
    <2>2. ahead(q, i) = Len(o) - a - b
      BY <1>2, <1>4
    <2>3. QED
      BY <2>1, <2>2
  <1>7. j \in 0..(RunBeats(ps[q], i) - 1)
    BY <1>1, <1>2, <1>5
  <1> HIDE DEF ahead
  <1>8. i \in {k \in DOMAIN ps[q].runs : ahead(q, k) \in 0..(RunBeats(ps[q], k) - 1)}
    BY <1>2, <1>3, <1>6, <1>7
  <1>9. beat = BeatAt(ps[q], i, ahead(q, i))
    BY <1>1, <1>6
  <1>10. beat \in {BeatAt(ps[q], y, ahead(q, y)) :
                     y \in {k \in DOMAIN ps[q].runs : ahead(q, k) \in 0..(RunBeats(ps[q], k) - 1)}}
    BY <1>8, <1>9, Zenon
  <1>11. NextBeats(ps, o) =
           UNION {{BeatAt(ps[x], y, ahead(x, y)) :
                     y \in {k \in DOMAIN ps[x].runs : ahead(x, k) \in 0..(RunBeats(ps[x], k) - 1)}} :
                  x \in DOMAIN ps}
    BY Zenon DEF NextBeats, ahead
  <1>12. q \in DOMAIN ps
    BY <1>3
  <1>13. PICK S : S = {BeatAt(ps[q], y, ahead(q, y)) :
                         y \in {k \in DOMAIN ps[q].runs : ahead(q, k) \in 0..(RunBeats(ps[q], k) - 1)}}
    OBVIOUS
  <1>14. PICK SS : SS = {{BeatAt(ps[x], y, ahead(x, y)) :
                            y \in {k \in DOMAIN ps[x].runs : ahead(x, k) \in 0..(RunBeats(ps[x], k) - 1)}} :
                         x \in DOMAIN ps}
    OBVIOUS
  <1>15. S \in SS
    BY <1>12, <1>13, <1>14, ZenonT(30)
  <1>16. beat \in S /\ NextBeats(ps, o) = UNION SS
    BY <1>10, <1>11, <1>13, <1>14, ZenonT(30)
  <1>17. QED
    BY <1>15, <1>16, Zenon

-----------------------------------------------------------------------------
(* What the queues hold.                                                   *)

\* The values of a databeat that an item of n values gives next.
Part(n) == IF n <= 16 THEN n ELSE 16

\* An item of ExpandRLE is the databeats from place d to before place e, one of ExpandBPE
\* the databeat of place d.
RleItem(ps, item, d, e) ==
  /\ item.count > 16 * (e - d - 1) /\ item.count <= 16 * (e - d)
  /\ \A k \in Nat : k < e - d => Due(ps, Beat("RLE", item, Part(item.count - 16 * k)), d + k)
BpeItem(ps, item, d) == Due(ps, Beat("BPE", item, item.count), d)

\* Entry k of the order queue is the databeats from place at[k] on, of the item r[k] of
\* ExpandRLE or b[k] of ExpandBPE; at[k + 1], r[k + 1] and b[k + 1] are the next ones.
Entry(ps, ord, rl, bp, at, r, b, k) ==
  IF ord[k] = "RLE"
  THEN /\ r[k] \in 1..Len(rl) /\ r[k + 1] = r[k] + 1 /\ b[k + 1] = b[k]
       /\ RleItem(ps, rl[r[k]], at[k], at[k + 1])
  ELSE /\ b[k] \in 1..Len(bp) /\ b[k + 1] = b[k] + 1 /\ r[k + 1] = r[k]
       /\ at[k + 1] = at[k] + 1 /\ BpeItem(ps, bp[b[k]], at[k])

\* The order queue and the items go from place f to place d.
Plan(ps, ord, rl, bp, f, d, at, r, b) ==
  /\ at[1] = f /\ r[1] = 1 /\ b[1] = 1
  /\ at[Len(ord) + 1] = d /\ r[Len(ord) + 1] = Len(rl) + 1 /\ b[Len(ord) + 1] = Len(bp) + 1
  /\ \A k \in 1..Len(ord) : Entry(ps, ord, rl, bp, at, r, b, k)
  /\ \A k, m \in 1..Len(ord) : k < m => IF ord[k] = "RLE" THEN r[k] < r[m] ELSE b[k] < b[m]

Index == [Nat -> Nat]
Indices(at, r, b) == {at, r, b} \subseteq Index
Planned(ps, ord, rl, bp, f, d) ==
  \E at, r, b : Indices(at, r, b) /\ Plan(ps, ord, rl, bp, f, d, at, r, b)

\* What Append and a changed value leave alone.
LEMMA Appended ==
  ASSUME NEW S, NEW s \in Seq(S), NEW e \in S, NEW n \in Nat, n = Len(s), NEW t, t = Append(s, e)
  PROVE  /\ t \in Seq(S) /\ Len(t) = n + 1 /\ t[n + 1] = e
         /\ \A k \in 1..n : t[k] = s[k]
OBVIOUS

\* A function of Nat changed at one place.
With(f, n, v) == [k \in Nat |-> IF k = n THEN v ELSE f[k]]

LEMMA Updated ==
  ASSUME NEW f \in Index, NEW n \in Nat, NEW v \in Nat
  PROVE  With(f, n, v) \in Index /\ With(f, n, v)[n] = v
BY DEF Index, With

LEMMA Kept ==
  ASSUME NEW f \in Index, NEW n \in Nat, NEW v \in Nat, NEW k \in Nat, k # n
  PROVE  With(f, n, v)[k] = f[k]
BY DEF Index, With

\* Indices continued after the n-th ones with e, x and y.
Extensible(at, r, b, n, e, x, y) == Indices(at, r, b) /\ {n, e, x, y} \subseteq Nat
Extended(at, r, b, n, e, x, y, at2, r2, b2) ==
  /\ Indices(at2, r2, b2) /\ at2[n + 1] = e /\ r2[n + 1] = x /\ b2[n + 1] = y
  /\ \A k \in 1..n : at2[k] = at[k] /\ r2[k] = r[k] /\ b2[k] = b[k]

LEMMA IndicesExtended ==
  ASSUME NEW at, NEW r, NEW b, NEW n, NEW e, NEW x, NEW y, Extensible(at, r, b, n, e, x, y)
  PROVE  \E at2, r2, b2 : Extended(at, r, b, n, e, x, y, at2, r2, b2)
  <1>1. at \in Index /\ r \in Index /\ b \in Index
    BY DEF Extensible, Indices
  <1>2. n + 1 \in Nat /\ \A k \in 1..n : k \in Nat /\ k # n + 1
    BY DEF Extensible
  <1>3. e \in Nat /\ x \in Nat /\ y \in Nat
    BY DEF Extensible
  <1>4. PICK h \in Nat, c \in Nat, u \in Nat, v \in Nat : h = n + 1 /\ c = e /\ u = x /\ v = y
    BY <1>2, <1>3
  <1>5. Indices(With(at, h, c), With(r, h, u), With(b, h, v))
    BY <1>1, Updated DEF Indices
  <1>6. With(at, h, c)[h] = c /\ With(r, h, u)[h] = u /\ With(b, h, v)[h] = v
    BY <1>1, Updated
  <1>7. ASSUME NEW k \in Nat, k # h
        PROVE  With(at, h, c)[k] = at[k] /\ With(r, h, u)[k] = r[k] /\ With(b, h, v)[k] = b[k]
    BY <1>1, <1>7, Kept
  <1>8. PICK at2, r2, b2 : at2 = With(at, h, c) /\ r2 = With(r, h, u) /\ b2 = With(b, h, v)
    OBVIOUS
  <1>9. \A k \in 1..n : at2[k] = at[k] /\ r2[k] = r[k] /\ b2[k] = b[k]
    BY <1>2, <1>4, <1>7, <1>8, Zenon
  <1>10. Extended(at, r, b, n, e, x, y, at2, r2, b2)
    BY <1>4, <1>5, <1>6, <1>8, <1>9, Zenon DEF Extended
  <1>11. QED
    BY <1>10

\* Indices of which the first place is f.
Restarted(at, r, b, f, at2) ==
  Indices(at2, r, b) /\ at2[1] = f /\ \A k \in Nat : k # 1 => at2[k] = at[k]

LEMMA IndicesRestarted ==
  ASSUME NEW at, NEW r, NEW b, NEW n, NEW f, NEW x, NEW y, Extensible(at, r, b, n, f, x, y)
  PROVE  \E at2 : Restarted(at, r, b, f, at2)
  <1>1. at \in Index /\ r \in Index /\ b \in Index /\ f \in Nat
    BY DEF Extensible, Indices
  <1>2. PICK h \in Nat, c \in Nat : h = 1 /\ c = f
    BY <1>1
  <1>3. With(at, h, c) \in Index /\ With(at, h, c)[h] = c
    BY <1>1, Updated
  <1>4. ASSUME NEW k \in Nat, k # h PROVE With(at, h, c)[k] = at[k]
    BY <1>1, <1>4, Kept
  <1>5. Indices(With(at, h, c), r, b)
    BY <1>1, <1>3 DEF Indices
  <1>6. Restarted(at, r, b, f, With(at, h, c))
    BY <1>2, <1>3, <1>4, <1>5, Zenon DEF Restarted
  <1>7. QED
    BY <1>6

\* An item handed to ExpandRLE takes the next places.
LEMMA RlePlanned ==
  ASSUME NEW ps, NEW ord \in Seq({"RLE", "BPE"}), NEW rl \in Seq(Item), NEW bp \in Seq(Item),
         NEW f \in Nat, NEW d \in Nat, Planned(ps, ord, rl, bp, f, d),
         NEW e \in Nat, NEW item \in Item, RleItem(ps, item, d, e)
  PROVE  Planned(ps, Append(ord, "RLE"), Append(rl, item), bp, f, e)
  <1>1. PICK at, r, b : Indices(at, r, b) /\ Plan(ps, ord, rl, bp, f, d, at, r, b)
    BY DEF Planned
  <1>2. PICK n \in Nat, x \in Nat, y \in Nat : n = Len(ord) /\ x = Len(rl) /\ y = Len(bp)
    OBVIOUS
  <1>3. /\ at[1] = f /\ r[1] = 1 /\ b[1] = 1
        /\ at[n + 1] = d /\ r[n + 1] = x + 1 /\ b[n + 1] = y + 1
        /\ \A k \in 1..n : Entry(ps, ord, rl, bp, at, r, b, k)
        /\ \A k, m \in 1..n : k < m => IF ord[k] = "RLE" THEN r[k] < r[m] ELSE b[k] < b[m]
    BY <1>1, <1>2 DEF Plan
  <1>4. PICK ord2 : ord2 = Append(ord, "RLE")
    OBVIOUS
  <1>5. PICK rl2 : rl2 = Append(rl, item)
    OBVIOUS
  <1>6. /\ ord2 \in Seq({"RLE", "BPE"}) /\ Len(ord2) = n + 1 /\ ord2[n + 1] = "RLE"
        /\ \A k \in 1..n : ord2[k] = ord[k]
    <2>1. "RLE" \in {"RLE", "BPE"}
      OBVIOUS
    <2>2. QED
      BY <1>2, <1>4, <2>1, Appended
  <1>7. /\ rl2 \in Seq(Item) /\ Len(rl2) = x + 1 /\ rl2[x + 1] = item
        /\ \A k \in 1..x : rl2[k] = rl[k]
    BY <1>2, <1>5, Appended
  <1>8. PICK at2, r2, b2 : Extended(at, r, b, n + 1, e, x + 2, y + 1, at2, r2, b2)
    <2>1. Extensible(at, r, b, n + 1, e, x + 2, y + 1)
      BY <1>1 DEF Extensible
    <2>2. QED
      BY <2>1, IndicesExtended, Zenon
  <1>9. /\ Indices(at2, r2, b2)
        /\ at2[n + 2] = e /\ r2[n + 2] = x + 2 /\ b2[n + 2] = y + 1
        /\ \A k \in 1..(n + 1) : at2[k] = at[k] /\ r2[k] = r[k] /\ b2[k] = b[k]
    <2>1. (n + 1) + 1 = n + 2
      OBVIOUS
    <2>2. QED
      BY <1>8, <2>1, Zenon DEF Extended
  <1>10. ASSUME NEW k \in 1..n PROVE Entry(ps, ord2, rl2, bp, at2, r2, b2, k)
    <2>1. k \in 1..(n + 1) /\ k + 1 \in 1..(n + 1)
      OBVIOUS
    <2>2. /\ at2[k] = at[k] /\ r2[k] = r[k] /\ b2[k] = b[k]
          /\ at2[k + 1] = at[k + 1] /\ r2[k + 1] = r[k + 1] /\ b2[k + 1] = b[k + 1]
          /\ ord2[k] = ord[k]
      BY <1>6, <1>9, <2>1
    <2>3. Entry(ps, ord, rl, bp, at, r, b, k)
      BY <1>3
    <2>4. CASE ord[k] = "RLE"
      <3>1. /\ r[k] \in 1..x /\ r[k + 1] = r[k] + 1 /\ b[k + 1] = b[k]
            /\ RleItem(ps, rl[r[k]], at[k], at[k + 1])
        BY <1>2, <2>3, <2>4 DEF Entry
      <3>2. r[k] \in 1..(x + 1) /\ rl2[r[k]] = rl[r[k]]
        <4>1. PICK c \in 1..x : c = r[k]
          BY <3>1
        <4>2. c \in 1..(x + 1)
          OBVIOUS
        <4>3. rl2[c] = rl[c]
          BY <1>7, Zenon
        <4>4. QED
          BY <4>1, <4>2, <4>3, Zenon
      <3>3. RleItem(ps, rl2[r[k]], at[k], at[k + 1])
        BY <3>1, <3>2
      <3>4. QED
        BY <1>7, <2>2, <2>4, <3>1, <3>2, <3>3 DEF Entry
    <2>5. CASE ord[k] # "RLE"
      BY <2>2, <2>3, <2>5 DEF Entry
    <2>6. QED
      BY <2>4, <2>5
  <1>11. Entry(ps, ord2, rl2, bp, at2, r2, b2, n + 1)
    <2>1. n + 1 \in 1..(n + 1) /\ (n + 1) + 1 = n + 2 /\ x + 1 \in 1..(x + 1)
      OBVIOUS
    <2>2. at2[n + 1] = d /\ r2[n + 1] = x + 1 /\ b2[n + 1] = y + 1
      BY <1>3, <1>9, <2>1
    <2>3. RleItem(ps, rl2[r2[n + 1]], at2[n + 1], at2[n + 2])
      BY <1>7, <1>9, <2>2
    <2>4. r2[n + 2] = r2[n + 1] + 1 /\ b2[n + 2] = b2[n + 1] /\ r2[n + 1] \in 1..Len(rl2)
      BY <1>7, <1>9, <2>1, <2>2
    <2>5. QED
      BY <1>6, <2>1, <2>3, <2>4 DEF Entry
  <1>12. ASSUME NEW k \in 1..(n + 1), NEW m \in 1..(n + 1), k < m
        PROVE  IF ord2[k] = "RLE" THEN r2[k] < r2[m] ELSE b2[k] < b2[m]
    <2>1. k \in 1..n /\ ord2[k] = ord[k] /\ r2[k] = r[k] /\ b2[k] = b[k] /\ r2[m] = r[m] /\ b2[m] = b[m]
      <3>1. k \in 1..n
        BY <1>12
      <3>2. QED
        BY <1>6, <1>9, <3>1
    <2>2. CASE m \in 1..n
      BY <1>3, <1>12, <2>1, <2>2
    <2>3. CASE m = n + 1
      <3>1. IF ord[k] = "RLE" THEN r[k] \in 1..x ELSE b[k] \in 1..y
        BY <1>2, <1>3, <2>1 DEF Entry
      <3>2. r[m] = x + 1 /\ b[m] = y + 1
        BY <1>3, <2>3
      <3>3. (\A u \in 1..x : u < x + 1) /\ (\A u \in 1..y : u < y + 1)
        OBVIOUS
      <3>4. IF ord[k] = "RLE" THEN r[k] < x + 1 ELSE b[k] < y + 1
        BY <3>1, <3>3, Zenon
      <3>5. QED
        BY <2>1, <3>2, <3>4, Zenon
    <2>4. QED
      BY <2>2, <2>3
  <1>13. \A k \in 1..(n + 1) : Entry(ps, ord2, rl2, bp, at2, r2, b2, k)
    <2>1. \A k \in 1..(n + 1) : k \in 1..n \/ k = n + 1
      OBVIOUS
    <2>2. QED
      BY <1>10, <1>11, <2>1
  <1>14. at2[1] = f /\ r2[1] = 1 /\ b2[1] = 1
    BY <1>3, <1>9
  <1>15. Plan(ps, ord2, rl2, bp, f, e, at2, r2, b2)
    <2>1. Len(ord2) + 1 = n + 2 /\ Len(rl2) + 1 = x + 2 /\ Len(bp) + 1 = y + 1
      BY <1>2, <1>6, <1>7
    <2>2. \A k \in 1..Len(ord2) : Entry(ps, ord2, rl2, bp, at2, r2, b2, k)
      BY <1>6, <1>13
    <2>3. \A k, m \in 1..Len(ord2) : k < m => IF ord2[k] = "RLE" THEN r2[k] < r2[m] ELSE b2[k] < b2[m]
      BY <1>6, <1>12
    <2>4. QED
      BY <1>9, <1>14, <2>1, <2>2, <2>3, Zenon DEF Plan
  <1>16. QED
    BY <1>4, <1>5, <1>9, <1>15, Zenon DEF Planned

\* An item handed to ExpandBPE takes the next place.
LEMMA BpePlanned ==
  ASSUME NEW ps, NEW ord \in Seq({"RLE", "BPE"}), NEW rl \in Seq(Item), NEW bp \in Seq(Item),
         NEW f \in Nat, NEW d \in Nat, Planned(ps, ord, rl, bp, f, d),
         NEW item \in Item, BpeItem(ps, item, d)
  PROVE  Planned(ps, Append(ord, "BPE"), rl, Append(bp, item), f, d + 1)
  <1>1. PICK at, r, b : Indices(at, r, b) /\ Plan(ps, ord, rl, bp, f, d, at, r, b)
    BY DEF Planned
  <1>2. PICK n \in Nat, x \in Nat, y \in Nat : n = Len(ord) /\ x = Len(rl) /\ y = Len(bp)
    OBVIOUS
  <1>3. /\ at[1] = f /\ r[1] = 1 /\ b[1] = 1
        /\ at[n + 1] = d /\ r[n + 1] = x + 1 /\ b[n + 1] = y + 1
        /\ \A k \in 1..n : Entry(ps, ord, rl, bp, at, r, b, k)
        /\ \A k, m \in 1..n : k < m => IF ord[k] = "RLE" THEN r[k] < r[m] ELSE b[k] < b[m]
    BY <1>1, <1>2 DEF Plan
  <1>4. PICK ord2 : ord2 = Append(ord, "BPE")
    OBVIOUS
  <1>5. PICK bp2 : bp2 = Append(bp, item)
    OBVIOUS
  <1>6. /\ ord2 \in Seq({"RLE", "BPE"}) /\ Len(ord2) = n + 1 /\ ord2[n + 1] = "BPE"
        /\ \A k \in 1..n : ord2[k] = ord[k]
    <2>1. "BPE" \in {"RLE", "BPE"}
      OBVIOUS
    <2>2. QED
      BY <1>2, <1>4, <2>1, Appended
  <1>7. /\ bp2 \in Seq(Item) /\ Len(bp2) = y + 1 /\ bp2[y + 1] = item
        /\ \A k \in 1..y : bp2[k] = bp[k]
    BY <1>2, <1>5, Appended
  <1>8. PICK at2, r2, b2 : Extended(at, r, b, n + 1, d + 1, x + 1, y + 2, at2, r2, b2)
    <2>1. Extensible(at, r, b, n + 1, d + 1, x + 1, y + 2)
      BY <1>1 DEF Extensible
    <2>2. QED
      BY <2>1, IndicesExtended, Zenon
  <1>9. /\ Indices(at2, r2, b2)
        /\ at2[n + 2] = d + 1 /\ r2[n + 2] = x + 1 /\ b2[n + 2] = y + 2
        /\ \A k \in 1..(n + 1) : at2[k] = at[k] /\ r2[k] = r[k] /\ b2[k] = b[k]
    <2>1. (n + 1) + 1 = n + 2
      OBVIOUS
    <2>2. QED
      BY <1>8, <2>1, Zenon DEF Extended
  <1>10. ASSUME NEW k \in 1..n PROVE Entry(ps, ord2, rl, bp2, at2, r2, b2, k)
    <2>1. k \in 1..(n + 1) /\ k + 1 \in 1..(n + 1)
      OBVIOUS
    <2>2. /\ at2[k] = at[k] /\ r2[k] = r[k] /\ b2[k] = b[k]
          /\ at2[k + 1] = at[k + 1] /\ r2[k + 1] = r[k + 1] /\ b2[k + 1] = b[k + 1]
          /\ ord2[k] = ord[k]
      BY <1>6, <1>9, <2>1
    <2>3. Entry(ps, ord, rl, bp, at, r, b, k)
      BY <1>3
    <2>4. CASE ord[k] # "RLE"
      <3>1. /\ b[k] \in 1..y /\ b[k + 1] = b[k] + 1 /\ r[k + 1] = r[k]
            /\ at[k + 1] = at[k] + 1 /\ BpeItem(ps, bp[b[k]], at[k])
        BY <1>2, <2>3, <2>4 DEF Entry
      <3>2. b[k] \in 1..(y + 1) /\ bp2[b[k]] = bp[b[k]]
        <4>1. PICK c \in 1..y : c = b[k]
          BY <3>1
        <4>2. c \in 1..(y + 1)
          OBVIOUS
        <4>3. bp2[c] = bp[c]
          BY <1>7, Zenon
        <4>4. QED
          BY <4>1, <4>2, <4>3, Zenon
      <3>3. BpeItem(ps, bp2[b[k]], at[k])
        BY <3>1, <3>2
      <3>4. QED
        BY <1>7, <2>2, <2>4, <3>1, <3>2, <3>3 DEF Entry
    <2>5. CASE ord[k] = "RLE"
      BY <2>2, <2>3, <2>5 DEF Entry
    <2>6. QED
      BY <2>4, <2>5
  <1>11. Entry(ps, ord2, rl, bp2, at2, r2, b2, n + 1)
    <2>1. n + 1 \in 1..(n + 1) /\ (n + 1) + 1 = n + 2 /\ y + 1 \in 1..(y + 1)
      OBVIOUS
    <2>2. at2[n + 1] = d /\ r2[n + 1] = x + 1 /\ b2[n + 1] = y + 1
      BY <1>3, <1>9, <2>1
    <2>3. BpeItem(ps, bp2[b2[n + 1]], at2[n + 1]) /\ at2[n + 2] = at2[n + 1] + 1
      BY <1>7, <1>9, <2>2
    <2>4. b2[n + 2] = b2[n + 1] + 1 /\ r2[n + 2] = r2[n + 1] /\ b2[n + 1] \in 1..Len(bp2)
      BY <1>7, <1>9, <2>1, <2>2
    <2>5. QED
      BY <1>6, <2>1, <2>3, <2>4 DEF Entry
  <1>12. ASSUME NEW k \in 1..(n + 1), NEW m \in 1..(n + 1), k < m
        PROVE  IF ord2[k] = "RLE" THEN r2[k] < r2[m] ELSE b2[k] < b2[m]
    <2>1. k \in 1..n /\ ord2[k] = ord[k] /\ r2[k] = r[k] /\ b2[k] = b[k] /\ r2[m] = r[m] /\ b2[m] = b[m]
      <3>1. k \in 1..n
        BY <1>12
      <3>2. QED
        BY <1>6, <1>9, <3>1
    <2>2. CASE m \in 1..n
      BY <1>3, <1>12, <2>1, <2>2
    <2>3. CASE m = n + 1
      <3>1. IF ord[k] = "RLE" THEN r[k] \in 1..x ELSE b[k] \in 1..y
        BY <1>2, <1>3, <2>1 DEF Entry
      <3>2. r[m] = x + 1 /\ b[m] = y + 1
        BY <1>3, <2>3
      <3>3. (\A u \in 1..x : u < x + 1) /\ (\A u \in 1..y : u < y + 1)
        OBVIOUS
      <3>4. IF ord[k] = "RLE" THEN r[k] < x + 1 ELSE b[k] < y + 1
        BY <3>1, <3>3, Zenon
      <3>5. QED
        BY <2>1, <3>2, <3>4, Zenon
    <2>4. QED
      BY <2>2, <2>3
  <1>13. \A k \in 1..(n + 1) : Entry(ps, ord2, rl, bp2, at2, r2, b2, k)
    <2>1. \A k \in 1..(n + 1) : k \in 1..n \/ k = n + 1
      OBVIOUS
    <2>2. QED
      BY <1>10, <1>11, <2>1
  <1>14. at2[1] = f /\ r2[1] = 1 /\ b2[1] = 1
    BY <1>3, <1>9
  <1>15. Plan(ps, ord2, rl, bp2, f, d + 1, at2, r2, b2)
    <2>1. Len(ord2) + 1 = n + 2 /\ Len(rl) + 1 = x + 1 /\ Len(bp2) + 1 = y + 2
      BY <1>2, <1>6, <1>7
    <2>2. \A k \in 1..Len(ord2) : Entry(ps, ord2, rl, bp2, at2, r2, b2, k)
      BY <1>6, <1>13
    <2>3. \A k, m \in 1..Len(ord2) : k < m => IF ord2[k] = "RLE" THEN r2[k] < r2[m] ELSE b2[k] < b2[m]
      BY <1>6, <1>12
    <2>4. QED
      BY <1>9, <1>14, <2>1, <2>2, <2>3, Zenon DEF Plan
  <1>16. QED
    BY <1>4, <1>5, <1>9, <1>15, Zenon DEF Planned

\* The first databeat of an item of ExpandRLE, and the item without it.
LEMMA RleHead ==
  ASSUME NEW ps, NEW item \in Item, NEW d \in Nat, NEW e \in Nat, RleItem(ps, item, d, e), item.count > 0
  PROVE  /\ Due(ps, Beat("RLE", item, Part(item.count)), d)
         /\ item.count <= 16 => e = d + 1
         /\ \A rest \in Item : item.count > 16 /\ rest.at = item.at /\ rest.count = item.count - 16
                                 => RleItem(ps, rest, d + 1, e)
  <1>1. PICK c \in Nat, l \in Int : c = item.count /\ l = e - d /\ c > 0
    BY DEF Item
  <1>2. /\ c > 16 * (l - 1) /\ c <= 16 * l
        /\ \A k \in Nat : k < l => Due(ps, Beat("RLE", item, Part(c - 16 * k)), d + k)
    BY <1>1 DEF RleItem
  <1>3. Due(ps, Beat("RLE", item, Part(c)), d)
    <2>1. 0 < l /\ c - 16 * 0 = c /\ d + 0 = d
      BY <1>1, <1>2
    <2>2. QED
      BY <1>2, <2>1
  <1>4. c <= 16 => e = d + 1
    BY <1>1, <1>2
  <1>5. ASSUME NEW rest \in Item, c > 16, rest.at = item.at, rest.count = c - 16
        PROVE  RleItem(ps, rest, d + 1, e)
    <2>1. rest.count > 16 * (e - (d + 1) - 1) /\ rest.count <= 16 * (e - (d + 1))
      BY <1>1, <1>2, <1>5
    <2>2. ASSUME NEW k \in Nat, k < e - (d + 1)
          PROVE  Due(ps, Beat("RLE", rest, Part(rest.count - 16 * k)), (d + 1) + k)
      <3>1. k + 1 \in Nat /\ k + 1 < l /\ (d + 1) + k = d + (k + 1) /\ (c - 16) - 16 * k = c - 16 * (k + 1)
        BY <1>1, <2>2
      <3>2. Due(ps, Beat("RLE", item, Part(c - 16 * (k + 1))), d + (k + 1))
        BY <1>2, <3>1
      <3>3. \A v : Beat("RLE", rest, v) = Beat("RLE", item, v)
        BY <1>5 DEF Beat
      <3>4. QED
        BY <1>5, <3>1, <3>2, <3>3
    <2>3. QED
      BY <2>1, <2>2 DEF RleItem
  <1>6. QED
    BY <1>1, <1>3, <1>4, <1>5

\* The last databeat of an item of ExpandRLE.
LEMMA RleLast ==
  ASSUME NEW ps, NEW item \in Item, NEW d \in Nat, NEW e \in Nat, RleItem(ps, item, d, e),
         item.count > 0, item.count <= 16
  PROVE  Due(ps, Beat("RLE", item, item.count), d) /\ e = d + 1
  <1>1. Part(item.count) = item.count
    BY DEF Part
  <1>2. Due(ps, Beat("RLE", item, Part(item.count)), d) /\ (item.count <= 16 => e = d + 1)
    BY RleHead
  <1>3. QED
    BY <1>1, <1>2

LEMMA Predecessor ==
  ASSUME NEW n \in Nat, NEW c \in 1..n, c > 1
  PROVE  c - 1 \in 1..(n - 1) /\ (c - 1) + 1 = c /\ (c + 1) - 1 = c
OBVIOUS

\* The indices without the first.
LEMMA Shifted ==
  ASSUME NEW f \in Index, NEW g, g = [k \in Nat |-> f[k + 1]],
         NEW h, h = [k \in Nat |-> IF f[k + 1] > 0 THEN f[k + 1] - 1 ELSE 0]
  PROVE  /\ g \in Index /\ h \in Index
         /\ \A k \in Nat : f[k] \in Nat /\ g[k] = f[k + 1]
         /\ \A k \in Nat : f[k + 1] > 0 => h[k] = f[k + 1] - 1
BY DEF Index

\* The item at the head goes on.
LEMMA RleContinued ==
  ASSUME NEW ps, NEW ord, NEW rl, NEW bp, Len(ord) \in Nat, Len(rl) \in Nat, Len(bp) \in Nat,
         NEW f \in Nat, NEW d \in Nat, Planned(ps, ord, rl, bp, f, d),
         Len(ord) >= 1, ord[1] = "RLE", rl[1] \in Item, rl[1].count > 16,
         NEW rl2, Len(rl2) = Len(rl), \A k \in 2..Len(rl) : rl2[k] = rl[k],
         rl2[1] \in Item, rl2[1].at = rl[1].at, rl2[1].count = rl[1].count - 16
  PROVE  /\ Due(ps, Beat("RLE", rl[1], 16), f)
         /\ Planned(ps, ord, rl2, bp, f + 1, d)
  <1>1. PICK at, r, b : Indices(at, r, b) /\ Plan(ps, ord, rl, bp, f, d, at, r, b)
    BY DEF Planned
  <1>2. PICK n \in Nat, x \in Nat, y \in Nat : n = Len(ord) /\ x = Len(rl) /\ y = Len(bp) /\ n >= 1
    OBVIOUS
  <1>3. /\ at[1] = f /\ r[1] = 1 /\ b[1] = 1
        /\ at[n + 1] = d /\ r[n + 1] = x + 1 /\ b[n + 1] = y + 1
        /\ \A k \in 1..n : Entry(ps, ord, rl, bp, at, r, b, k)
        /\ \A k, m \in 1..n : k < m => IF ord[k] = "RLE" THEN r[k] < r[m] ELSE b[k] < b[m]
    BY <1>1, <1>2 DEF Plan
  <1>4. PICK e \in Nat : e = at[2]
    <2>1. at \in Index
      BY <1>1 DEF Indices
    <2>2. at[2] \in Nat
      BY <2>1 DEF Index
    <2>3. QED
      BY <2>2
  <1>5. 1 \in 1..n /\ 1 + 1 = 2
    BY <1>2
  <1>6. /\ r[1] \in 1..x /\ r[2] = r[1] + 1 /\ b[2] = b[1] /\ RleItem(ps, rl[1], f, e)
    BY <1>2, <1>3, <1>4, <1>5 DEF Entry
  <1>7. /\ Due(ps, Beat("RLE", rl[1], Part(rl[1].count)), f)
        /\ RleItem(ps, rl2[1], f + 1, e)
    <2>1. rl[1].count > 0
      <3>1. rl[1].count \in Nat
        BY DEF Item
      <3>2. QED
        BY <3>1
    <2>2. QED
      BY <1>6, <2>1, RleHead
  <1>8. Part(rl[1].count) = 16
    BY DEF Part, Item
  <1>9. PICK at2 : Indices(at2, r, b) /\ at2[1] = f + 1 /\ \A k \in Nat : k # 1 => at2[k] = at[k]
    <2>1. Extensible(at, r, b, 1, f + 1, 1, 1)
      BY <1>1 DEF Extensible
    <2>2. PICK at2 : Restarted(at, r, b, f + 1, at2)
      BY <2>1, IndicesRestarted, Zenon
    <2>3. QED
      BY <2>2, Zenon DEF Restarted
  <1>10. at2[2] = e /\ at2[n + 1] = d
    <2>1. 2 \in Nat /\ 2 # 1 /\ n + 1 \in Nat /\ n + 1 # 1
      BY <1>2
    <2>2. QED
      BY <1>3, <1>4, <1>9, <2>1
  <1>11. Entry(ps, ord, rl2, bp, at2, r, b, 1)
    BY <1>2, <1>3, <1>5, <1>6, <1>7, <1>9, <1>10 DEF Entry
  <1>12. ASSUME NEW k \in 1..n, k # 1 PROVE Entry(ps, ord, rl2, bp, at2, r, b, k)
    <2>1. k \in Nat /\ k + 1 \in Nat /\ k + 1 # 1 /\ 1 < k
      BY <1>12
    <2>2. at2[k] = at[k] /\ at2[k + 1] = at[k + 1]
      BY <1>9, <1>12, <2>1
    <2>3. Entry(ps, ord, rl, bp, at, r, b, k) /\ r[1] < r[k]
      BY <1>3, <1>5, <1>12, <2>1
    <2>4. CASE ord[k] = "RLE"
      <3>1. /\ r[k] \in 1..x /\ r[k + 1] = r[k] + 1 /\ b[k + 1] = b[k]
            /\ RleItem(ps, rl[r[k]], at[k], at[k + 1])
        BY <1>2, <2>3, <2>4 DEF Entry
      <3>2. PICK c \in 1..x : c = r[k] /\ c > 1
        BY <1>3, <2>3, <3>1
      <3>3. c \in 2..Len(rl)
        BY <1>2, <3>2
      <3>4. rl2[r[k]] = rl[r[k]]
        BY <3>2, <3>3
      <3>5. QED
        BY <1>2, <2>2, <2>4, <3>1, <3>4 DEF Entry
    <2>5. CASE ord[k] # "RLE"
      BY <2>2, <2>3, <2>5 DEF Entry
    <2>6. QED
      BY <2>4, <2>5
  <1>13. Plan(ps, ord, rl2, bp, f + 1, d, at2, r, b)
    <2>1. \A k \in 1..n : Entry(ps, ord, rl2, bp, at2, r, b, k)
      BY <1>11, <1>12
    <2>2. /\ at2[Len(ord) + 1] = d /\ r[Len(ord) + 1] = Len(rl2) + 1 /\ b[Len(ord) + 1] = Len(bp) + 1
          /\ \A k \in 1..Len(ord) : Entry(ps, ord, rl2, bp, at2, r, b, k)
          /\ \A k, m \in 1..Len(ord) : k < m => IF ord[k] = "RLE" THEN r[k] < r[m] ELSE b[k] < b[m]
      BY <1>2, <1>3, <1>10, <2>1
    <2>3. QED
      BY <1>3, <1>9, <2>2, Zenon DEF Plan
  <1>14. QED
    BY <1>7, <1>8, <1>9, <1>13 DEF Planned

\* The item at the head has no more databeats.
LEMMA RleDone ==
  ASSUME NEW ps, NEW ord, NEW rl, NEW bp, Len(ord) \in Nat, Len(rl) \in Nat, Len(bp) \in Nat,
         NEW f \in Nat, NEW d \in Nat, Planned(ps, ord, rl, bp, f, d),
         Len(ord) >= 1, ord[1] = "RLE", rl[1] \in Item, rl[1].count > 0, rl[1].count <= 16,
         NEW ord2, Len(ord2) = Len(ord) - 1, \A k \in 1..Len(ord2) : ord2[k] = ord[k + 1],
         NEW rl2, Len(rl2) = Len(rl) - 1, \A k \in 1..Len(rl2) : rl2[k] = rl[k + 1]
  PROVE  /\ Due(ps, Beat("RLE", rl[1], rl[1].count), f)
         /\ Planned(ps, ord2, rl2, bp, f + 1, d)
  <1>1. PICK at, r, b : Indices(at, r, b) /\ Plan(ps, ord, rl, bp, f, d, at, r, b)
    BY DEF Planned
  <1>2. PICK n \in Nat, x \in Nat, y \in Nat : n = Len(ord) /\ x = Len(rl) /\ y = Len(bp) /\ n >= 1
    OBVIOUS
  <1>3. /\ at[1] = f /\ r[1] = 1 /\ b[1] = 1
        /\ at[n + 1] = d /\ r[n + 1] = x + 1 /\ b[n + 1] = y + 1
        /\ \A k \in 1..n : Entry(ps, ord, rl, bp, at, r, b, k)
        /\ \A k, m \in 1..n : k < m => IF ord[k] = "RLE" THEN r[k] < r[m] ELSE b[k] < b[m]
    BY <1>1, <1>2 DEF Plan
  <1>4. PICK e \in Nat : e = at[2]
    <2>1. at \in Index
      BY <1>1 DEF Indices
    <2>2. at[2] \in Nat
      BY <2>1 DEF Index
    <2>3. QED
      BY <2>2
  <1>5. 1 \in 1..n /\ 1 + 1 = 2
    BY <1>2
  <1>6. /\ r[1] \in 1..x /\ r[2] = 2 /\ b[2] = 1 /\ RleItem(ps, rl[1], f, e)
    BY <1>2, <1>3, <1>4, <1>5 DEF Entry
  <1>7. Due(ps, Beat("RLE", rl[1], rl[1].count), f) /\ e = f + 1
    <2>1. rl[1].count > 0 /\ rl[1].count <= 16
      OBVIOUS
    <2>2. QED
      BY <1>6, <2>1, RleLast
  <1>8. PICK at2, r2, b2 :
          /\ at2 = [k \in Nat |-> at[k + 1]]
          /\ r2 = [k \in Nat |-> IF r[k + 1] > 0 THEN r[k + 1] - 1 ELSE 0] /\ b2 = [k \in Nat |-> b[k + 1]]
    OBVIOUS
  <1>9. /\ Indices(at2, r2, b2) /\ \A k \in Nat : r[k] \in Nat /\ b[k] \in Nat
        /\ \A k \in Nat : at2[k] = at[k + 1] /\ b2[k] = b[k + 1]
        /\ \A k \in Nat : r[k + 1] > 0 => r2[k] = r[k + 1] - 1
    <2>1. at \in Index /\ r \in Index /\ b \in Index
      BY <1>1 DEF Indices
    <2>2. at2 \in Index /\ \A k \in Nat : at2[k] = at[k + 1]
      BY <1>8, <2>1, Shifted
    <2>3. b2 \in Index /\ \A k \in Nat : b[k] \in Nat /\ b2[k] = b[k + 1]
      BY <1>8, <2>1, Shifted
    <2>4. /\ r2 \in Index /\ \A k \in Nat : r[k] \in Nat
          /\ \A k \in Nat : r[k + 1] > 0 => r2[k] = r[k + 1] - 1
      BY <1>8, <2>1, Shifted
    <2>5. Indices(at2, r2, b2)
      BY <2>2, <2>3, <2>4 DEF Indices
    <2>6. QED
      BY <2>2, <2>3, <2>4, <2>5
  <1>10. \A k \in 1..n : r2[k] = r[k + 1] - 1 /\ k \in Nat
    <2>1. \A k \in 1..n : k \in Nat
      OBVIOUS
    <2>2. ASSUME NEW k \in 1..n PROVE r[k + 1] > 0
      <3>1. CASE k = n
        <4>1. x + 1 > 0
          OBVIOUS
        <4>2. QED
          BY <1>3, <3>1, <4>1
      <3>2. CASE k # n
        <4>1. k + 1 \in 1..n /\ 1 < k + 1
          BY <3>2
        <4>2. r[1] < r[k + 1]
          BY <1>3, <1>5, <4>1
        <4>3. k + 1 \in Nat
          BY <4>1
        <4>4. r[k + 1] \in Nat
          BY <1>9, <4>3, Zenon
        <4>5. PICK u \in Nat : u = r[k + 1]
          BY <4>4
        <4>6. 1 < u
          BY <1>3, <4>2, <4>5
        <4>7. QED
          BY <4>5, <4>6
      <3>3. QED
        BY <3>1, <3>2
    <2>3. QED
      BY <1>9, <2>1, <2>2, Zenon
  <1>11. PICK m \in Nat : m = n - 1 /\ n = m + 1 /\ Len(ord2) = m /\ Len(rl2) = x - 1
    BY <1>2
  <1>12. ASSUME NEW k \in 1..m PROVE Entry(ps, ord2, rl2, bp, at2, r2, b2, k)
    <2>1. k \in Nat /\ k + 1 \in Nat /\ k \in 1..n /\ k + 1 \in 1..n /\ 1 < k + 1
      BY <1>11
    <2>2. /\ at2[k] = at[k + 1] /\ at2[k + 1] = at[(k + 1) + 1]
          /\ b2[k] = b[k + 1] /\ b2[k + 1] = b[(k + 1) + 1]
          /\ r2[k] = r[k + 1] - 1 /\ r2[k + 1] = r[(k + 1) + 1] - 1 /\ ord2[k] = ord[k + 1]
      BY <1>9, <1>10, <1>11, <2>1
    <2>3. Entry(ps, ord, rl, bp, at, r, b, k + 1) /\ r[1] < r[k + 1]
      BY <1>3, <1>5, <2>1
    <2>4. PICK j \in 1..n : j = k + 1
      BY <2>1
    <2>5. CASE ord[j] = "RLE"
      <3>1. /\ r[j] \in 1..x /\ r[j + 1] = r[j] + 1 /\ b[j + 1] = b[j]
            /\ RleItem(ps, rl[r[j]], at[j], at[j + 1])
        BY <1>2, <2>3, <2>4, <2>5 DEF Entry
      <3>2. PICK c \in 1..x : c = r[j] /\ c > 1
        BY <1>3, <2>3, <2>4, <3>1
      <3>3. c - 1 \in 1..(x - 1) /\ (c - 1) + 1 = c
        BY <3>2, Predecessor
      <3>4. rl2[c - 1] = rl[c]
        BY <1>11, <3>3
      <3>5. r2[k] = c - 1 /\ r2[k + 1] = c /\ r2[k + 1] = r2[k] + 1
        <4>1. r2[k] = c - 1 /\ r2[k + 1] = (c + 1) - 1
          BY <2>2, <2>4, <3>1, <3>2, Zenon
        <4>2. (c + 1) - 1 = c /\ (c - 1) + 1 = c
          BY <3>2, Predecessor
        <4>3. QED
          BY <4>1, <4>2, Zenon
      <3>6. RleItem(ps, rl2[r2[k]], at2[k], at2[k + 1])
        BY <2>2, <2>4, <3>1, <3>2, <3>4, <3>5
      <3>7. QED
        BY <1>11, <2>2, <2>4, <2>5, <3>1, <3>3, <3>5, <3>6 DEF Entry
    <2>6. CASE ord[j] # "RLE"
      <3>1. /\ b[j] \in 1..Len(bp) /\ b[j + 1] = b[j] + 1 /\ r[j + 1] = r[j]
            /\ at[j + 1] = at[j] + 1 /\ BpeItem(ps, bp[b[j]], at[j])
        BY <2>3, <2>4, <2>6 DEF Entry
      <3>2. ord2[k] # "RLE" /\ b2[k] = b[j] /\ b2[k + 1] = b[j + 1] /\ at2[k] = at[j] /\ at2[k + 1] = at[j + 1]
            /\ r2[k + 1] = r2[k]
        BY <2>2, <2>4, <2>6, <3>1
      <3>3. QED
        BY <3>1, <3>2, Zenon DEF Entry
    <2>7. QED
      BY <2>5, <2>6
  <1>13. ASSUME NEW k \in 1..m, NEW j \in 1..m, k < j
         PROVE  IF ord2[k] = "RLE" THEN r2[k] < r2[j] ELSE b2[k] < b2[j]
    <2>0. k < j
      BY <1>13
    <2>1. k + 1 \in 1..n /\ j + 1 \in 1..n /\ k + 1 < j + 1 /\ k \in 1..n /\ j \in 1..n
      BY <1>11, <2>0
    <2>2. IF ord[k + 1] = "RLE" THEN r[k + 1] < r[j + 1] ELSE b[k + 1] < b[j + 1]
      BY <1>3, <2>1
    <2>3. /\ r2[k] = r[k + 1] - 1 /\ r2[j] = r[j + 1] - 1
          /\ b2[k] = b[k + 1] /\ b2[j] = b[j + 1] /\ ord2[k] = ord[k + 1]
      BY <1>9, <1>10, <1>11, <2>1
    <2>4. r[k + 1] < r[j + 1] => r2[k] < r2[j]
      <3>0. k + 1 \in Nat /\ j + 1 \in Nat
        BY <2>1
      <3>7. r[k + 1] \in Nat /\ r[j + 1] \in Nat
        BY <1>9, <3>0, Zenon
      <3>1. PICK u \in Nat, v \in Nat : u = r[k + 1] /\ v = r[j + 1]
        BY <3>7
      <3>2. r2[k] = u - 1 /\ r2[j] = v - 1
        BY <2>3, <3>1
      <3>3. u < v => u - 1 < v - 1
        OBVIOUS
      <3>4. QED
        BY <3>1, <3>2, <3>3
    <2>5. QED
      BY <2>2, <2>3, <2>4, Zenon
  <1>14. Plan(ps, ord2, rl2, bp, f + 1, d, at2, r2, b2)
    <2>1. at2[1] = f + 1 /\ r2[1] = 1 /\ b2[1] = 1
      <3>1. r2[1] = 2 - 1
        BY <1>5, <1>6, <1>10
      <3>2. at2[1] = e /\ b2[1] = 1
        <4>1. 1 \in Nat
          OBVIOUS
        <4>2. at2[1] = at[1 + 1] /\ b2[1] = b[1 + 1]
          BY <1>9, <4>1, Zenon
        <4>3. QED
          BY <1>4, <1>5, <1>6, <4>2
      <3>3. QED
        BY <1>7, <3>1, <3>2
    <2>2. at2[n] = d /\ r2[n] = x /\ b2[n] = y + 1
      <3>1. n \in 1..n /\ (x + 1) - 1 = x
        BY <1>2
      <3>2. r2[n] = r[n + 1] - 1 /\ at2[n] = at[n + 1] /\ b2[n] = b[n + 1]
        BY <1>9, <1>10, <3>1
      <3>3. QED
        BY <1>3, <3>1, <3>2
    <2>3. /\ at2[Len(ord2) + 1] = d /\ r2[Len(ord2) + 1] = Len(rl2) + 1 /\ b2[Len(ord2) + 1] = Len(bp) + 1
      <3>1. Len(ord2) + 1 = n /\ Len(rl2) + 1 = x /\ Len(bp) + 1 = y + 1
        BY <1>2, <1>11
      <3>2. QED
        BY <2>2, <3>1
    <2>4. /\ \A k \in 1..Len(ord2) : Entry(ps, ord2, rl2, bp, at2, r2, b2, k)
          /\ \A k, j \in 1..Len(ord2) : k < j => IF ord2[k] = "RLE" THEN r2[k] < r2[j] ELSE b2[k] < b2[j]
      BY <1>11, <1>12, <1>13
    <2>5. QED
      BY <2>1, <2>3, <2>4, Zenon DEF Plan
  <1>15. QED
    BY <1>7, <1>9, <1>14, Zenon DEF Planned

\* An item of ExpandBPE is one databeat.
LEMMA BpeDone ==
  ASSUME NEW ps, NEW ord, NEW rl, NEW bp, Len(ord) \in Nat, Len(rl) \in Nat, Len(bp) \in Nat,
         NEW f \in Nat, NEW d \in Nat, Planned(ps, ord, rl, bp, f, d),
         Len(ord) >= 1, ord[1] = "BPE",
         NEW ord2, Len(ord2) = Len(ord) - 1, \A k \in 1..Len(ord2) : ord2[k] = ord[k + 1],
         NEW bp2, Len(bp2) = Len(bp) - 1, \A k \in 1..Len(bp2) : bp2[k] = bp[k + 1]
  PROVE  /\ Due(ps, Beat("BPE", bp[1], bp[1].count), f)
         /\ Planned(ps, ord2, rl, bp2, f + 1, d)
  <1>1. PICK at, r, b : Indices(at, r, b) /\ Plan(ps, ord, rl, bp, f, d, at, r, b)
    BY DEF Planned
  <1>2. PICK n \in Nat, x \in Nat, y \in Nat : n = Len(ord) /\ x = Len(rl) /\ y = Len(bp) /\ n >= 1
    OBVIOUS
  <1>3. /\ at[1] = f /\ r[1] = 1 /\ b[1] = 1
        /\ at[n + 1] = d /\ r[n + 1] = x + 1 /\ b[n + 1] = y + 1
        /\ \A k \in 1..n : Entry(ps, ord, rl, bp, at, r, b, k)
        /\ \A k, m \in 1..n : k < m => IF ord[k] = "RLE" THEN r[k] < r[m] ELSE b[k] < b[m]
    BY <1>1, <1>2 DEF Plan
  <1>4. 1 \in 1..n /\ 1 + 1 = 2
    BY <1>2
  <1>5. /\ ord[1] # "RLE" /\ b[1] \in 1..y /\ b[2] = 2 /\ r[2] = 1 /\ at[2] = f + 1 /\ BpeItem(ps, bp[1], f)
    <2>1. Entry(ps, ord, rl, bp, at, r, b, 1) /\ ord[1] # "RLE"
      BY <1>3, <1>4
    <2>2. /\ b[1] \in 1..Len(bp) /\ b[1 + 1] = b[1] + 1 /\ r[1 + 1] = r[1]
          /\ at[1 + 1] = at[1] + 1 /\ BpeItem(ps, bp[b[1]], at[1])
      BY <2>1, Zenon DEF Entry
    <2>3. QED
      BY <1>2, <1>3, <1>4, <2>1, <2>2
  <1>6. Due(ps, Beat("BPE", bp[1], bp[1].count), f)
    BY <1>5 DEF BpeItem
  <1>7. PICK at2, r2, b2 :
          /\ at2 = [k \in Nat |-> at[k + 1]]
          /\ b2 = [k \in Nat |-> IF b[k + 1] > 0 THEN b[k + 1] - 1 ELSE 0] /\ r2 = [k \in Nat |-> r[k + 1]]
    OBVIOUS
  <1>8. /\ Indices(at2, r2, b2) /\ \A k \in Nat : b[k] \in Nat /\ r[k] \in Nat
        /\ \A k \in Nat : at2[k] = at[k + 1] /\ r2[k] = r[k + 1]
        /\ \A k \in Nat : b[k + 1] > 0 => b2[k] = b[k + 1] - 1
    <2>1. at \in Index /\ b \in Index /\ r \in Index
      BY <1>1 DEF Indices
    <2>2. at2 \in Index /\ \A k \in Nat : at2[k] = at[k + 1]
      BY <1>7, <2>1, Shifted
    <2>3. r2 \in Index /\ \A k \in Nat : r[k] \in Nat /\ r2[k] = r[k + 1]
      BY <1>7, <2>1, Shifted
    <2>4. /\ b2 \in Index /\ \A k \in Nat : b[k] \in Nat
          /\ \A k \in Nat : b[k + 1] > 0 => b2[k] = b[k + 1] - 1
      BY <1>7, <2>1, Shifted
    <2>5. Indices(at2, r2, b2)
      BY <2>2, <2>3, <2>4 DEF Indices
    <2>6. QED
      BY <2>2, <2>3, <2>4, <2>5
  <1>9. \A k \in 1..n : b2[k] = b[k + 1] - 1 /\ k \in Nat
    <2>1. \A k \in 1..n : k \in Nat
      OBVIOUS
    <2>2. ASSUME NEW k \in 1..n PROVE b[k + 1] > 0
      <3>1. CASE k = n
        <4>1. y + 1 > 0
          OBVIOUS
        <4>2. QED
          BY <1>3, <3>1, <4>1
      <3>2. CASE k # n
        <4>1. k + 1 \in 1..n /\ 1 < k + 1
          BY <3>2
        <4>2. b[1] < b[k + 1]
          BY <1>3, <1>4, <1>5, <4>1
        <4>3. k + 1 \in Nat
          BY <4>1
        <4>4. b[k + 1] \in Nat
          BY <1>8, <4>3, Zenon
        <4>5. PICK u \in Nat : u = b[k + 1]
          BY <4>4
        <4>6. 1 < u
          BY <1>3, <4>2, <4>5
        <4>7. QED
          BY <4>5, <4>6
      <3>3. QED
        BY <3>1, <3>2
    <2>3. QED
      BY <1>8, <2>1, <2>2, Zenon
  <1>10. PICK m \in Nat : m = n - 1 /\ n = m + 1 /\ Len(ord2) = m /\ Len(bp2) = y - 1
    BY <1>2
  <1>11. ASSUME NEW k \in 1..m PROVE Entry(ps, ord2, rl, bp2, at2, r2, b2, k)
    <2>1. k \in Nat /\ k + 1 \in Nat /\ k \in 1..n /\ k + 1 \in 1..n /\ 1 < k + 1
      BY <1>10
    <2>2. /\ at2[k] = at[k + 1] /\ at2[k + 1] = at[(k + 1) + 1]
          /\ r2[k] = r[k + 1] /\ r2[k + 1] = r[(k + 1) + 1]
          /\ b2[k] = b[k + 1] - 1 /\ b2[k + 1] = b[(k + 1) + 1] - 1 /\ ord2[k] = ord[k + 1]
      BY <1>8, <1>9, <1>10, <2>1
    <2>3. Entry(ps, ord, rl, bp, at, r, b, k + 1) /\ b[1] < b[k + 1]
      BY <1>3, <1>4, <1>5, <2>1
    <2>4. PICK j \in 1..n : j = k + 1
      BY <2>1
    <2>5. CASE ord[j] # "RLE"
      <3>1. /\ b[j] \in 1..y /\ b[j + 1] = b[j] + 1 /\ r[j + 1] = r[j]
            /\ at[j + 1] = at[j] + 1 /\ BpeItem(ps, bp[b[j]], at[j])
        BY <1>2, <2>3, <2>4, <2>5 DEF Entry
      <3>2. PICK c \in 1..y : c = b[j] /\ c > 1
        BY <1>3, <2>3, <2>4, <3>1
      <3>3. c - 1 \in 1..(y - 1) /\ (c - 1) + 1 = c
        BY <3>2, Predecessor
      <3>4. bp2[c - 1] = bp[c]
        BY <1>10, <3>3
      <3>5. b2[k] = c - 1 /\ b2[k + 1] = c /\ b2[k + 1] = b2[k] + 1
        <4>1. b2[k] = c - 1 /\ b2[k + 1] = (c + 1) - 1
          BY <2>2, <2>4, <3>1, <3>2, Zenon
        <4>2. (c + 1) - 1 = c /\ (c - 1) + 1 = c
          BY <3>2, Predecessor
        <4>3. QED
          BY <4>1, <4>2, Zenon
      <3>6. BpeItem(ps, bp2[b2[k]], at2[k]) /\ at2[k + 1] = at2[k] + 1
        BY <2>2, <2>4, <3>1, <3>2, <3>4, <3>5
      <3>7. QED
        BY <1>10, <2>2, <2>4, <2>5, <3>1, <3>3, <3>5, <3>6 DEF Entry
    <2>6. CASE ord[j] = "RLE"
      <3>1. /\ r[j] \in 1..Len(rl) /\ r[j + 1] = r[j] + 1 /\ b[j + 1] = b[j]
            /\ RleItem(ps, rl[r[j]], at[j], at[j + 1])
        BY <2>3, <2>4, <2>6 DEF Entry
      <3>2. ord2[k] = "RLE" /\ r2[k] = r[j] /\ r2[k + 1] = r[j + 1] /\ at2[k] = at[j] /\ at2[k + 1] = at[j + 1]
            /\ b2[k + 1] = b2[k]
        BY <2>2, <2>4, <2>6, <3>1
      <3>3. QED
        BY <3>1, <3>2, Zenon DEF Entry
    <2>7. QED
      BY <2>5, <2>6
  <1>12. ASSUME NEW k \in 1..m, NEW j \in 1..m, k < j
         PROVE  IF ord2[k] = "RLE" THEN r2[k] < r2[j] ELSE b2[k] < b2[j]
    <2>1. k + 1 \in 1..n /\ j + 1 \in 1..n /\ k + 1 < j + 1 /\ k \in 1..n /\ j \in 1..n
      BY <1>10, <1>12
    <2>2. IF ord[k + 1] = "RLE" THEN r[k + 1] < r[j + 1] ELSE b[k + 1] < b[j + 1]
      BY <1>3, <2>1
    <2>3. /\ b2[k] = b[k + 1] - 1 /\ b2[j] = b[j + 1] - 1
          /\ r2[k] = r[k + 1] /\ r2[j] = r[j + 1] /\ ord2[k] = ord[k + 1]
      BY <1>8, <1>9, <1>10, <2>1
    <2>4. b[k + 1] < b[j + 1] => b2[k] < b2[j]
      <3>0. k + 1 \in Nat /\ j + 1 \in Nat
        BY <2>1
      <3>7. b[k + 1] \in Nat /\ b[j + 1] \in Nat
        BY <1>8, <3>0, Zenon
      <3>1. PICK u \in Nat, v \in Nat : u = b[k + 1] /\ v = b[j + 1]
        BY <3>7
      <3>2. b2[k] = u - 1 /\ b2[j] = v - 1
        BY <2>3, <3>1
      <3>3. u < v => u - 1 < v - 1
        OBVIOUS
      <3>4. QED
        BY <3>1, <3>2, <3>3
    <2>5. QED
      BY <2>2, <2>3, <2>4, Zenon
  <1>13. Plan(ps, ord2, rl, bp2, f + 1, d, at2, r2, b2)
    <2>1. at2[1] = f + 1 /\ b2[1] = 1 /\ r2[1] = 1
      <3>1. b2[1] = 2 - 1
        BY <1>4, <1>5, <1>9
      <3>2. at2[1] = f + 1 /\ r2[1] = 1
        <4>1. 1 \in Nat
          OBVIOUS
        <4>2. at2[1] = at[1 + 1] /\ r2[1] = r[1 + 1]
          BY <1>8, <4>1, Zenon
        <4>3. QED
          BY <1>4, <1>5, <4>2
      <3>3. QED
        BY <3>1, <3>2
    <2>2. at2[n] = d /\ b2[n] = y /\ r2[n] = x + 1
      <3>1. n \in 1..n /\ (y + 1) - 1 = y
        BY <1>2
      <3>2. b2[n] = b[n + 1] - 1 /\ at2[n] = at[n + 1] /\ r2[n] = r[n + 1]
        BY <1>8, <1>9, <3>1
      <3>3. QED
        BY <1>3, <3>1, <3>2
    <2>3. /\ at2[Len(ord2) + 1] = d /\ b2[Len(ord2) + 1] = Len(bp2) + 1 /\ r2[Len(ord2) + 1] = Len(rl) + 1
      <3>1. Len(ord2) + 1 = n /\ Len(bp2) + 1 = y /\ Len(rl) + 1 = x + 1
        BY <1>2, <1>10
      <3>2. QED
        BY <2>2, <3>1
    <2>4. /\ \A k \in 1..Len(ord2) : Entry(ps, ord2, rl, bp2, at2, r2, b2, k)
          /\ \A k, j \in 1..Len(ord2) : k < j => IF ord2[k] = "RLE" THEN r2[k] < r2[j] ELSE b2[k] < b2[j]
      BY <1>10, <1>11, <1>12
    <2>5. QED
      BY <2>1, <2>3, <2>4, Zenon DEF Plan
  <1>14. QED
    BY <1>6, <1>8, <1>13, Zenon DEF Planned

-----------------------------------------------------------------------------
(* What a step hands to ExpandRLE and ExpandBPE.                           *)

\* Bytes of the page that are in the window are read where the page has them.
LEMMA SliceInWindow ==
  ASSUME Sizes, NEW p, PageBytes(p) \in Nat, WindowInv(p), NEW o \in Nat, NEW n \in Nat, n >= 1,
         Base + o + n - 1 < End
  PROVE  Slice(lo, hi, o, n) = Base + o
  <1>1. Base \in Nat /\ End \in Nat /\ \A x \in Nat : Pos(lo, hi, x) = IF Base + x < End THEN Base + x ELSE None
    BY WindowFacts
  <1>2. PICK last \in Nat : last = o + n - 1
    OBVIOUS
  <1>3. Base + o < End /\ Base + last < End /\ Base + last = Base + o + n - 1
    BY <1>1, <1>2
  <1>4. Pos(lo, hi, o) = Base + o /\ Pos(lo, hi, o + n - 1) = Base + o + n - 1
    BY <1>1, <1>2, <1>3
  <1>5. Base + o # None /\ n # 0
    BY <1>1 DEF None
  <1>6. QED
    BY <1>4, <1>5 DEF Slice

\* The bytes of n values.
LEMMA ValueBytes ==
  ASSUME NEW n \in 1..16, NEW w \in 1..32
  PROVE  /\ CeilDiv(n * w, 8) \in Nat /\ CeilDiv(n * w, 8) >= 1
         /\ CeilDiv(n * w, 8) <= 2 * w
         /\ n <= 8 => CeilDiv(n * w, 8) <= w
  <1>1. PICK y \in Nat : y = n * w
    OBVIOUS
  <1>2. y >= 1 /\ y <= 16 * w /\ (n <= 8 => y <= 8 * w)
    BY <1>1
  <1>3. CeilDiv(n * w, 8) = (y + 8 - 1) \div 8
    BY <1>1 DEF CeilDiv
  <1>4. PICK m \in Nat : m = (y + 8 - 1) \div 8 /\ 8 * m <= y + 7 /\ m >= 1
    BY <1>2
  <1>5. m <= 2 * w /\ (n <= 8 => m <= w)
    BY <1>2, <1>4
  <1>6. QED
    BY <1>3, <1>4, <1>5

\* Databeat j of run i of page q has its place.
LEMMA DueAt ==
  ASSUME NEW ps, NEW q \in 1..Len(ps), NEW i \in 1..Len(ps[q].runs), NEW j \in Nat,
         j < RunBeats(ps[q], i)
  PROVE  Due(ps, BeatAt(ps[q], i, j), Place(ps, q, i) + j)
BY DEF Due

\* The values of an RLE run are those of its header.
LEMMA RleValues ==
  ASSUME Sizes, NEW p, Decodable(p), NEW i \in 1..Len(p.runs), p.runs[i].enc = "RLE"
  PROVE  RunValues(p, i) = p.runs[i].count
  <1>1. PICK total \in Nat, u \in Nat, v \in Nat, c \in Nat :
          /\ total = p.num_values /\ u = ValuesBefore(p, i) /\ v = ValuesBefore(p, i + 1)
          /\ c = p.runs[i].count
    BY ValuesAfter
  <1>2. v = u + c /\ (i = Len(p.runs) => total = v)
    BY <1>1, ValuesAfter
  <1>3. CASE i = Len(p.runs)
    <2>1. total - u = c
      BY <1>2, <1>3
    <2>2. QED
      BY <1>1, <1>3, <2>1 DEF RunValues
  <1>4. CASE i # Len(p.runs)
    BY <1>4 DEF RunValues
  <1>5. QED
    BY <1>3, <1>4

\* The item of a whole RLE run is the databeats of the run.
LEMMA RleUnpacked ==
  ASSUME MadeFor, Sizes, pages \in Workloads, taken \in 1..Len(pages),
         NEW p, p = page, Decodable(p), NEW i \in 1..Len(p.runs),
         WindowInv(p), Registers, RleInv(p, i), RleKept,
         NEW item, item = [at |-> Slice(lo, hi, offset, RleWidth), count |-> count]
  PROVE  item \in Item /\ RleItem(pages, item, Place(pages, taken, i), Place(pages, taken, i + 1))
  <1>1. PICK w \in 1..32, c \in 1..4 :
          w = p.bit_width /\ c = CeilDiv(p.bit_width, 8) /\ RleWidth = c
    <2>1. p.bit_width \in 1..32 /\ CeilDiv(p.bit_width, 8) \in 1..4
      BY RunSizes
    <2>2. RleWidth = CeilDiv(p.bit_width, 8)
      BY Inputs
    <2>3. QED
      BY <2>1, <2>2
  <1>2. PICK off \in Nat, n \in Nat : off = offset /\ n = count
    <2>1. offset \in Nat /\ count \in Nat
      BY DEF Registers, Sizes
    <2>2. QED
      BY <2>1
  <1>3. p.runs[i].enc = "RLE" /\ n = p.runs[i].count /\ Base + off + c = HeaderAt(p, i + 1)
    BY <1>1, <1>2 DEF RleInv
  <1>4. PageBytes(p) \in Nat
    BY PageSize
  <1>5. Base \in Nat /\ End \in Nat /\ \A o \in Nat : Pos(lo, hi, o) = IF Base + o < End THEN Base + o ELSE None
    BY <1>4, WindowFacts
  <1>6. Base + off + c - 1 < End
    <2>1. PICK last \in Nat : last = off + (c - 1)
      BY <1>1
    <2>2. Pos(lo, hi, last) # None
      <3>1. c - 1 \in 0..(RleWidth - 1)
        BY <1>1
      <3>2. Keep(p, lo, hi, off + (c - 1))
        BY <1>2, <3>1 DEF RleKept
      <3>3. QED
        BY <2>1, <3>2 DEF Keep
    <2>3. Base + last < End
      BY <1>5, <2>2
    <2>4. QED
      BY <1>5, <2>1, <2>3
  <1>7. Slice(lo, hi, off, c) = Base + off
    BY <1>4, <1>6, SliceInWindow
  <1>8. Base + off = HeaderAt(p, i) + p.runs[i].hlen
    <2>1. PICK h \in Nat, hlen \in Nat : h = HeaderAt(p, i) /\ hlen = p.runs[i].hlen
      <3>1. i \in 1..(Len(p.runs) + 1)
        BY PageFacts
      <3>2. HeaderAt(p, i) \in Nat
        BY <3>1, PageFacts
      <3>3. p.runs[i] \in Run
        BY RunSizes
      <3>4. p.runs[i].hlen \in Nat
        BY <3>3 DEF Run
      <3>5. QED
        BY <3>2, <3>4
    <2>2. HeaderAt(p, i + 1) = h + (hlen + c)
      BY <1>1, <1>3, <2>1, PageFacts DEF RunBytes
    <2>3. PICK base \in Nat : base = Base
      BY <1>5
    <2>4. base + off + c = h + (hlen + c)
      BY <1>3, <2>2, <2>3
    <2>5. base + off = h + hlen
      BY <2>4
    <2>6. QED
      BY <2>1, <2>3, <2>5
  <1>9. item.at = HeaderAt(p, i) + p.runs[i].hlen /\ item.count = n /\ item \in Item
    <2>1. item = [at |-> Base + off, count |-> n]
      BY <1>1, <1>2, <1>7
    <2>2. Base + off \in Int
      BY <1>5
    <2>3. QED
      BY <1>8, <2>1, <2>2 DEF Item
  <1>10. PICK v \in Nat, m \in Nat :
           v = RunValues(p, i) /\ m = RunBeats(p, i) /\ v = n /\ v <= 16 * m /\ v > 16 * (m - 1)
    <2>1. RunValues(p, i) = n
      BY <1>3, RleValues
    <2>2. /\ RunValues(p, i) \in Nat /\ RunBeats(p, i) \in Nat
          /\ RunValues(p, i) <= 16 * RunBeats(p, i) /\ RunValues(p, i) > 16 * (RunBeats(p, i) - 1)
      BY BeatNumbers
    <2>3. QED
      BY <2>1, <2>2
  <1>11. p = pages[taken]
    BY DEF page
  <1>12. PICK d \in Nat : d = Place(pages, taken, i) /\ Place(pages, taken, i + 1) = d + m
    <2>1. i \in 1..(Len(pages[taken].runs) + 1) /\ i \in 1..Len(pages[taken].runs)
      BY <1>11, PageFacts
    <2>2. Place(pages, taken, i) \in Nat
      BY <2>1, Places
    <2>3. Place(pages, taken, i + 1) = Place(pages, taken, i) + RunBeats(p, i)
      BY <1>11, <2>1, Places
    <2>4. QED
      BY <1>10, <2>2, <2>3
  <1>13. ASSUME NEW k \in Nat, k < m
         PROVE  Due(pages, Beat("RLE", item, Part(n - 16 * k)), d + k)
    <2>1. Due(pages, BeatAt(p, i, k), d + k)
      BY <1>10, <1>11, <1>12, <1>13, DueAt
    <2>2. Beat("RLE", item, Part(n - 16 * k)) = BeatAt(p, i, k)
      <3>1. NumElements = 16
        BY DEF Sizes
      <3>2. BeatAt(p, i, k) = [enc |-> "RLE", at |-> item.at, values |-> Part(n - 16 * k)]
        BY <1>3, <1>9, <1>10, <3>1 DEF BeatAt, Part
      <3>3. QED
        BY <3>2 DEF Beat
    <2>3. QED
      BY <2>1, <2>2
  <1>14. (d + m) - d = m
    BY <1>10, <1>12
  <1>15. RleItem(pages, item, d, d + m)
    BY <1>9, <1>10, <1>13, <1>14 DEF RleItem
  <1>16. QED
    BY <1>9, <1>12, <1>15

\* The item of an input of a BPE run is a databeat of the run, its last when no more than
\* 16 values were left.
LEMMA BpeUnpacked ==
  ASSUME MadeFor, Sizes, pages \in Workloads, taken \in 1..Len(pages),
         NEW p, p = page, Decodable(p), NEW i \in 1..Len(p.runs),
         WindowInv(p), Registers, BpeInv(p, i), NEW j \in Nat, Unpacked(p, i, j),
         BpeKept \/ last_received,
         NEW n, n = IF count <= 16 THEN count ELSE 16,
         NEW item, item = [at |-> Slice(lo, hi, offset, CeilDiv(n * page.bit_width, 8)), count |-> n]
  PROVE  /\ item \in Item /\ BpeItem(pages, item, Place(pages, taken, i) + j)
         /\ count <= 16 => Place(pages, taken, i + 1) = Place(pages, taken, i) + j + 1
  <1>0. PICK w \in 1..32, k \in Nat, beyond \in {0, 1}, off \in 0..(NumBytes - 1),
            vo \in 0..(2 * NumBytes - 1), total \in Nat, c \in Nat, next \in Nat, bytes \in Nat, size \in Nat :
           BpeIs(p, i, w, k, beyond, off, vo, total, c, next, bytes, size)
    BY BpeNumbers, ZenonT(30)
  <1>1. /\ w = p.bit_width /\ k = bpe_remaining_inputs /\ off = offset
        /\ total = p.runs[i].count /\ c = count /\ next = HeaderAt(p, i + 1) /\ bytes = PageBytes(p)
        /\ size = BytesLeft(p, i, k)
        /\ 3 * w <= NumBytes /\ c >= 1 /\ next <= bytes
        /\ size = k * (2 * w) + beyond * w
        /\ c <= 16 * k + 8 * beyond
        /\ Base + (off + size) = next
    BY <1>0 DEF BpeIs
  <1>2. PICK v \in 1..16 : v = n /\ (c <= 16 => v = c) /\ (c > 16 => v = 16)
    <2>1. n = (IF c <= 16 THEN c ELSE 16) /\ c >= 1
      BY <1>1
    <2>2. QED
      BY <2>1
  <1>3. PICK m \in Nat : m = CeilDiv(v * w, 8) /\ m >= 1 /\ m <= 2 * w /\ (v <= 8 => m <= w)
    BY ValueBytes
  <1>4. m <= 2 * w
    BY <1>3
  <1>5. m <= size
    <2>0. size = k * (2 * w) + beyond * w
      BY <1>1
    <2>1. k * (2 * w) \in Nat /\ beyond * w \in Nat
      OBVIOUS
    <2>2. CASE k >= 1
      <3>1. PICK y \in Nat, z \in Nat : y = k * (2 * w) /\ z = beyond * w /\ y >= 2 * w
        BY <2>1, <2>2
      <3>2. size = y + z
        BY <2>0, <3>1
      <3>3. QED
        BY <1>4, <3>1, <3>2
    <2>3. CASE k = 0
      <3>1. c <= 8 * beyond /\ c >= 1
        BY <1>1, <2>3
      <3>2. beyond = 1 /\ c <= 8
        BY <3>1
      <3>3. v <= 8 /\ size = w
        BY <1>2, <2>0, <2>3, <3>2
      <3>4. QED
        BY <1>3, <3>3
    <2>4. QED
      BY <2>2, <2>3
  <1>6. PICK base \in Nat, end \in Nat :
          /\ base = Base /\ end = End /\ (last_received => end >= bytes)
          /\ \A o \in Nat : Pos(lo, hi, o) = IF base + o < end THEN base + o ELSE None
    BY <1>1, WindowFacts
  <1>7. base + off + m - 1 < end
    <2>1. CASE BpeKept
      <3>1. Packed = 2 * w
        BY <1>1, Inputs
      <3>2. PICK last \in Nat : last = off + 2 * w - 1
        OBVIOUS
      <3>3. Pos(lo, hi, last) # None
        BY <1>1, <2>1, <3>1, <3>2 DEF BpeKept, Keep
      <3>4. base + last < end
        BY <1>6, <3>3
      <3>5. QED
        BY <1>4, <3>2, <3>4
    <2>2. CASE last_received
      <3>1. base + (off + size) <= bytes
        BY <1>1, <1>6
      <3>2. end >= bytes
        BY <1>6, <2>2
      <3>3. QED
        BY <1>5, <3>1, <3>2
    <2>3. QED
      BY <2>1, <2>2
  <1>8. Slice(lo, hi, off, m) = base + off
    <2>1. PageBytes(p) \in Nat
      BY PageSize
    <2>2. Base + off + m - 1 < End
      BY <1>6, <1>7
    <2>3. Slice(lo, hi, off, m) = Base + off
      BY <1>3, <2>1, <2>2, SliceInWindow
    <2>4. QED
      BY <1>6, <2>3
  <1>9. PICK h \in Nat, hlen \in Nat : h = HeaderAt(p, i) /\ hlen = p.runs[i].hlen
    <2>1. i \in 1..(Len(p.runs) + 1)
      BY PageFacts
    <2>2. HeaderAt(p, i) \in Nat
      BY <2>1, PageFacts
    <2>3. p.runs[i] \in Run
      BY RunSizes
    <2>4. p.runs[i].hlen \in Nat
      BY <2>3 DEF Run
    <2>5. QED
      BY <2>2, <2>4
  <1>10. base + off = h + hlen + j * (2 * w)
    <2>1. NumElements = 16 /\ p.runs[i].enc = "BPE" /\ total \div 16 = k + j
      <3>1. bpe_remaining_inputs + j = p.runs[i].count \div 16
        BY DEF Unpacked
      <3>2. k + j = total \div 16
        BY <1>1, <3>1
      <3>3. QED
        BY <3>2 DEF Sizes, BpeInv
    <2>2. PICK b : b = IF GroupBeyond(p, i) THEN w ELSE 0
      OBVIOUS
    <2>3. b \in Nat
      BY <2>2
    <2>4. size = k * (2 * w) + b
      BY <1>1, <2>2 DEF BytesLeft
    <2>5. next = h + hlen + ((k + j) * (2 * w) + b)
      <3>1. next = h + hlen + BytesLeft(p, i, k + j)
        BY <1>1, <1>9, <2>1, Inputs
      <3>2. BytesLeft(p, i, k + j) = (k + j) * (2 * w) + b
        BY <1>1, <2>2 DEF BytesLeft
      <3>3. QED
        BY <3>1, <3>2
    <2>6. (k + j) * (2 * w) = k * (2 * w) + j * (2 * w) /\ k * (2 * w) \in Nat /\ j * (2 * w) \in Nat
      OBVIOUS
    <2>7. base + (off + size) = next
      BY <1>1, <1>6
    <2>8. QED
      BY <2>3, <2>4, <2>5, <2>6, <2>7
  <1>11. item = [at |-> base + off, count |-> v] /\ item \in Item
    <2>1. item = [at |-> base + off, count |-> v]
      BY <1>1, <1>2, <1>3, <1>8
    <2>2. base + off \in Int /\ v \in Nat
      OBVIOUS
    <2>3. QED
      BY <2>1, <2>2 DEF Item
  <1>12. PICK all \in Nat, beats_of \in Nat :
           /\ all = RunValues(p, i) /\ beats_of = RunBeats(p, i)
           /\ all <= 16 * beats_of /\ all > 16 * (beats_of - 1)
    BY BeatNumbers
  <1>13. all = c + 16 * j
    BY <1>1, <1>12 DEF Unpacked
  <1>14. j < beats_of /\ (c <= 16 => beats_of = j + 1)
    <2>1. c >= 1
      BY <1>1
    <2>2. c + 16 * j <= 16 * beats_of /\ c + 16 * j > 16 * (beats_of - 1)
      BY <1>12, <1>13
    <2>3. QED
      BY <2>1, <2>2
  <1>15. p = pages[taken]
    BY DEF page
  <1>16. Place(pages, taken, i) \in Nat /\ Place(pages, taken, i + 1) = Place(pages, taken, i) + beats_of
    <2>1. i \in 1..(Len(pages[taken].runs) + 1) /\ i \in 1..Len(pages[taken].runs)
      BY <1>15, PageFacts
    <2>2. QED
      BY <1>12, <1>15, <2>1, Places
  <1>17. BpeItem(pages, item, Place(pages, taken, i) + j)
    <2>1. Due(pages, BeatAt(p, i, j), Place(pages, taken, i) + j)
      BY <1>12, <1>14, <1>15, DueAt
    <2>2. Beat("BPE", item, item.count) = BeatAt(p, i, j)
      <3>1. NumElements = 16 /\ p.runs[i].enc = "BPE"
        BY DEF Sizes, BpeInv
      <3>2. (16 * w) \div 8 = 2 * w
        OBVIOUS
      <3>3. item.at = HeaderAt(p, i) + p.runs[i].hlen + j * ((16 * p.bit_width) \div 8)
        BY <1>1, <1>9, <1>10, <1>11, <3>2
      <3>4. all - 16 * j = c /\ item.count = IF c <= 16 THEN c ELSE 16
        BY <1>2, <1>11, <1>13
      <3>5. BeatAt(p, i, j) = [enc |-> "BPE", at |-> item.at, values |-> item.count]
        BY <1>12, <3>1, <3>3, <3>4 DEF BeatAt
      <3>6. QED
        BY <3>5 DEF Beat
    <2>3. QED
      BY <2>1, <2>2 DEF BpeItem
  <1>18. count <= 16 => Place(pages, taken, i + 1) = Place(pages, taken, i) + j + 1
    <2>1. PICK d \in Nat : d = Place(pages, taken, i) /\ Place(pages, taken, i + 1) = d + beats_of
      BY <1>16
    <2>2. count <= 16 => beats_of = j + 1
      BY <1>1, <1>14
    <2>3. d + (j + 1) = d + j + 1
      OBVIOUS
    <2>4. QED
      BY <2>1, <2>2, <2>3
  <1>19. QED
    BY <1>11, <1>17, <1>18

-----------------------------------------------------------------------------
(* The invariant.                                                          *)

\* d databeats of the pages are unpacked: those before a run of the page the decoder is
\* in, and some of the run's, or those of all the pages it has taken.
InPage(d) ==
  /\ taken >= 1
  /\ \E p, i, j : /\ p = page /\ WindowInv(p) /\ i \in 1..Len(p.runs) /\ j \in Nat
                 /\ RunAt(p, i, j) /\ d = Place(pages, taken, i) + j
Decoding(d) ==
  \/ state = "IDLE" /\ IdleInv /\ d = PagesBefore(pages, taken + 1)
  \/ InPage(d)

\* The decoder is idle or in a page, and the queues hold what is unpacked and not put out.
Databeat == [enc : {"RLE", "BPE"}, at : Int, values : Nat]
IInv ==
  /\ pages \in Workloads /\ taken \in 0..Len(pages) /\ Registers /\ Queues
  /\ out \in Seq(Databeat)
  /\ \E d \in Nat : Decoding(d) /\ Planned(pages, order, rle, bpe, Len(out), d)

\* With nothing in the queues everything unpacked has been put out.
LEMMA NothingPlanned ==
  ASSUME NEW ps, NEW d \in Nat
  PROVE  Planned(ps, <<>>, <<>>, <<>>, d, d)
  <1>1. PICK ord, at, r : ord = <<>> /\ at = [k \in Nat |-> d] /\ r = [k \in Nat |-> 1]
    OBVIOUS
  <1>2. Len(ord) = 0 /\ 1 \in Nat /\ 0 + 1 = 1 /\ \A k : ~(k \in 1..0)
    BY <1>1
  <1>3. Indices(at, r, r) /\ at[1] = d /\ r[1] = 1
    <2>1. at \in Index /\ r \in Index
      BY <1>1 DEF Index
    <2>2. QED
      BY <1>1, <1>2, <2>1 DEF Indices
  <1>4. Plan(ps, ord, ord, ord, d, d, at, r, r)
    <2>1. /\ at[Len(ord) + 1] = d /\ r[Len(ord) + 1] = Len(ord) + 1
          /\ \A k \in 1..Len(ord) : FALSE
      BY <1>2, <1>3
    <2>2. QED
      BY <1>3, <2>1, Zenon DEF Plan
  <1>5. Planned(ps, ord, ord, ord, d, d)
    BY <1>3, <1>4, Zenon DEF Planned
  <1>6. QED
    BY <1>1, <1>5

LEMMA InitIInv ==
  ASSUME MadeFor, Init
  PROVE  IInv
  <1>1. /\ pages \in Workloads /\ taken = 0 /\ beats = 0 /\ lo = 0 /\ hi = 0
        /\ store_in_second_half = FALSE /\ last_received = FALSE
        /\ state = "IDLE" /\ offset = 0 /\ varint_offset = 0 /\ varint = NoVarint
        /\ remaining_values = 0 /\ count = 0 /\ bpe_remaining_inputs = 0
        /\ order = <<>> /\ rle = <<>> /\ bpe = <<>> /\ out = <<>>
    BY DEF Init
  <1>2. NumBytes \in Nat /\ NumBytes >= 1 /\ {OrderDepth, RleDepth, BpeDepth} \subseteq Nat
    BY DecoderSizes
  <1>3. taken \in 0..Len(pages)
    BY <1>1, PagesDecodable
  <1>4. Registers
    <2>1. varint.at = -1 /\ varint.row = 0 /\ varint.valid = FALSE
      BY <1>1 DEF NoVarint, None
    <2>2. {varint.at, varint.row} \subseteq -1..(NumBytes * beats) /\ varint.valid \in BOOLEAN
      <3>1. NumBytes * beats = 0
        BY <1>1, <1>2
      <3>2. -1 \in -1..(NumBytes * beats) /\ 0 \in -1..(NumBytes * beats)
        BY <3>1
      <3>3. QED
        BY <2>1, <3>2, Zenon
    <2>3. /\ beats \in Nat /\ {lo, hi} \subseteq 0..beats
          /\ {store_in_second_half, last_received} \subseteq BOOLEAN
          /\ {remaining_values, count, bpe_remaining_inputs} \subseteq Nat
      <3>1. 0 \in 0..beats /\ 0 \in Nat
        BY <1>1
      <3>2. QED
        BY <1>1, <3>1, Zenon
    <2>4. offset \in 0..(NumBytes - 1) /\ varint_offset \in 0..(Window - 1)
      BY <1>1, <1>2 DEF Window
    <2>5. QED
      BY <2>2, <2>3, <2>4 DEF Registers
  <1>5. Queues
    BY <1>1, <1>2 DEF Queues
  <1>6. IdleInv
    BY <1>1 DEF IdleInv
  <1>7. Decoding(0)
    <2>1. PagesBefore(pages, 1) = 0 /\ taken + 1 = 1
      BY <1>1, PageNumbers
    <2>2. QED
      BY <1>1, <1>6, <2>1 DEF Decoding
  <1>8. Planned(pages, order, rle, bpe, Len(out), 0)
    <2>1. Len(out) = 0 /\ 0 \in Nat
      BY <1>1
    <2>2. QED
      BY <1>1, <2>1, NothingPlanned
  <1>9. out \in Seq(Databeat) /\ 0 \in Nat
    BY <1>1
  <1>10. QED
    BY <1>1, <1>3, <1>4, <1>5, <1>7, <1>8, <1>9 DEF IInv

LEMMA InPageNext ==
  ASSUME NEW p, page' = p, taken' >= 1, WindowInv(p)', NEW i \in 1..Len(p.runs), NEW j \in Nat,
         RunAt(p, i, j)', NEW d, d = Place(pages', taken', i) + j
  PROVE  Decoding(d)'
BY DEF InPage, Decoding, Place

\* What a step of the state machine hands on: nothing, or the next of the page's databeats.
Handed(d, e) ==
  \/ e = d /\ order' = order /\ rle' = rle /\ bpe' = bpe
  \/ \E item \in Item :
       /\ order' = Append(order, "RLE") /\ rle' = Append(rle, item) /\ bpe' = bpe
       /\ RleItem(pages, item, d, e)
  \/ \E item \in Item :
       /\ order' = Append(order, "BPE") /\ bpe' = Append(bpe, item) /\ rle' = rle
       /\ e = d + 1 /\ BpeItem(pages, item, d)

\* The configuration of a page is taken.
LEMMA ConfigureDecodes ==
  ASSUME MadeFor, pages \in Workloads, taken \in 0..Len(pages), Registers, NEW d \in Nat, Decoding(d),
         NEW with_input \in BOOLEAN, Configure(with_input)
  PROVE  /\ pages' = pages /\ taken' \in 0..Len(pages) /\ Registers' /\ out' = out
         /\ Decoding(d)' /\ Handed(d, d)
  <1>1. Sizes
    BY MadeForSizes
  <1>2. /\ state = "IDLE" /\ taken < Len(pages)
        /\ order' = order /\ rle' = rle /\ bpe' = bpe /\ out' = out
    BY DEF Configure, output_vars
  <1>3. IdleInv /\ d = PagesBefore(pages, taken + 1)
    BY <1>2 DEF Decoding, InPage, RunAt
  <1>4. Len(pages) \in Nat /\ \A k \in 1..Len(pages) : Decodable(pages[k])
    BY PagesDecodable
  <1>5. taken \in Nat /\ taken + 1 \in 1..Len(pages)
    BY <1>2, <1>4
  <1>6. PICK p : p = pages[taken + 1] /\ Decodable(p)
    BY <1>4, <1>5
  <1>7. /\ pages' = pages /\ taken' = taken + 1 /\ Registers' /\ page' = p /\ WindowInv(p)'
        /\ RunAt(p, 1, 0)'
    BY <1>1, <1>2, <1>3, <1>4, <1>5, <1>6, ConfigureKeeps
  <1>8. taken' \in 0..Len(pages) /\ taken' >= 1
    BY <1>4, <1>5, <1>7
  <1>9. 1 \in 1..Len(p.runs)
    BY <1>1, <1>6, PageFacts
  <1>10. d = Place(pages', taken', 1) + 0
    <2>1. Place(pages, taken + 1, 1) = PagesBefore(pages, taken + 1)
      BY <1>5, Places
    <2>2. QED
      BY <1>3, <1>7, <2>1
  <1>11. Decoding(d)'
    BY <1>7, <1>8, <1>9, <1>10, InPageNext
  <1>12. Handed(d, d)
    BY <1>2 DEF Handed
  <1>13. QED
    BY <1>2, <1>7, <1>8, <1>11, <1>12

\* The next run is found, or the page is finished.
LEMMA RunFinished ==
  ASSUME MadeFor, pages \in Workloads, taken \in 1..Len(pages), pages' = pages, taken' = taken,
         NEW p, p = page, Decodable(p), NEW i \in 1..Len(p.runs),
         \/ state' = "IDLE" /\ IdleInv' /\ i = Len(p.runs)
         \/ page' = p /\ WindowInv(p)' /\ \E j \in 1..Len(p.runs) : j = i + 1 /\ RunAt(p, j, 0)'
  PROVE  \E e \in Nat : e = Place(pages, taken, i + 1) /\ Decoding(e)'
  <1>1. p = pages[taken] /\ Sizes
    BY MadeForSizes DEF page
  <1>2. PICK e \in Nat : e = Place(pages, taken, i + 1)
    <2>1. i + 1 \in 1..(Len(p.runs) + 1)
      BY <1>1, PageFacts
    <2>2. QED
      BY <1>1, <2>1, Places
  <1>3. CASE state' = "IDLE" /\ IdleInv' /\ i = Len(p.runs)
    <2>1. e = PagesBefore(pages, taken + 1)
      BY <1>1, <1>2, <1>3, Places
    <2>2. Decoding(e)'
      BY <1>3, <2>1 DEF Decoding
    <2>3. QED
      BY <1>2, <2>2
  <1>4. CASE page' = p /\ WindowInv(p)' /\ \E j \in 1..Len(p.runs) : j = i + 1 /\ RunAt(p, j, 0)'
    <2>1. PICK j \in 1..Len(p.runs) : j = i + 1 /\ RunAt(p, j, 0)'
      BY <1>4
    <2>2. e = Place(pages', taken', j) + 0 /\ taken' >= 1
      BY <1>2, <2>1
    <2>3. Decoding(e)'
      BY <1>4, <2>1, <2>2, InPageNext
    <2>4. QED
      BY <1>2, <2>3
  <1>5. QED
    BY <1>3, <1>4

\* A step in a page.
LEMMA PageStepDecodes ==
  ASSUME MadeFor, pages \in Workloads, taken \in 0..Len(pages), Registers, NEW d \in Nat, Decoding(d),
         HeaderInput \/ HeaderDecoded \/ PayloadInput \/ DecodeRle \/ DecodeBpe
  PROVE  /\ pages' = pages /\ taken' = taken /\ Registers' /\ out' = out
         /\ \E e \in Nat : Decoding(e)' /\ Handed(d, e)
  <1>1. Sizes
    BY MadeForSizes
  <1>2. state \in {"HEADER", "HEADER2", "DECODE_RLE", "DECODE_BPE"}
    BY DEF HeaderInput, HeaderDecoded, PayloadInput, DecodeRle, DecodeBpe
  <1>3. PICK p, i, j : /\ taken >= 1 /\ p = page /\ WindowInv(p) /\ i \in 1..Len(p.runs) /\ j \in Nat
                       /\ RunAt(p, i, j) /\ d = Place(pages, taken, i) + j
    BY <1>2 DEF Decoding, InPage
  <1>4. taken \in 1..Len(pages) /\ p = pages[taken] /\ Decodable(p)
    <2>1. taken \in 1..Len(pages)
      BY <1>3, PagesDecodable
    <2>2. QED
      BY <1>3, <2>1, PagesDecodable DEF page
  <1>5. Place(pages, taken, i) \in Nat
    <2>1. i \in 1..(Len(pages[taken].runs) + 1)
      BY <1>1, <1>3, <1>4, PageFacts
    <2>2. QED
      BY <1>4, <2>1, Places
  <1>6. j = 0 => d = Place(pages, taken, i)
    BY <1>3, <1>5
  <1>7. ASSUME NEW m \in Nat, pages' = pages, taken' = taken, page' = p, WindowInv(p)', RunAt(p, i, m)',
               NEW e, e = Place(pages, taken, i) + m
        PROVE  Decoding(e)'
    BY <1>3, <1>7, InPageNext
  <1>8. CASE HeaderInput
    <2>1. HeaderInv(p, i) /\ j = 0 /\ order' = order /\ rle' = rle /\ bpe' = bpe /\ out' = out
      BY <1>3, <1>8 DEF HeaderInput, RunAt, output_vars
    <2>2. pages' = pages /\ taken' = taken /\ page' = p /\ Registers' /\ WindowInv(p)' /\ RunAt(p, i, 0)'
      BY <1>1, <1>3, <1>4, <1>8, <2>1, HeaderInputKeeps
    <2>3. Decoding(d)'
      BY <1>3, <1>7, <2>1, <2>2
    <2>4. QED
      BY <2>1, <2>2, <2>3 DEF Handed
  <1>9. CASE HeaderDecoded
    <2>1. /\ HeaderInv(p, i) /\ j = 0 /\ varint.valid /\ GotoDecode(remaining_values)
          /\ remaining_values' = remaining_values
          /\ order' = order /\ rle' = rle /\ bpe' = bpe /\ out' = out
      BY <1>3, <1>9 DEF HeaderDecoded, RunAt, output_vars
    <2>2. PICK left \in Nat : left = remaining_values
      BY DEF Registers
    <2>3. /\ AtHeader(p, i) /\ Given(p, i) /\ left = p.num_values - ValuesBefore(p, i)
          /\ GotoDecode(left) /\ remaining_values' = left
      BY <2>1, <2>2 DEF HeaderInv
    <2>4. pages' = pages /\ taken' = taken /\ page' = p /\ Registers' /\ WindowInv(p)' /\ RunAt(p, i, 0)'
      BY <1>1, <1>3, <1>4, <2>1, <2>3, GotoDecodeKeeps
    <2>5. Decoding(d)'
      BY <1>3, <1>7, <2>1, <2>4
    <2>6. QED
      BY <2>1, <2>4, <2>5 DEF Handed
  <1>10. CASE PayloadInput
    <2>1. order' = order /\ rle' = rle /\ bpe' = bpe /\ out' = out
      BY <1>10 DEF PayloadInput, output_vars
    <2>2. pages' = pages /\ taken' = taken /\ page' = p /\ Registers' /\ WindowInv(p)' /\ RunAt(p, i, j)'
      BY <1>1, <1>3, <1>4, <1>10, PayloadInputKeeps
    <2>3. Decoding(d)'
      BY <1>3, <1>7, <2>2
    <2>4. QED
      BY <2>1, <2>2, <2>3 DEF Handed
  <1>11. CASE DecodeRle
    <2>1. /\ RleInv(p, i) /\ j = 0 /\ RleKept /\ FinishRle
          /\ order' = Append(order, "RLE") /\ bpe' = bpe /\ out' = out
      BY <1>3, <1>11 DEF DecodeRle, RunAt
    <2>2. PICK item : /\ item = [at |-> Slice(lo, hi, offset, RleWidth), count |-> count]
                      /\ rle' = Append(rle, item)
      BY <1>11 DEF DecodeRle
    <2>3. item \in Item /\ RleItem(pages, item, Place(pages, taken, i), Place(pages, taken, i + 1))
      BY <1>1, <1>3, <1>4, <2>1, <2>2, RleUnpacked
    <2>4. /\ pages' = pages /\ taken' = taken /\ Registers'
          /\ \/ state' = "IDLE" /\ IdleInv' /\ i = Len(p.runs)
             \/ page' = p /\ WindowInv(p)' /\ \E m \in 1..Len(p.runs) : m = i + 1 /\ RunAt(p, m, 0)'
      BY <1>1, <1>3, <1>4, <2>1, FinishRleKeeps
    <2>5. PICK e \in Nat : e = Place(pages, taken, i + 1) /\ Decoding(e)'
      BY <1>3, <1>4, <2>4, RunFinished
    <2>6. Handed(d, e)
      BY <1>6, <2>1, <2>2, <2>3, <2>5 DEF Handed
    <2>7. QED
      BY <2>1, <2>4, <2>5, <2>6
  <1>12. CASE DecodeBpe
    <2>1. /\ BpeInv(p, i) /\ Unpacked(p, i, j) /\ state = "DECODE_BPE" /\ (BpeKept \/ last_received)
          /\ IF count <= 16 THEN FinishBpe ELSE AdvanceBpe
          /\ order' = Append(order, "BPE") /\ rle' = rle /\ out' = out
      BY <1>1, <1>3, <1>12 DEF DecodeBpe, OrderBpe, RunAt, Sizes
    <2>2. PICK n, item :
            /\ n = IF count <= 16 THEN count ELSE 16
            /\ item = [at |-> Slice(lo, hi, offset, CeilDiv(n * page.bit_width, 8)), count |-> n]
            /\ bpe' = Append(bpe, item)
      BY <1>1, <1>12 DEF DecodeBpe, Sizes
    <2>3. /\ item \in Item /\ BpeItem(pages, item, Place(pages, taken, i) + j)
          /\ count <= 16 => Place(pages, taken, i + 1) = Place(pages, taken, i) + j + 1
      BY <1>1, <1>3, <1>4, <2>1, <2>2, BpeUnpacked
    <2>4. Handed(d, d + 1)
      BY <1>3, <2>1, <2>2, <2>3 DEF Handed
    <2>5. CASE count <= 16
      <3>1. FinishBpe
        BY <2>1, <2>5
      <3>2. /\ pages' = pages /\ taken' = taken /\ Registers'
            /\ \/ state' = "IDLE" /\ IdleInv' /\ i = Len(p.runs)
               \/ page' = p /\ WindowInv(p)' /\ \E m \in 1..Len(p.runs) : m = i + 1 /\ RunAt(p, m, 0)'
        BY <1>1, <1>3, <1>4, <2>1, <2>5, <3>1, FinishBpeKeeps
      <3>3. PICK e \in Nat : e = Place(pages, taken, i + 1) /\ Decoding(e)'
        BY <1>3, <1>4, <3>2, RunFinished
      <3>4. e = d + 1
        BY <1>3, <2>3, <2>5, <3>3
      <3>5. QED
        BY <2>1, <2>4, <3>2, <3>3, <3>4
    <2>6. CASE ~(count <= 16)
      <3>1. AdvanceBpe
        BY <2>1, <2>6
      <3>2. /\ pages' = pages /\ taken' = taken /\ Registers' /\ page' = p /\ WindowInv(p)'
            /\ RunAt(p, i, j + 1)'
        BY <1>1, <1>3, <1>4, <2>1, <2>6, <3>1, AdvanceBpeKeeps
      <3>3. j + 1 \in Nat /\ d + 1 \in Nat /\ d + 1 = Place(pages, taken, i) + (j + 1)
        BY <1>3, <1>5
      <3>4. Decoding(d + 1)'
        BY <1>7, <3>2, <3>3
      <3>5. QED
        BY <2>1, <2>4, <3>2, <3>3, <3>4
    <2>7. QED
      BY <2>5, <2>6
  <1>13. QED
    BY <1>8, <1>9, <1>10, <1>11, <1>12


\* An output step puts out what is due.
LEMMA OutputDue ==
  ASSUME NumElements = 16, Queues, out \in Seq(Databeat), NEW d \in Nat,
         Planned(pages, order, rle, bpe, Len(out), d), Output
  PROVE  \E beat \in Databeat :
           /\ out' = Append(out, beat) /\ Due(pages, beat, Len(out))
           /\ Planned(pages, order', rle', bpe', Len(out) + 1, d)
  <1>1. PICK f \in Nat : f = Len(out)
    OBVIOUS
  <1>2. order \in Seq({"RLE", "BPE"}) /\ rle \in Seq(Item) /\ bpe \in Seq(Item)
    BY DEF Queues
  <1>3. Len(order) \in Nat /\ Len(rle) \in Nat /\ Len(bpe) \in Nat
    BY <1>2
  <1>4. Planned(pages, order, rle, bpe, f, d)
    BY <1>1
  <1>5. CASE OutputRle
    <2>1. /\ order # <<>> /\ Head(order) = "RLE" /\ rle # <<>> /\ Head(rle).count > 0 /\ bpe' = bpe
          /\ out' = Append(out, Beat("RLE", Head(rle), IF Head(rle).count <= 16 THEN Head(rle).count ELSE 16))
          /\ order' = IF Head(rle).count <= 16 THEN Tail(order) ELSE order
          /\ rle' = IF Head(rle).count <= 16 THEN Tail(rle)
                    ELSE <<[Head(rle) EXCEPT !.count = @ - 16]>> \o Tail(rle)
      BY <1>5 DEF OutputRle
    <2>2. Len(order) >= 1 /\ order[1] = "RLE" /\ rle[1] = Head(rle) /\ rle[1] \in Item
      BY <1>2, <2>1
    <2>3. PICK r \in Item : r = rle[1] /\ r = Head(rle) /\ r.count > 0
      BY <2>1, <2>2
    <2>4. r.at \in Int /\ r.count \in Nat
      BY DEF Item
    <2>5. CASE r.count <= 16
      <3>1. order' = Tail(order) /\ rle' = Tail(rle) /\ out' = Append(out, Beat("RLE", r, r.count))
        BY <2>1, <2>3, <2>5
      <3>2. /\ Len(order') = Len(order) - 1 /\ \A k \in 1..Len(order') : order'[k] = order[k + 1]
            /\ Len(rle') = Len(rle) - 1 /\ \A k \in 1..Len(rle') : rle'[k] = rle[k + 1]
        BY <1>2, <2>1, <3>1
      <3>3. Due(pages, Beat("RLE", r, r.count), f) /\ Planned(pages, order', rle', bpe, f + 1, d)
        <4>1. rle[1].count > 0 /\ rle[1].count <= 16
          BY <2>3, <2>5
        <4>2. PICK ord2, rl2 : ord2 = order' /\ rl2 = rle'
          OBVIOUS
        <4>3. /\ Len(ord2) = Len(order) - 1 /\ \A k \in 1..Len(ord2) : ord2[k] = order[k + 1]
              /\ Len(rl2) = Len(rle) - 1 /\ \A k \in 1..Len(rl2) : rl2[k] = rle[k + 1]
          BY <3>2, <4>2, Zenon
        <4>4. Due(pages, Beat("RLE", rle[1], rle[1].count), f) /\ Planned(pages, ord2, rl2, bpe, f + 1, d)
          BY <1>3, <1>4, <2>2, <4>1, <4>3, RleDone
        <4>5. QED
          BY <2>3, <4>2, <4>4
      <3>4. Beat("RLE", r, r.count) \in Databeat
        BY <2>4 DEF Beat, Databeat
      <3>5. QED
        BY <1>1, <2>1, <3>1, <3>3, <3>4
    <2>6. CASE ~(r.count <= 16)
      <3>1. /\ order' = order /\ rle' = <<[r EXCEPT !.count = r.count - 16]>> \o Tail(rle)
            /\ out' = Append(out, Beat("RLE", r, 16))
        BY <2>1, <2>3, <2>6
      <3>2. PICK rest \in Item : /\ rle' = <<rest>> \o Tail(rle)
                                 /\ rest.at = r.at /\ rest.count = r.count - 16
        <4>1. r.count - 16 \in Nat /\ r.count > 16
          BY <2>4, <2>6
        <4>2. [r EXCEPT !.count = r.count - 16] = [at |-> r.at, count |-> r.count - 16]
          BY DEF Item
        <4>3. [at |-> r.at, count |-> r.count - 16] \in Item
          BY <2>4, <4>1 DEF Item
        <4>4. QED
          BY <3>1, <4>2, <4>3
      <3>3. Len(rle') = Len(rle) /\ rle'[1] = rest /\ \A k \in 2..Len(rle) : rle'[k] = rle[k]
        <4>1. Tail(rle) \in Seq(Item) /\ Len(Tail(rle)) = Len(rle) - 1
              /\ \A k \in 1..(Len(rle) - 1) : Tail(rle)[k] = rle[k + 1]
          BY <1>2, <2>1
        <4>2. \A k \in 2..Len(rle) : k - 1 \in 1..(Len(rle) - 1) /\ (k - 1) + 1 = k
          BY <1>3
        <4>3. Len(rle') = Len(rle) /\ rle'[1] = rest /\ \A k \in 2..Len(rle) : rle'[k] = Tail(rle)[k - 1]
          BY <3>2, <4>1
        <4>4. QED
          BY <4>1, <4>2, <4>3
      <3>4. Due(pages, Beat("RLE", r, 16), f) /\ Planned(pages, order, rle', bpe, f + 1, d)
        <4>1. rle[1].count > 16
          BY <2>3, <2>4, <2>6
        <4>2. rle'[1] \in Item /\ rle'[1].at = rle[1].at /\ rle'[1].count = rle[1].count - 16
          BY <2>3, <3>2, <3>3
        <4>3. Due(pages, Beat("RLE", rle[1], 16), f) /\ Planned(pages, order, rle', bpe, f + 1, d)
          BY <1>3, <1>4, <2>2, <3>3, <4>1, <4>2, RleContinued
        <4>4. QED
          BY <2>3, <4>3
      <3>5. Beat("RLE", r, 16) \in Databeat
        BY <2>4 DEF Beat, Databeat
      <3>6. QED
        BY <1>1, <2>1, <3>1, <3>4, <3>5
    <2>7. QED
      BY <2>5, <2>6
  <1>6. CASE OutputBpe
    <2>1. /\ order # <<>> /\ Head(order) = "BPE" /\ bpe # <<>> /\ rle' = rle
          /\ out' = Append(out, Beat("BPE", Head(bpe), Head(bpe).count))
          /\ order' = Tail(order) /\ bpe' = Tail(bpe)
      BY <1>6 DEF OutputBpe
    <2>2. Len(order) >= 1 /\ order[1] = "BPE" /\ bpe[1] = Head(bpe) /\ bpe[1] \in Item
      BY <1>2, <2>1
    <2>3. /\ Len(order') = Len(order) - 1 /\ \A k \in 1..Len(order') : order'[k] = order[k + 1]
          /\ Len(bpe') = Len(bpe) - 1 /\ \A k \in 1..Len(bpe') : bpe'[k] = bpe[k + 1]
      BY <1>2, <2>1
    <2>4. PICK b \in Item : b = bpe[1] /\ b = Head(bpe)
      BY <2>2
    <2>5. Due(pages, Beat("BPE", b, b.count), f) /\ Planned(pages, order', rle, bpe', f + 1, d)
      <3>1. PICK ord2, bp2 : ord2 = order' /\ bp2 = bpe'
        OBVIOUS
      <3>2. /\ Len(ord2) = Len(order) - 1 /\ \A k \in 1..Len(ord2) : ord2[k] = order[k + 1]
            /\ Len(bp2) = Len(bpe) - 1 /\ \A k \in 1..Len(bp2) : bp2[k] = bpe[k + 1]
        BY <2>3, <3>1, Zenon
      <3>3. Due(pages, Beat("BPE", bpe[1], bpe[1].count), f) /\ Planned(pages, ord2, rle, bp2, f + 1, d)
        BY <1>3, <1>4, <2>2, <3>2, BpeDone
      <3>4. QED
        BY <2>4, <3>1, <3>3
    <2>6. Beat("BPE", b, b.count) \in Databeat
      BY DEF Beat, Databeat, Item
    <2>7. QED
      BY <1>1, <2>1, <2>4, <2>5, <2>6
  <1>7. QED
    BY <1>5, <1>6 DEF Output

\* What is handed on is planned.
LEMMA HandedPlanned ==
  ASSUME Queues, NEW f \in Nat, NEW d \in Nat, NEW e \in Nat,
         Planned(pages, order, rle, bpe, f, d), Handed(d, e)
  PROVE  Planned(pages, order', rle', bpe', f, e)
  <1>1. order \in Seq({"RLE", "BPE"}) /\ rle \in Seq(Item) /\ bpe \in Seq(Item)
    BY DEF Queues
  <1>2. CASE e = d /\ order' = order /\ rle' = rle /\ bpe' = bpe
    BY <1>2
  <1>3. ASSUME NEW item \in Item, order' = Append(order, "RLE"), rle' = Append(rle, item), bpe' = bpe,
               RleItem(pages, item, d, e)
        PROVE  Planned(pages, order', rle', bpe', f, e)
    BY <1>1, <1>3, RlePlanned
  <1>4. ASSUME NEW item \in Item, order' = Append(order, "BPE"), bpe' = Append(bpe, item), rle' = rle,
               e = d + 1, BpeItem(pages, item, d)
        PROVE  Planned(pages, order', rle', bpe', f, e)
    BY <1>1, <1>4, BpePlanned
  <1>5. QED
    BY <1>2, <1>3, <1>4 DEF Handed

\* A step of the state machine leaves the decoder idle, or in a page.
LEMMA StepIInv ==
  ASSUME MadeFor, IInv, Step
  PROVE  IInv' /\ UNCHANGED <<pages, out>>
  <1>1. PICK d \in Nat : Decoding(d) /\ Planned(pages, order, rle, bpe, Len(out), d)
    BY DEF IInv
  <1>2. pages \in Workloads /\ taken \in 0..Len(pages) /\ Registers /\ Queues /\ out \in Seq(Databeat)
    BY DEF IInv
  <1>3. /\ pages' = pages /\ taken' \in 0..Len(pages) /\ Registers' /\ out' = out
        /\ \E e \in Nat : Decoding(e)' /\ Handed(d, e)
    <2>1. CASE \E with_input \in BOOLEAN : Configure(with_input)
      BY <1>1, <1>2, <2>1, ConfigureDecodes
    <2>2. CASE HeaderInput \/ HeaderDecoded \/ PayloadInput \/ DecodeRle \/ DecodeBpe
      BY <1>1, <1>2, <2>2, PageStepDecodes
    <2>3. QED
      BY <2>1, <2>2 DEF Step
  <1>4. PICK e \in Nat : Decoding(e)' /\ Handed(d, e)
    BY <1>3
  <1>5. Planned(pages', order', rle', bpe', Len(out'), e)
    <2>1. PICK f \in Nat : f = Len(out)
      BY <1>2
    <2>2. Planned(pages, order', rle', bpe', f, e)
      BY <1>1, <1>2, <1>4, <2>1, HandedPlanned
    <2>3. QED
      BY <1>3, <2>1, <2>2
  <1>6. Queues'
    BY <1>2, MadeForSizes, QueuesKept DEF Next
  <1>7. QED
    BY <1>2, <1>3, <1>4, <1>5, <1>6 DEF IInv

\* What the state machine holds, when none of it changes.
LEMMA DecodingKept ==
  ASSUME UNCHANGED <<input_vars, window, run_vars>>, Registers, NEW d, Decoding(d)
  PROVE  Registers' /\ Decoding(d)'
  <1>1. /\ pages' = pages /\ taken' = taken /\ beats' = beats /\ lo' = lo /\ hi' = hi
        /\ store_in_second_half' = store_in_second_half /\ last_received' = last_received
        /\ state' = state /\ offset' = offset /\ varint_offset' = varint_offset /\ varint' = varint
        /\ remaining_values' = remaining_values /\ count' = count
        /\ bpe_remaining_inputs' = bpe_remaining_inputs
    BY DEF input_vars, window, run_vars
  <1>2. Registers'
    BY <1>1 DEF Registers, Window
  <1>3. page' = page
    BY <1>1 DEF page
  <1>4. CASE state = "IDLE" /\ IdleInv /\ d = PagesBefore(pages, taken + 1)
    BY <1>1, <1>2, <1>4 DEF Decoding, IdleInv
  <1>5. CASE InPage(d)
    <2>1. PICK p, i, j : /\ taken >= 1 /\ p = page /\ WindowInv(p) /\ i \in 1..Len(p.runs) /\ j \in Nat
                         /\ RunAt(p, i, j) /\ d = Place(pages, taken, i) + j
      BY <1>5 DEF InPage
    <2>2. WindowInv(p)' /\ page' = p /\ Filled' = Filled /\ Base' = Base /\ End' = End
      BY <2>1, WindowKept
    <2>3. ASSUME NEW k, AtHeader(p, k), Given(p, k) PROVE AtHeader(p, k)' /\ Given(p, k)'
      BY <1>1, <2>2, <2>3 DEF AtHeader, Given, Reading
    <2>4. HeaderInv(p, i) => HeaderInv(p, i)'
      BY <1>1, <2>3 DEF HeaderInv
    <2>5. RleInv(p, i) => RleInv(p, i)'
      BY <1>1, <2>2, <2>3 DEF RleInv
    <2>6. BpeInv(p, i) => BpeInv(p, i)'
      <3>1. Given(p, i + 1)' = Given(p, i + 1)
        BY <1>1, <2>2 DEF Given, Reading
      <3>2. /\ BytesLeft(p, i, bpe_remaining_inputs)' = BytesLeft(p, i, bpe_remaining_inputs)
            /\ ValuesLeft(p, i, bpe_remaining_inputs)' = ValuesLeft(p, i, bpe_remaining_inputs)
        BY <1>1 DEF BytesLeft, ValuesLeft, GroupBeyond
      <3>3. QED
        BY <1>1, <2>2, <3>1, <3>2 DEF BpeInv
    <2>7. Unpacked(p, i, j) => Unpacked(p, i, j)'
      BY <1>1 DEF Unpacked
    <2>8. RunAt(p, i, j)'
      BY <1>1, <2>1, <2>4, <2>5, <2>6, <2>7 DEF RunAt
    <2>9. taken' >= 1 /\ d = Place(pages', taken', i) + j
      BY <1>1, <2>1
    <2>10. Decoding(d)'
      BY <2>1, <2>2, <2>8, <2>9, InPageNext
    <2>11. QED
      BY <1>2, <2>10
  <1>6. QED
    BY <1>4, <1>5 DEF Decoding

\* An output step puts out the next databeat, and keeps what is planned behind it.
LEMMA OutputIInv ==
  ASSUME MadeFor, IInv, Output
  PROVE  /\ IInv' /\ pages' = pages
         /\ \E beat : out' = Append(out, beat) /\ Due(pages, beat, Len(out))
  <1>1. PICK d \in Nat : Decoding(d) /\ Planned(pages, order, rle, bpe, Len(out), d)
    BY DEF IInv
  <1>2. pages \in Workloads /\ taken \in 0..Len(pages) /\ Registers /\ Queues /\ out \in Seq(Databeat)
    BY DEF IInv
  <1>3. UNCHANGED <<input_vars, window, run_vars>>
    BY DEF Output, OutputRle, OutputBpe
  <1>4. pages' = pages /\ taken' = taken
    BY <1>3 DEF input_vars
  <1>5. Registers' /\ Decoding(d)'
    BY <1>1, <1>2, <1>3, DecodingKept
  <1>6. PICK beat \in Databeat :
          /\ out' = Append(out, beat) /\ Due(pages, beat, Len(out))
          /\ Planned(pages, order', rle', bpe', Len(out) + 1, d)
    BY <1>1, <1>2, OutputDue DEF MadeFor
  <1>7. out' \in Seq(Databeat) /\ Len(out') = Len(out) + 1
    BY <1>2, <1>6
  <1>8. Planned(pages', order', rle', bpe', Len(out'), d)
    BY <1>4, <1>6, <1>7
  <1>9. Queues'
    BY <1>2, MadeForSizes, QueuesKept DEF Next
  <1>10. QED
    BY <1>2, <1>4, <1>5, <1>6, <1>7, <1>8, <1>9 DEF IInv

LEMMA NextIInv ==
  ASSUME MadeFor, IInv, [Next]_vars
  PROVE  IInv'
  <1>1. CASE UNCHANGED vars
    <2>1. UNCHANGED <<input_vars, window, run_vars>> /\ UNCHANGED output_vars
      BY <1>1 DEF vars
    <2>2. PICK d \in Nat : Decoding(d) /\ Planned(pages, order, rle, bpe, Len(out), d)
      BY DEF IInv
    <2>3. Registers' /\ Decoding(d)'
      BY <2>1, <2>2, DecodingKept DEF IInv
    <2>4. pages' = pages /\ taken' = taken /\ order' = order /\ rle' = rle /\ bpe' = bpe /\ out' = out
      BY <2>1 DEF input_vars, output_vars
    <2>5. Queues'
      BY <2>4 DEF Queues, IInv
    <2>6. Planned(pages', order', rle', bpe', Len(out'), d)
      BY <2>2, <2>4
    <2>7. QED
      BY <2>3, <2>4, <2>5, <2>6 DEF IInv
  <1>2. Step \/ Output \/ UNCHANGED vars
    BY DEF Next, Done
  <1>3. QED
    BY <1>1, <1>2, StepIInv, OutputIInv

LEMMA IInvTypeOK ==
  ASSUME MadeFor, IInv
  PROVE  TypeOK
  <1>1. state \in {"IDLE", "HEADER", "HEADER2", "DECODE_RLE", "DECODE_BPE"}
    BY DEF IInv, Decoding, InPage, RunAt
  <1>2. QED
    BY <1>1 DEF IInv, Registers, Queues, TypeOK

LEMMA IInvWindowFollows ==
  ASSUME MadeFor, IInv
  PROVE  WindowFollows
  <1>1. SUFFICES ASSUME state # "IDLE"
                 PROVE  IF store_in_second_half THEN lo = beats /\ hi = 0
                        ELSE (lo = 0 /\ hi = 0) \/ (hi = beats /\ lo = hi - 1)
    BY DEF WindowFollows
  <1>2. PICK p : WindowInv(p)
    BY <1>1 DEF IInv, Decoding, InPage
  <1>3. Holds(lo, hi, beats, Filled) /\ beats \in Nat
    BY <1>2 DEF WindowInv
  <1>4. CASE store_in_second_half
    <2>1. Filled = 1
      BY <1>4 DEF Filled
    <2>2. QED
      BY <1>3, <1>4, <2>1 DEF Holds
  <1>5. CASE ~store_in_second_half
    <2>1. Filled = IF lo = 0 THEN 0 ELSE 2
      BY <1>5 DEF Filled
    <2>2. QED
      BY <1>3, <1>5, <2>1 DEF Holds
  <1>6. QED
    BY <1>4, <1>5

\* For every page a Parquet writer could have put out whose indices the decoder has the
\* width for, but for the two kinds of page that its read-ahead misses: the decoder finds
\* every header where the page has it and never takes other bytes for one, its offsets
\* stay in the window, and its queues in their depth.
THEOREM HeadersAlwaysFound ==
  MadeFor => (Spec => []TypeOK)
  <1>1. SUFFICES ASSUME MadeFor PROVE Spec => []TypeOK
    OBVIOUS
  <1>2. Init => IInv
    BY <1>1, InitIInv
  <1>3. IInv /\ [Next]_vars => IInv'
    BY <1>1, NextIInv
  <1>4. IInv => TypeOK
    BY <1>1, IInvTypeOK
  <1>5. QED
    BY <1>2, <1>3, <1>4, PTL DEF Spec

\* For the same pages: the two halves of the window hold databeats of the page that follow
\* each other, up to the last one taken, and the half that the next one goes to is free,
\* however often the window moves while a run is decoded, or its end read ahead.
THEOREM WindowAlwaysFollows ==
  MadeFor => (Spec => []WindowFollows)
  <1>1. SUFFICES ASSUME MadeFor PROVE Spec => []WindowFollows
    OBVIOUS
  <1>2. Init => IInv
    BY <1>1, InitIInv
  <1>3. IInv /\ [Next]_vars => IInv'
    BY <1>1, NextIInv
  <1>4. IInv => WindowFollows
    BY <1>1, IInvWindowFollows
  <1>5. QED
    BY <1>2, <1>3, <1>4, PTL DEF Spec

\* For the same pages: what is put out are the databeats of the runs of the pages, in
\* the order of the pages, each with as many values as the run has for it, unpacked from
\* the bytes the page has for them, whatever the queues hold and however the window moved
\* before they are put out: the RunDecoder implements RunStream.
THEOREM ImplementsRunStream ==
  MadeFor => (Spec => StreamSpec)
  <1>1. SUFFICES ASSUME MadeFor PROVE Spec => StreamSpec
    OBVIOUS
  <1>2. Init => IInv
    BY <1>1, InitIInv
  <1>3. IInv /\ [Next]_vars => IInv'
    BY <1>1, NextIInv
  <1>4. Init => Stream!Init
    BY DEF Init, Stream!Init
  <1>5. IInv /\ [Next]_vars => [Stream!Emit]_(Stream!streamVars)
    <2>1. SUFFICES ASSUME IInv, [Next]_vars
                   PROVE  Stream!Emit \/ UNCHANGED <<pages, out>>
      BY DEF Stream!streamVars
    <2>2. CASE Step
      BY <1>1, <2>1, <2>2, StepIInv
    <2>3. CASE Output
      <3>1. PICK beat : pages' = pages /\ out' = Append(out, beat) /\ Due(pages, beat, Len(out))
        BY <1>1, <2>1, <2>3, OutputIInv
      <3>2. beat \in NextBeats(pages, out)
        BY <1>1, <2>1, <3>1, DueIsNext DEF IInv
      <3>3. QED
        BY <3>1, <3>2 DEF Stream!Emit
    <2>4. CASE UNCHANGED vars
      BY <2>4 DEF vars, input_vars, output_vars
    <2>5. QED
      BY <2>1, <2>2, <2>3, <2>4 DEF Next, Done
  <1>6. QED
    BY <1>2, <1>3, <1>4, <1>5, PTL DEF Spec, StreamSpec, Stream!Spec
=============================================================================
