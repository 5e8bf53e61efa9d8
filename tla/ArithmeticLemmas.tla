-------------------------- MODULE ArithmeticLemmas --------------------------
\* Facts about quotients, remainders and products that the provers need to be
\* told when the factors are not numerals, about the elements of a finite set of
\* numbers in order, about functions defined by recursion up to a bound, and
\* about sequences and the rows of an image in strips.
EXTENDS Integers, SequenceTheorems, FiniteSetTheorems, TLAPS

\* Quotient and remainder.
LEMMA DivMod ==
  ASSUME NEW a \in Nat, NEW b \in Nat \ {0}
  PROVE  /\ a \div b \in Nat /\ a % b \in Nat
         /\ a % b < b
         /\ a = b * (a \div b) + (a % b)
  BY SMT

\* Products grow with their factors.
LEMMA MulMono ==
  ASSUME NEW a \in Nat, NEW b \in Nat, NEW c \in Nat, a <= b
  PROVE  a * c <= b * c
  BY SMT

\* A quotient is determined by the multiples around it.
LEMMA DivUnique ==
  ASSUME NEW a \in Nat, NEW b \in Nat \ {0}, NEW q \in Nat,
         b * q <= a, a < b * q + b
  PROVE  (a \div b) = q /\ (a % b) = a - b * q
<1> DEFINE d == a \div b
           r == a % b
<1>1. d \in Nat /\ r \in Nat /\ r < b /\ a = b * d + r
  BY DivMod
<1>2. ~(d + 1 <= q)
  <2> SUFFICES ASSUME d + 1 <= q PROVE FALSE
    OBVIOUS
  <2>1. (d + 1) * b <= q * b
    BY <1>1, MulMono
  <2> QED  BY <1>1, <2>1
<1>3. ~(q + 1 <= d)
  <2> SUFFICES ASSUME q + 1 <= d PROVE FALSE
    OBVIOUS
  <2>1. (q + 1) * b <= d * b
    BY <1>1, MulMono
  <2> QED  BY <1>1, <2>1
<1>4. d = q
  BY <1>1, <1>2, <1>3
<1> QED  BY <1>1, <1>4

\* Numbers of one remainder are at least a divisor apart.
LEMMA SameRemainder ==
  ASSUME NEW s \in Nat \ {0}, NEW m \in Nat, NEW n \in Nat, m < n, m % s = n % s
  PROVE  m + s <= n
<1>1. PICK r \in Nat, c \in Nat, d \in Nat : n = s * d + r /\ m = s * c + r
  <2>1. n % s \in Nat /\ n \div s \in Nat /\ n = s * (n \div s) + (n % s)
    BY DivMod
  <2>2. m \div s \in Nat /\ m = s * (m \div s) + (m % s)
    BY DivMod
  <2> QED BY <2>1, <2>2
<1>2. ~(d <= c)
  <2>1. ASSUME d <= c PROVE FALSE
    <3>1. d * s <= c * s
      BY <2>1, MulMono
    <3> QED BY <1>1, <3>1
  <2> QED BY <2>1
<1>3. (c + 1) * s <= d * s
  <2>1. c + 1 <= d /\ c + 1 \in Nat
    BY <1>2
  <2> QED BY <2>1, MulMono
<1> QED BY <1>1, <1>3

\* A number has the remainder of the one a divisor below it.
LEMMA RemainderBelow ==
  ASSUME NEW s \in Nat \ {0}, NEW n \in Nat, s <= n
  PROVE  (n - s) % s = n % s
<1>1. PICK d \in Nat, r \in Nat : n = s * d + r /\ r < s /\ r = n % s
  <2>1. n % s \in Nat /\ n \div s \in Nat /\ n = s * (n \div s) + (n % s) /\ n % s < s
    BY DivMod
  <2> QED BY <2>1
<1>2. PICK a \in Nat : a = n - s
  OBVIOUS
<1>3. d # 0
  BY <1>1
<1>4. PICK q \in Nat : q + 1 = d
  <2>1. d - 1 \in Nat /\ (d - 1) + 1 = d
    BY <1>3
  <2> QED BY <2>1
<1>5. s * d = s * q + s
  BY <1>4
<1>6. s * q <= a /\ a < s * q + s /\ a - s * q = r
  <2>1. PICK y \in Nat, z \in Nat : y = s * d /\ z = s * q
    OBVIOUS
  <2>2. n = y + r /\ a = n - s /\ y = z + s /\ r < s
    BY <1>1, <1>2, <1>5, <2>1
  <2> QED BY <2>1, <2>2
<1>7. (a % s) = a - s * q
  BY <1>6, DivUnique
<1> QED BY <1>1, <1>2, <1>6, <1>7

\* A row-major position is in a row of the grid.
LEMMA RowInGrid ==
  ASSUME NEW width \in Nat \ {0}, NEW rows \in Nat, NEW p \in Nat,
         p < rows * width
  PROVE  p \div width < rows
<1>1. p \div width \in Nat /\ p = width * (p \div width) + (p % width)
  BY DivMod
<1>2. ~(rows <= p \div width)
  <2> SUFFICES ASSUME rows <= p \div width PROVE FALSE
    OBVIOUS
  <2>1. rows * width <= (p \div width) * width
    BY <1>1, MulMono
  <2> QED  BY <1>1, <2>1, DivMod
<1> QED  BY <1>1, <1>2

\* The next position of a row.
LEMMA NextInRow ==
  ASSUME NEW width \in Nat \ {0}, NEW p \in Nat, NEW row \in Nat,
         row = p \div width, p + 1 < width * row + width
  PROVE  ((p + 1) \div width) = row /\ ((p + 1) % width) = (p % width) + 1
<1>1. p = width * row + (p % width) /\ p % width \in Nat
  BY DivMod
<1>2. PICK n \in Nat : n = p + 1
  OBVIOUS
<1>3. width * row <= n /\ n < width * row + width
  BY <1>1, <1>2
<1>4. (n \div width) = row /\ (n % width) = n - width * row
  BY <1>3, DivUnique
<1> QED  BY <1>1, <1>2, <1>4

-----------------------------------------------------------------------------
(* Ranks in a finite set of numbers: there is one of each rank.            *)

\* Elements of R below s.
Below(R, s) == {r \in R : r < s}

\* A rank is less than the number of elements.
LEMMA RankBound ==
  ASSUME NEW R \in SUBSET Nat, IsFiniteSet(R), NEW s \in R
  PROVE  /\ IsFiniteSet(Below(R, s))
         /\ Cardinality(Below(R, s)) \in 0..(Cardinality(R) - 1)
<1>1. Below(R, s) \in SUBSET (R \ {s})
  BY DEF Below
<1>2. IsFiniteSet(R \ {s}) /\ Cardinality(R \ {s}) = Cardinality(R) - 1
  BY FS_RemoveElement
<1>3. IsFiniteSet(Below(R, s)) /\ Cardinality(Below(R, s)) <= Cardinality(R \ {s})
  BY <1>1, <1>2, FS_Subset
<1>4. Cardinality(R) \in Nat /\ Cardinality(Below(R, s)) \in Nat
  BY <1>3, FS_CardinalityType
<1> QED
  BY <1>2, <1>3, <1>4

\* Ranks grow with the elements.
LEMMA RankGrows ==
  ASSUME NEW R \in SUBSET Nat, IsFiniteSet(R), NEW s \in R, NEW t \in R, s < t
  PROVE  Cardinality(Below(R, s)) < Cardinality(Below(R, t))
<1>1. IsFiniteSet(Below(R, t)) /\ s \in Below(R, t)
  BY RankBound DEF Below
<1>2. Below(R, s) \in SUBSET (Below(R, t) \ {s})
  <2>1. ASSUME NEW r \in Below(R, s) PROVE r \in Below(R, t) \ {s}
    <3>1. r \in Nat /\ s \in Nat /\ t \in Nat /\ r \in R /\ r < s
      BY DEF Below
    <3> QED
      BY <3>1 DEF Below
  <2> QED
    BY <2>1
<1>3. IsFiniteSet(Below(R, t) \ {s}) /\ Cardinality(Below(R, t) \ {s}) = Cardinality(Below(R, t)) - 1
  BY <1>1, FS_RemoveElement
<1>4. Cardinality(Below(R, s)) <= Cardinality(Below(R, t) \ {s})
  BY <1>2, <1>3, FS_Subset
<1>5. Cardinality(Below(R, s)) \in Nat /\ Cardinality(Below(R, t)) \in Nat
  BY RankBound
<1> QED
  BY <1>3, <1>4, <1>5

\* Every rank is some element's: the ranks are an injection between sets of the
\* same size.
LEMMA RankExists ==
  ASSUME NEW R \in SUBSET Nat, IsFiniteSet(R), NEW j \in 0..(Cardinality(R) - 1)
  PROVE  \E s \in R : Cardinality(Below(R, s)) = j
<1> DEFINE n == Cardinality(R)
           rank == [s \in R |-> Cardinality(Below(R, s))]
<1>1. n \in Nat
  BY FS_CardinalityType
<1>2. IsFiniteSet(0..(n - 1)) /\ Cardinality(0..(n - 1)) = n
  <2>1. 0 \in Int /\ n - 1 \in Int /\ (IF 0 > n - 1 THEN 0 ELSE (n - 1) - 0 + 1) = n
    BY <1>1
  <2> QED
    BY <2>1, FS_Interval
<1>3. rank \in [R -> 0..(n - 1)]
  BY RankBound
<1>4. ASSUME NEW s \in R, NEW t \in R, rank[s] = rank[t] PROVE s = t
  <2>1. CASE s < t
    BY <1>4, <2>1, RankGrows, RankBound
  <2>2. CASE t < s
    BY <1>4, <2>2, RankGrows, RankBound
  <2> QED
    BY <2>1, <2>2
<1>5. rank \in Injection(R, 0..(n - 1))
  BY <1>3, <1>4 DEF Injection, IsInjective
<1>6. rank \in Surjection(R, 0..(n - 1))
  <2> HIDE DEF rank
  <2> QED
    BY <1>2, <1>5, FS_Injection
<1> QED
  BY <1>6 DEF Surjection

\* A set of numbers from 1 to n that is not empty has a smallest one.
LEMMA Smallest ==
  ASSUME NEW n \in Nat, NEW R \in SUBSET (1..n), R # {}
  PROVE  \E s \in R : \A t \in R : s <= t
<1>1. IsFiniteSet(R) /\ R \in SUBSET Nat
  <2>1. IsFiniteSet(1..n)
    BY 1 \in Int, n \in Int, FS_Interval
  <2>2. \A S : IsFiniteSet(S) => \A T \in SUBSET S : IsFiniteSet(T)
    BY FS_Subset
  <2>3. R \in SUBSET Nat
    OBVIOUS
  <2> QED
    BY <2>1, <2>2, <2>3, Zenon
<1>2. Cardinality(R) \in Nat /\ Cardinality(R) # 0
  BY <1>1, FS_CardinalityType, FS_EmptySet
<1>3. PICK s \in R : Cardinality(Below(R, s)) = 0
  BY <1>1, <1>2, RankExists
<1>4. Below(R, s) = {}
  BY <1>1, <1>3, RankBound, FS_EmptySet
<1> QED
  BY <1>1, <1>4 DEF Below

\* Induction up to a bound, as a fact about a set.
LEMMA Induction ==
  ASSUME NEW n \in Nat, NEW K \in SUBSET (0..n), 0 \in K,
         \A k \in 0..(n - 1) : k \in K => k + 1 \in K
  PROVE  K = 0..n
<1> SUFFICES ASSUME K # 0..n PROVE FALSE
  OBVIOUS
<1>1. PICK R : R = (1..n) \ K
  OBVIOUS
<1>2. R \in SUBSET (1..n) /\ R # {}
  <2>1. PICK x \in 0..n : x \notin K
    OBVIOUS
  <2>2. x \in 1..n
    BY <2>1
  <2> QED BY <2>1, <2>2, <1>1
<1>3. PICK s \in R : \A t \in R : s <= t
  BY <1>2, Smallest
<1>4. s - 1 \in 0..(n - 1) /\ s - 1 \notin R /\ (s - 1) + 1 = s
  BY <1>2, <1>3
<1>5. s - 1 \in K
  BY <1>1, <1>4
<1> QED BY <1>1, <1>3, <1>4, <1>5

\* The functions defined by recursion up to a bound.
Recursion(n, S, a, g) ==
  {f \in [0..n -> S] : f[0] = a /\ \A k \in 1..n : f[k] = g[<<k, f[k - 1]>>]}

\* There is a function that satisfies the equations.
LEMMA RecursionExists ==
  ASSUME NEW n \in Nat, NEW S, NEW a \in S, NEW g \in [(1..n) \X S -> S]
  PROVE  Recursion(n, S, a, g) # {}
<1>1. PICK K : K = {k \in 0..n : \E f \in [0..n -> S] :
                     f[0] = a /\ \A i \in 1..k : f[i] = g[<<i, f[i - 1]>>]}
  OBVIOUS
<1>2. 0 \in K
  <2>1. PICK f : f = [i \in 0..n |-> a]
    OBVIOUS
  <2>2. f \in [0..n -> S] /\ f[0] = a
    BY <2>1
  <2> QED BY <2>2, <1>1
<1>3. ASSUME NEW k \in 0..(n - 1), k \in K PROVE k + 1 \in K
  <2>1. PICK f \in [0..n -> S] : f[0] = a /\ \A i \in 1..k : f[i] = g[<<i, f[i - 1]>>]
    BY <1>1, <1>3
  <2>2. k + 1 \in 1..n /\ k \in 0..n /\ k + 1 \in 0..n /\ k \in Nat
    BY <1>3
  <2>3. PICK x \in S : x = g[<<k + 1, f[k]>>]
    <3>1. <<k + 1, f[k]>> \in (1..n) \X S
      BY <2>1, <2>2
    <3> QED BY <3>1
  <2>4. PICK h \in [0..n -> S] : h[k + 1] = x /\ \A i \in 0..n : i # k + 1 => h[i] = f[i]
    <3>1. [f EXCEPT ![k + 1] = x] \in [0..n -> S]
      BY <2>1
    <3> QED BY <3>1, <2>2
  <2>5. h[0] = a
    BY <2>1, <2>2, <2>4
  <2>6. ASSUME NEW i \in 1..(k + 1) PROVE h[i] = g[<<i, h[i - 1]>>]
    <3>1. CASE i = k + 1
      <4>1. h[i - 1] = f[k]
        BY <3>1, <2>2, <2>4
      <4> QED BY <4>1, <3>1, <2>3, <2>4
    <3>2. CASE i # k + 1
      <4>1. i \in 1..k /\ i \in 0..n /\ i - 1 \in 0..n /\ i - 1 # k + 1
        BY <3>2, <2>2
      <4>2. h[i] = f[i] /\ h[i - 1] = f[i - 1]
        BY <4>1, <3>2, <2>4
      <4> QED BY <4>1, <4>2, <2>1
    <3> QED BY <3>1, <3>2
  <2> QED BY <2>2, <2>5, <2>6, <1>1
<1>4. K \in SUBSET (0..n)
  BY <1>1
<1>5. n \in K
  BY <1>2, <1>3, <1>4, Induction
<1> QED BY <1>1, <1>5 DEF Recursion

\* A function that satisfies the equations is one of them.
LEMMA RecursionIs ==
  ASSUME NEW n \in Nat, NEW S, NEW a \in S, NEW g \in [(1..n) \X S -> S],
         NEW v, v = [k \in 0..n |-> v[k]], v[0] = a,
         \A k \in 1..n : v[k - 1] \in S => v[k] = g[<<k, v[k - 1]>>]
  PROVE  v \in Recursion(n, S, a, g)
<1>1. PICK K : K = {k \in 0..n : v[k] \in S}
  OBVIOUS
<1>2. 0 \in K /\ K \in SUBSET (0..n)
  BY <1>1
<1>3. ASSUME NEW k \in 0..(n - 1), k \in K PROVE k + 1 \in K
  <2>1. k + 1 \in 1..n /\ (k + 1) - 1 = k /\ k + 1 \in 0..n /\ v[k] \in S
    <3>1. k + 1 \in 1..n /\ (k + 1) - 1 = k /\ k + 1 \in 0..n
      OBVIOUS
    <3>2. v[k] \in S
      BY <1>1, <1>3
    <3> QED BY ONLY <3>1, <3>2
  <2>2. v[k + 1] = g[<<k + 1, v[k]>>] /\ <<k + 1, v[k]>> \in (1..n) \X S
    BY <2>1
  <2>3. g[<<k + 1, v[k]>>] \in S
    BY <2>2
  <2> QED BY <1>1, <2>1, <2>2, <2>3
<1>4. K = 0..n
  BY <1>2, <1>3, Induction
<1>5. \A k \in 0..n : v[k] \in S
  BY <1>1, <1>4
<1>6. v \in [0..n -> S]
  BY <1>5
<1>7. \A k \in 1..n : k - 1 \in 0..n
  OBVIOUS
<1> QED BY <1>5, <1>6, <1>7 DEF Recursion

-----------------------------------------------------------------------------
(* Sequences, element by element.                                           *)

\* Concatenation is associative; named, so that it can be cited of given sequences.
Associates(x, y, z) == (x \o y) \o z = x \o (y \o z)

LEMMA Associative ==
  ASSUME NEW T, NEW x \in Seq(T), NEW y \in Seq(T), NEW z \in Seq(T)
  PROVE  Associates(x, y, z)
BY ConcatAssociative, SMTT(30) DEF Associates

\* A sequence's elements are of its type.
LEMMA ElementOf ==
  ASSUME NEW T, NEW s \in Seq(T), NEW i \in 1..Len(s)
  PROVE  s[i] \in T
OBVIOUS

\* A concatenation, element by element.
LEMMA ConcatShape ==
  ASSUME NEW T, NEW s \in Seq(T), NEW t \in Seq(T)
  PROVE  s \o t = [x \in 1..(Len(s) + Len(t)) |->
                     IF x <= Len(s) THEN s[x] ELSE t[x - Len(s)]]
<1>1. PICK m \in Nat, b \in Nat : m = Len(s) /\ b = Len(t)
  OBVIOUS
<1>2. PICK v : v = s \o t
  OBVIOUS
<1>3. v \in Seq(T) /\ Len(v) = m + b
  BY <1>1, <1>2
<1>4. ASSUME NEW x \in 1..(m + b) PROVE v[x] = IF x <= m THEN s[x] ELSE t[x - m]
  BY <1>1, <1>2
<1>5. v = [x \in 1..(m + b) |-> v[x]]
  BY <1>3
<1>6. v = [x \in 1..(m + b) |-> IF x <= m THEN s[x] ELSE t[x - m]]
  BY <1>4, <1>5
<1> QED  BY <1>1, <1>2, <1>6

\* A stretch of a sequence, element by element.
LEMMA SubSeqShape ==
  ASSUME NEW T, NEW v \in Seq(T), NEW m \in Nat, NEW S \in Nat, m + S <= Len(v)
  PROVE  SubSeq(v, m + 1, m + S) = [k \in 1..S |-> v[m + k]]
<1>1. PICK u : u = SubSeq(v, m + 1, m + S)
  OBVIOUS
<1>2. u \in Seq(T) /\ Len(u) = S
  BY <1>1
<1>3. \A k \in 1..S : u[k] = v[m + k]
  BY <1>1
<1>4. u = [k \in 1..S |-> u[k]]
  BY <1>2
<1> QED  BY <1>1, <1>3, <1>4

\* A sequence followed by the beginning of another.
LEMMA ConcatPrefix ==
  ASSUME NEW T, NEW s \in Seq(T), NEW t \in Seq(T), NEW m \in 0..Len(t)
  PROVE  SubSeq(s \o t, 1, Len(s) + m) = s \o SubSeq(t, 1, m)
<1>1. PICK a \in Nat, b \in Nat : a = Len(s) /\ b = Len(t)
  BY LenProperties
<1>2. PICK v \in Seq(T) : v = s \o t
  BY ConcatProperties
<1>3. Len(v) = a + b
  BY <1>1, <1>2, ConcatProperties
<1>4. \A i \in 1..(a + b) : v[i] = IF i <= a THEN s[i] ELSE t[i - a]
  BY <1>1, <1>2, ConcatProperties
<1>5. PICK u \in Seq(T) : /\ u = SubSeq(t, 1, m) /\ Len(u) = m
                          /\ \A i \in 1..m : u[i] = t[i]
  <2>1. \A i \in 1..m : t[i] \in T
    BY ElementOf
  <2>2. 1 \in Int /\ m \in Int /\ (IF 1 <= m THEN m - 1 + 1 ELSE 0) = m
    BY <1>1
  <2>3. /\ SubSeq(t, 1, m) \in Seq(T) /\ Len(SubSeq(t, 1, m)) = m
        /\ \A i \in 1..(m - 1 + 1) : SubSeq(t, 1, m)[i] = t[1 + i - 1]
    BY <2>1, <2>2, SubSeqProperties
  <2>4. m - 1 + 1 = m /\ \A i \in 1..m : 1 + i - 1 = i
    BY <2>2
  <2> QED BY <2>3, <2>4
<1>6. PICK x : x = SubSeq(v, 1, a + m)
  OBVIOUS
<1>7. x \in Seq(T) /\ Len(x) = a + m /\ \A i \in 1..(a + m) : x[i] = v[i]
  <2>1. a + m <= Len(v) /\ a + m \in Nat
    BY <1>1, <1>3
  <2>2. \A i \in 1..(a + m) : v[i] \in T
    BY <2>1, ElementOf
  <2>3. 1 \in Int /\ a + m \in Int /\ (IF 1 <= a + m THEN a + m - 1 + 1 ELSE 0) = a + m
    BY <2>1
  <2>4. /\ x \in Seq(T) /\ Len(x) = a + m
        /\ \A i \in 1..(a + m - 1 + 1) : x[i] = v[1 + i - 1]
    BY <1>6, <2>2, <2>3, SubSeqProperties
  <2>5. a + m - 1 + 1 = a + m /\ \A i \in 1..(a + m) : 1 + i - 1 = i
    BY <2>3
  <2> QED BY <2>4, <2>5
<1>8. PICK y \in Seq(T) : y = s \o u
  BY <1>5, ConcatProperties
<1>9. Len(y) = a + m /\ \A i \in 1..(a + m) : y[i] = IF i <= a THEN s[i] ELSE u[i - a]
  BY <1>1, <1>5, <1>8, ConcatProperties
<1>10. ASSUME NEW i \in 1..(a + m) PROVE x[i] = y[i]
  <2>1. i \in 1..(a + b)
    BY <1>1
  <2>2. CASE i <= a
    BY <1>4, <1>7, <1>9, <2>1, <2>2
  <2>3. CASE ~(i <= a)
    <3>1. i - a \in 1..m
      BY <1>1, <2>3
    <3> QED BY <1>4, <1>5, <1>7, <1>9, <2>1, <2>3, <3>1
  <2> QED BY <2>2, <2>3
<1>11. x = y
  BY <1>7, <1>8, <1>9, <1>10, SeqEqual
<1> QED BY <1>1, <1>2, <1>5, <1>6, <1>8, <1>11

\* W[i] is made of the first i of these sequences.
Chain(seqs, n, W) == W = [i \in 1..n |-> IF i = 1 THEN seqs[i] ELSE W[i - 1] \o seqs[i]]

\* It is determined by its first part and by how each part follows.
LEMMA ChainIs ==
  ASSUME NEW seqs, NEW n \in Nat \ {0}, NEW W, Chain(seqs, n, W)
  PROVE  (CHOOSE flatten : Chain(seqs, n, flatten))[n] = W[n]
<1> DEFINE flat == CHOOSE flatten : Chain(seqs, n, flatten)
<1>1. Chain(seqs, n, flat)
  BY Zenon
<1> HIDE DEF flat
<1> DEFINE wrong == {i \in 1..n : flat[i] # W[i]}
<1>2. wrong = {}
  <2> SUFFICES ASSUME wrong # {} PROVE FALSE
    OBVIOUS
  <2>1. PICK s \in wrong : \A t \in wrong : s <= t
    BY Smallest
  <2>2. s # 1
    BY <1>1 DEF Chain
  <2>3. s \in 1..n /\ s - 1 \in 1..n /\ ~(s <= s - 1)
    BY <2>2
  <2>4. flat[s - 1] = W[s - 1]
    BY <2>1, <2>3
  <2>5. flat[s] = flat[s - 1] \o seqs[s] /\ W[s] = W[s - 1] \o seqs[s]
    BY <1>1, <2>2, <2>3 DEF Chain
  <2> QED  BY <2>4, <2>5
<1>3. flat[n] = W[n]
  <2>1. n \in 1..n /\ n \notin wrong
    BY <1>2
  <2> QED  BY <2>1
<1> QED  BY <1>3 DEF flat

-----------------------------------------------------------------------------
(* The strips of an image.                                                 *)

\* The strip that a row belongs to is in the strip table, and the row is one of
\* the strip's rows.
LEMMA StripOfRow ==
  ASSUME NEW length \in Nat \ {0}, NEW rows \in Nat \ {0}, NEW row \in Nat,
         row < length
  PROVE  LET s == (row \div rows) + 1
         IN  /\ s \in 1..((length + rows - 1) \div rows)
             /\ (row % rows) < rows
             /\ (row % rows) < length - (s - 1) * rows
<1> DEFINE q == row \div rows
           n == (length + rows - 1) \div rows
<1>1. q \in Nat /\ row % rows \in Nat /\ (row % rows) < rows
      /\ row = rows * q + (row % rows)
  BY DivMod
<1>2. length + rows - 1 \in Nat
  BY SMT
<1>3. /\ n \in Nat /\ (length + rows - 1) % rows < rows
      /\ length + rows - 1 = rows * n + ((length + rows - 1) % rows)
      /\ (length + rows - 1) % rows \in Nat
  BY <1>2, DivMod
<1>4. rows * q + rows <= length + rows - 1
  BY <1>1, SMT
<1>5. ~(n < q + 1)
  <2> SUFFICES ASSUME n < q + 1 PROVE FALSE
    OBVIOUS
  <2>1. n <= q
    BY <1>1, <1>3
  <2>2. n * rows <= q * rows
    BY <1>1, <1>3, <2>1, MulMono
  <2> HIDE DEF q, n
  <2>3. rows * n + ((length + rows - 1) % rows) < rows * q + rows
    BY <1>1, <1>3, <2>2, SMT
  <2> QED  BY <1>1, <1>3, <1>4, <2>3, SMT
<1>6. (q + 1) - 1 = q /\ q * rows = rows * q
  BY <1>1
<1>7. (row % rows) < length - q * rows
  BY <1>1, <1>6
<1> HIDE DEF q, n
<1> QED  BY <1>1, <1>3, <1>5, <1>6, <1>7 DEF q, n

\* The rows of strip s of an image, and how many there are.
RowsOf(length, R, s) == {r \in 0..(length - 1) : r >= (s - 1) * R /\ r < s * R}
\* The number of rows of strip s, as RowsIn computes it.
CountOf(length, R, s) ==
  LET left == length - (s - 1) * R IN IF R <= left THEN R ELSE left

\* It is the number of the strip's rows.
LEMMA RowsCount ==
  ASSUME NEW length \in Nat, NEW R \in Nat \ {0}, NEW s \in Nat \ {0}, (s - 1) * R < length
  PROVE  /\ RowsOf(length, R, s) # {}
         /\ Cardinality(RowsOf(length, R, s)) = CountOf(length, R, s)
         /\ CountOf(length, R, s) \in 1..R
<1>1. PICK a \in Nat : a = (s - 1) * R /\ s * R = a + R
  <2>1. (s - 1) * R \in Nat /\ s * R = (s - 1) * R + R
    OBVIOUS
  <2> QED  BY <2>1
<1>2. PICK c \in 1..R : c = CountOf(length, R, s) /\ a + c <= length /\ (c = R \/ a + c = length)
  <2>1. PICK left \in Nat \ {0} : left = length - a
    BY <1>1
  <2>2. CountOf(length, R, s) = IF R <= left THEN R ELSE left
    BY <1>1, <2>1 DEF CountOf
  <2>3. PICK c \in 1..R : c = (IF R <= left THEN R ELSE left) /\ c <= left /\ (c = R \/ c = left)
    <3>1. CASE R <= left
      BY <3>1
    <3>2. CASE ~(R <= left)
      BY <3>2
    <3> QED  BY <3>1, <3>2
  <2>4. a + c <= length /\ (c = left => a + c = length)
    BY <2>1, <2>3
  <2> QED  BY <2>2, <2>3, <2>4
<1>3. RowsOf(length, R, s) = a..(a + c - 1)
  BY <1>1, <1>2 DEF RowsOf
<1>4. a \in a..(a + c - 1) /\ Cardinality(a..(a + c - 1)) = c
  <2>1. a \in Int /\ a + c - 1 \in Int /\ a <= a + c - 1 /\ (a + c - 1) - a + 1 = c
    BY <1>2
  <2> QED  BY <2>1, FS_Interval
<1> QED  BY <1>2, <1>3, <1>4

\* The sizes of n strips of R rows that cover length rows: all full but the last.
SizesFine(length, R, n) ==
  /\ n \in Nat \ {0}
  /\ \A s \in 1..n : (s - 1) * R < length
  /\ \A s \in 1..(n - 1) : CountOf(length, R, s) = R
  /\ CountOf(length, R, n) = length - (n - 1) * R

\* All strips but the last are full, and it ends with the image.
LEMMA StripSizes ==
  ASSUME NEW length \in Nat \ {0}, NEW R \in Nat \ {0}, NEW n \in Nat,
         n = (length + R - 1) \div R
  PROVE  SizesFine(length, R, n)
<1>1. PICK m \in Nat, k \in Nat : k < R /\ length + R - 1 = m + k /\ m = R * n
  <2>1. length + R - 1 \in Nat
    OBVIOUS
  <2> QED  BY <2>1, DivMod
<1>2. n # 0
  BY <1>1
<1>3. ASSUME NEW s \in 1..n PROVE (s - 1) * R < length
  <2>1. s * R <= n * R /\ s * R = (s - 1) * R + R
    BY MulMono
  <2>2. n * R = m /\ s * R \in Nat
    BY <1>1
  <2> QED  BY <1>1, <2>1, <2>2
<1>4. ASSUME NEW s \in 1..(n - 1) PROVE CountOf(length, R, s) = R
  <2>1. PICK a \in Nat : a = (s - 1) * R /\ s * R = a + R
    <3>1. (s - 1) * R \in Nat /\ s * R = (s - 1) * R + R
      OBVIOUS
    <3> QED  BY <3>1
  <2>2. s + 1 \in 1..n /\ (s + 1) - 1 = s
    OBVIOUS
  <2>3. s * R < length
    BY <1>3, <2>2
  <2> QED  BY <2>1, <2>3 DEF CountOf
<1>5. CountOf(length, R, n) = length - (n - 1) * R
  <2>1. PICK a \in Nat : a = (n - 1) * R /\ n * R = a + R
    <3>1. (n - 1) * R \in Nat /\ n * R = (n - 1) * R + R
      BY <1>2
    <3> QED  BY <3>1
  <2>2. m = a + R
    BY <1>1, <2>1
  <2>3. length - a <= R
    BY <1>1, <2>2
  <2>4. a < length /\ length - a \in Nat
    BY <1>1, <2>2
  <2> QED  BY <2>1, <2>3, <2>4 DEF CountOf
<1> QED  BY <1>2, <1>3, <1>4, <1>5 DEF SizesFine

\* The strips partition the rows when there are as many as the code computes.
LEMMA StripsCover ==
  ASSUME NEW length \in Nat \ {0}, NEW R \in Nat \ {0}, NEW n \in Nat
  PROVE  /\ \A s \in 1..n : RowsOf(length, R, s) # {}
         /\ UNION {RowsOf(length, R, s) : s \in 1..n} = 0..(length - 1)
         <=> n = (length + R - 1) \div R
<1> DEFINE count == (length + R - 1) \div R
           covered == UNION {RowsOf(length, R, s) : s \in 1..n} = 0..(length - 1)
           used == \A s \in 1..n : RowsOf(length, R, s) # {}
<1>1. ASSUME used, covered PROVE n = count
  <2>1. length - 1 \in 0..(length - 1)
    OBVIOUS
  <2>2. PICK s \in 1..n : length - 1 \in RowsOf(length, R, s)
    BY <1>1, <2>1
  <2>3. s * R <= n * R /\ n \in 1..n
    BY MulMono
  <2>4. PICK m \in Nat : m = (n - 1) * R /\ n * R = m + R
    <3>1. (n - 1) * R \in Nat /\ n * R = (n - 1) * R + R
      BY <2>3
    <3> QED  BY <3>1
  <2>5. length - 1 < m + R
    BY <2>2, <2>3, <2>4 DEF RowsOf
  <2>6. PICK r \in RowsOf(length, R, n) : TRUE
    BY <1>1, <2>3
  <2>7. m <= r /\ r \in 0..(length - 1)
    BY <2>4, <2>6 DEF RowsOf
  <2>8. R * n <= length + R - 1 /\ length + R - 1 < R * n + R
    BY <2>4, <2>5, <2>7
  <2>9. PICK b \in Nat : b = length + R - 1
    OBVIOUS
  <2>10. b \div R = n
    BY <2>8, <2>9, DivUnique
  <2> QED  BY <2>9, <2>10
<1>2. ASSUME n = count PROVE used /\ covered
  <2>2. \A s \in 1..n : (s - 1) * R < length
    BY <1>2, StripSizes DEF SizesFine
  <2>3. ASSUME NEW s \in 1..n PROVE RowsOf(length, R, s) # {}
    <3>1. s \in Nat \ {0}
      OBVIOUS
    <3> QED  BY <2>2, <3>1, RowsCount
  <2>4. ASSUME NEW row \in 0..(length - 1)
        PROVE  \E s \in 1..n : row \in RowsOf(length, R, s)
    <3>1. PICK q \in Nat : q = row \div R /\ R * q <= row /\ row < R * q + R
      BY DivMod
    <3>2. q + 1 \in 1..n
      BY <1>2, <3>1, StripOfRow
    <3>3. row >= ((q + 1) - 1) * R /\ row < (q + 1) * R
      BY <3>1
    <3> QED  BY <3>2, <3>3 DEF RowsOf
  <2>5. covered
    BY <2>4 DEF RowsOf
  <2> QED  BY <2>3, <2>5
<1> QED  BY <1>1, <1>2

\* The strips hold all the rows: the last one has those the others leave.
LEMMA AllRows ==
  ASSUME NEW length \in Nat, NEW R \in Nat, NEW wide \in Nat, NEW n \in Nat \ {0},
         NEW last \in Nat,
         last = length - (n - 1) * R
  PROVE  (n - 1) * (R * wide) + last * wide = length * wide
<1>1. PICK a \in Nat : a = (n - 1) * R
  OBVIOUS
<1>2. length = a + last
  BY <1>1
<1>3. length * wide = a * wide + last * wide
  BY <1>2
<1>4. a * wide = (n - 1) * (R * wide)
  BY <1>1
<1> QED  BY <1>3, <1>4
=============================================================================
