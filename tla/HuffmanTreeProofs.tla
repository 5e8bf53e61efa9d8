-------------------------- MODULE HuffmanTreeProofs --------------------------
(***************************************************************************)
(* For every list of code lengths, prefix code or not, and every sequence  *)
(* of bits, the Huffman table stays well typed and the symbol it returns   *)
(* has a code as long as the bits that were read.                          *)
(*                                                                         *)
(* The table is split by lengths: the symbols of length len are placed     *)
(* from Offset(len) up to, not including, Offset(len + 1), one at each     *)
(* place.  While bits are read, index is the offset of the length at hand  *)
(* and the code never falls behind the first one of that length, so what   *)
(* is looked up lies in that part of the table.                            *)
(*                                                                         *)
(* The codes of a length follow each other from the first one on, in the   *)
(* order of the symbols: the code, less the first one, is the rank of the  *)
(* symbol that has it, and a code beyond the last one is none.             *)
(***************************************************************************)
EXTENDS HuffmanTree, ArithmeticLemmas

Reading ==
  answer = Pending => code >= first /\ index = Offset(Len(bits) + 1)

IInv == TypeOK /\ Len(bits) <= MaxBits /\ Reading /\ SymbolHasLength

-----------------------------------------------------------------------------
(* The table's parts.                                                      *)

Ranked(len) == {s \in Symbols : lengths[s + 1] = len}
Shorter(len) == {s \in Symbols : lengths[s + 1] \in 1..(len - 1)}

\* Symbols, those of a length and those of shorter ones are finite sets.
LEMMA Parts ==
  ASSUME lengths \in Seq(0..MaxBits), NEW len \in Nat
  PROVE  /\ IsFiniteSet(Ranked(len)) /\ Ranked(len) \in SUBSET Nat
         /\ IsFiniteSet(Shorter(len))
         /\ Count(len) = Cardinality(Ranked(len)) /\ Count(len) \in Nat
         /\ Offset(len) = Cardinality(Shorter(len)) /\ Offset(len) \in 0..Len(lengths)
<1>1. Len(lengths) \in Nat
  OBVIOUS
<1>2. IsFiniteSet(Symbols) /\ Cardinality(Symbols) = Len(lengths) /\ Symbols \in SUBSET Nat
  <2>1. /\ 0 \in Int /\ Len(lengths) - 1 \in Int
        /\ (IF 0 > Len(lengths) - 1 THEN 0 ELSE (Len(lengths) - 1) - 0 + 1) = Len(lengths)
    BY <1>1
  <2>2. Symbols = 0..(Len(lengths) - 1)
    BY DEF Symbols
  <2>3. Symbols \in SUBSET Nat
    BY <1>1, <2>2
  <2> QED
    BY <2>1, <2>2, <2>3, FS_Interval
<1>3. Ranked(len) \in SUBSET Symbols /\ Shorter(len) \in SUBSET Symbols
  BY DEF Ranked, Shorter
<1>4. IsFiniteSet(Ranked(len)) /\ IsFiniteSet(Shorter(len))
      /\ Cardinality(Shorter(len)) <= Len(lengths)
  BY <1>2, <1>3, FS_Subset
<1>5. Cardinality(Ranked(len)) \in Nat /\ Cardinality(Shorter(len)) \in Nat
  BY <1>4, FS_CardinalityType
<1>6. Count(len) = Cardinality(Ranked(len)) /\ Offset(len) = Cardinality(Shorter(len))
  BY DEF Count, Offset, Ranked, Shorter
<1>7. Ranked(len) \in SUBSET Nat
  BY <1>2, <1>3
<1>8. Count(len) \in Nat
  BY <1>5, <1>6
<1>9. Offset(len) \in 0..Len(lengths)
  BY <1>1, <1>4, <1>5, <1>6
<1> QED
  BY <1>4, <1>6, <1>7, <1>8, <1>9

\* The symbols of a length fill the table from its offset to the next one.
LEMMA OffsetNext ==
  ASSUME lengths \in Seq(0..MaxBits), NEW len \in Nat \ {0}
  PROVE  Offset(len + 1) = Offset(len) + Count(len)
<1>1. len \in Nat /\ len + 1 \in Nat
  OBVIOUS
<1>2. Shorter(len + 1) = Shorter(len) \cup Ranked(len)
  <2>1. ASSUME NEW s \in Symbols
        PROVE  lengths[s + 1] \in 1..((len + 1) - 1)
                 <=> lengths[s + 1] \in 1..(len - 1) \/ lengths[s + 1] = len
    <3>1. lengths[s + 1] \in Nat
      BY LengthsAssumption DEF Symbols
    <3> QED
      BY <3>1
  <2> QED
    BY <2>1 DEF Shorter, Ranked
<1>3. Shorter(len) \cap Ranked(len) = {}
  BY DEF Shorter, Ranked
<1>4. Cardinality({}) = 0
  BY FS_EmptySet
<1>5. Cardinality(Shorter(len) \cup Ranked(len))
        = Cardinality(Shorter(len)) + Cardinality(Ranked(len)) - Cardinality(Shorter(len) \cap Ranked(len))
  BY <1>1, Parts, FS_Union
<1>6. /\ Offset(len + 1) = Cardinality(Shorter(len + 1)) /\ Offset(len) = Cardinality(Shorter(len))
      /\ Count(len) = Cardinality(Ranked(len)) /\ Offset(len) \in Nat /\ Count(len) \in Nat
  <2>1. \A l \in Nat :
          /\ Offset(l) = Cardinality(Shorter(l)) /\ Offset(l) \in Nat
          /\ Count(l) = Cardinality(Ranked(l)) /\ Count(l) \in Nat
    <3> TAKE l \in Nat
    <3>1. Offset(l) \in 0..Len(lengths) /\ Offset(l) = Cardinality(Shorter(l))
      BY Parts
    <3>2. Count(l) \in Nat /\ Count(l) = Cardinality(Ranked(l))
      BY Parts
    <3>3. Offset(l) \in Nat
      BY <3>1
    <3> QED
      BY <3>1, <3>2, <3>3
  <2> QED
    BY <1>1, <2>1, Zenon
<1>7. Cardinality(Shorter(len) \cup Ranked(len)) = Offset(len) + Count(len) - 0
  BY <1>3, <1>4, <1>5, <1>6
<1>8. Offset(len + 1) = Offset(len) + Count(len) - 0
  BY <1>2, <1>6, <1>7, Zenon
<1> QED
  BY <1>6, <1>8

\* Offsets do not fall.
LEMMA OffsetsGrow ==
  ASSUME lengths \in Seq(0..MaxBits), NEW l \in Nat, NEW m \in Nat, l <= m
  PROVE  Offset(l) <= Offset(m)
<1>1. Shorter(l) \in SUBSET Shorter(m)
  <2>1. ASSUME NEW s \in Symbols, lengths[s + 1] \in 1..(l - 1)
        PROVE  lengths[s + 1] \in 1..(m - 1)
    BY <2>1
  <2> QED
    BY <2>1 DEF Shorter
<1> QED
  BY <1>1, Parts, FS_Subset

\* A symbol with a code is placed in its length's part of the table.
LEMMA PlaceInPart ==
  ASSUME lengths \in Seq(0..MaxBits), NEW s \in Symbols, Placed(s)
  PROVE  LET l == lengths[s + 1] IN
         /\ l \in Nat \ {0}
         /\ Place(s) = Offset(l) + Cardinality(Below(Ranked(l), s))
         /\ Place(s) \in Offset(l)..(Offset(l + 1) - 1)
<1> DEFINE l == lengths[s + 1]
<1>1. l \in Nat \ {0} /\ s \in Ranked(l)
  BY LengthsAssumption DEF Symbols, Placed, Ranked
<1> HIDE DEF l
<1>2. {r \in Symbols : r < s /\ lengths[r + 1] = l} = Below(Ranked(l), s)
  BY DEF Below, Ranked
<1>3. Place(s) = Offset(l) + Cardinality(Below(Ranked(l), s))
  BY <1>2 DEF Place, l
<1>4. Cardinality(Below(Ranked(l), s)) \in 0..(Cardinality(Ranked(l)) - 1)
  <2>1. Ranked(l) \in SUBSET Nat /\ IsFiniteSet(Ranked(l))
    BY <1>1, Parts
  <2> QED
    BY <1>1, <2>1, RankBound
<1>5. Offset(l) \in Nat /\ Count(l) = Cardinality(Ranked(l)) /\ Count(l) \in Nat
  BY <1>1, Parts
<1>6. Offset(l + 1) = Offset(l) + Count(l)
  BY <1>1, OffsetNext
<1>7. Place(s) \in Offset(l)..(Offset(l + 1) - 1)
  BY <1>3, <1>4, <1>5, <1>6
<1> QED
  BY <1>1, <1>3, <1>7 DEF l

\* What is looked up in a length's part is a symbol of that length.
LEMMA SymbolOfLength ==
  ASSUME lengths \in Seq(0..MaxBits), NEW len \in Nat \ {0}, NEW j \in 0..(Count(len) - 1)
  PROVE  /\ Symbol(Offset(len) + j) \in Symbols
         /\ lengths[Symbol(Offset(len) + j) + 1] = len
         /\ Cardinality(Below(Ranked(len), Symbol(Offset(len) + j))) = j
<1>1. /\ IsFiniteSet(Ranked(len)) /\ Ranked(len) \in SUBSET Nat
      /\ Count(len) = Cardinality(Ranked(len)) /\ Count(len) \in Nat /\ Offset(len) \in Nat
  BY Parts
<1>2. PICK s \in Ranked(len) : Cardinality(Below(Ranked(len), s)) = j
  BY <1>1, RankExists
<1>3. s \in Symbols /\ Placed(s) /\ lengths[s + 1] = len
  BY DEF Ranked, Placed
<1>4. Place(s) = Offset(len) + j
  BY <1>2, <1>3, PlaceInPart
<1>5. ASSUME NEW t \in Symbols, Placed(t), Place(t) = Offset(len) + j
      PROVE  lengths[t + 1] = len /\ Cardinality(Below(Ranked(len), t)) = j
  <2> DEFINE l == lengths[t + 1]
  <2>1. l \in Nat \ {0} /\ Place(t) \in Offset(l)..(Offset(l + 1) - 1)
    BY <1>5, PlaceInPart
  <2> HIDE DEF l
  <2>2. Offset(len + 1) = Offset(len) + Count(len)
    BY OffsetNext
  <2>3. Offset(l) \in Nat /\ Offset(l + 1) \in Nat /\ l + 1 \in Nat /\ len + 1 \in Nat
    BY <2>1, Parts
  <2>4. CASE l < len
    <3>1. Offset(l + 1) <= Offset(len)
      BY <2>1, <2>3, <2>4, OffsetsGrow
    <3> QED
      BY <1>1, <1>5, <2>1, <2>3, <3>1
  <2>5. CASE l > len
    <3>1. Offset(len + 1) <= Offset(l)
      BY <2>1, <2>3, <2>5, OffsetsGrow
    <3> QED
      BY <1>1, <1>5, <2>1, <2>2, <2>3, <3>1, SMTT(40)
  <2>6. l = len
    BY <2>1, <2>4, <2>5 DEF l
  <2>7. Place(t) = Offset(len) + Cardinality(Below(Ranked(len), t))
    BY <1>5, <2>6, PlaceInPart DEF l
  <2>8. Cardinality(Below(Ranked(len), t)) \in Nat
    <3>1. t \in Ranked(len)
      BY <1>5, <2>6 DEF l, Ranked
    <3> QED
      BY <1>1, <3>1, RankBound, FS_CardinalityType
  <2>9. Cardinality(Below(Ranked(len), t)) = j
    BY <1>1, <1>5, <2>7, <2>8
  <2> QED
    BY <2>6, <2>9 DEF l
<1> QED
  BY <1>3, <1>4, <1>5 DEF Symbol

-----------------------------------------------------------------------------
(* The inductive invariant.                                                *)

LEMMA InitIInv == Init => IInv
<1> SUFFICES ASSUME Init PROVE IInv
  OBVIOUS
<1>1. lengths \in Seq(0..MaxBits) /\ MaxBits \in Nat
  BY LengthsAssumption DEF Init
<1>2. bits \in Seq({0, 1}) /\ Len(bits) = 0
  BY DEF Init
<1>3. Offset(1) = 0
  <2>1. {s \in Symbols : lengths[s + 1] \in 1..(1 - 1)} = {}
    OBVIOUS
  <2> QED
    BY <2>1, FS_EmptySet DEF Offset
<1>4. Pending \notin Symbols
  BY <1>1 DEF Pending, Symbols
<1>5. index = Offset(Len(bits) + 1)
  BY <1>2, <1>3 DEF Init
<1>6. TypeOK
  BY <1>1, <1>2 DEF Init, TypeOK
<1> QED
  BY <1>1, <1>2, <1>4, <1>5, <1>6 DEF Init, IInv, Reading, SymbolHasLength

LEMMA ReadBitKeeps ==
  ASSUME IInv, NEW b \in {0, 1}, ReadBit(b)
  PROVE  IInv'
<1>1. /\ lengths \in Seq(0..MaxBits) /\ bits \in Seq({0, 1}) /\ MaxBits \in Nat
      /\ code \in Nat /\ first \in Nat /\ index \in 0..Len(lengths)
  BY LengthsAssumption DEF IInv, TypeOK
<1> PICK len \in Nat : len = Len(bits) + 1
  BY <1>1
<1> DEFINE value == code + b
           n == Count(len)
<1>2. answer = Pending /\ len <= MaxBits /\ code >= first /\ index = Offset(len)
  BY <1>1 DEF ReadBit, IInv, Reading
<1>3. /\ bits' = Append(bits, b) /\ bits' \in Seq({0, 1}) /\ Len(bits') = len
      /\ lengths' = lengths
  BY <1>1 DEF ReadBit
<1>4. len \in Nat \ {0} /\ len + 1 \in Nat /\ value \in Nat /\ n \in Nat
  <2>1. Len(bits) \in Nat
    BY <1>1
  <2>2. n \in Nat
    BY <1>1, Parts
  <2> QED
    BY <1>1, <2>1, <2>2
<1>5. Symbols' = Symbols /\ Offset(Len(bits) + 1)' = Offset(len + 1)
  BY <1>3 DEF Symbols, Offset
<1>6. Pending \notin Symbols
  BY <1>1 DEF Pending, Symbols
<1>7. CASE /\ IsCode(value - first, n)
           /\ answer' = Symbol(index + (value - first))
           /\ UNCHANGED <<code, first, index>>
  <2>1. value - first \in 0..(n - 1)
    BY <1>1, <1>2, <1>4, <1>7 DEF IsCode
  <2>2. answer' \in Symbols /\ lengths[answer' + 1] = len
    <3> HIDE DEF value, n
    <3> QED
      BY <1>1, <1>2, <1>4, <1>7, <2>1, SymbolOfLength DEF n
  <2> HIDE DEF value, n
  <2>3. TypeOK'
    BY <1>1, <1>3, <1>5, <1>7, <2>2 DEF TypeOK
  <2>4. SymbolHasLength'
    BY <1>3, <2>2 DEF SymbolHasLength
  <2>5. Reading'
    BY <1>5, <1>6, <2>2 DEF Reading, Pending
  <2>6. (Len(bits) <= MaxBits)'
    BY <1>2, <1>3
  <2> QED
    BY <2>3, <2>4, <2>5, <2>6 DEF IInv
<1>8. CASE /\ ~IsCode(value - first, n)
           /\ index' = index + n
           /\ first' = NextFirst(n)
           /\ code' = 2 * value
           /\ UNCHANGED answer
  <2>1. index' = Offset(len + 1) /\ Offset(len + 1) \in 0..Len(lengths)
    BY <1>1, <1>2, <1>4, <1>8, OffsetNext, Parts
  <2>2. first' = 2 * (first + n) /\ code' = 2 * value /\ value - first >= n
    BY <1>1, <1>4, <1>8 DEF IsCode, NextFirst
  <2> HIDE DEF value, n
  <2>3. code' \in Nat /\ first' \in Nat /\ code' >= first'
    BY <1>1, <1>4, <2>2
  <2>4. TypeOK'
    BY <1>1, <1>2, <1>3, <1>8, <2>1, <2>3 DEF TypeOK
  <2>5. Reading'
    BY <1>3, <1>5, <2>1, <2>3 DEF Reading
  <2>6. SymbolHasLength' /\ (Len(bits) <= MaxBits)'
    BY <1>2, <1>3, <1>5, <1>6, <1>8 DEF SymbolHasLength
  <2> QED
    BY <2>4, <2>5, <2>6 DEF IInv
<1> QED
  BY <1>7, <1>8 DEF ReadBit

LEMMA NoCodeKeeps == ASSUME IInv, NoCode PROVE IInv'
<1>1. Symbols' = Symbols /\ lengths \in Seq(0..MaxBits)
  BY DEF NoCode, IInv, TypeOK, Symbols
<1>2. -1 \notin Symbols
  BY <1>1 DEF Symbols
<1>3. SymbolHasLength' /\ Reading'
  BY <1>1, <1>2 DEF NoCode, SymbolHasLength, Reading, Pending
<1> QED
  BY <1>1, <1>3 DEF NoCode, IInv, TypeOK

LEMMA StutterKeeps == ASSUME IInv, UNCHANGED huffVars PROVE IInv'
<1>1. Symbols' = Symbols /\ Offset(Len(bits) + 1)' = Offset(Len(bits) + 1)
  BY DEF huffVars, Symbols, Offset
<1> QED
  BY <1>1 DEF huffVars, IInv, TypeOK, Reading, SymbolHasLength

LEMMA StepIInv == IInv /\ [Next]_huffVars => IInv'
BY ReadBitKeeps, NoCodeKeeps, StutterKeeps DEF Next

\* The table is never indexed beyond the number of symbols, and the decoder
\* answers with a symbol or says that there is none, for any lengths and bits.
THEOREM HuffmanTypeCorrect == Spec => []TypeOK
<1>1. IInv => TypeOK
  BY DEF IInv
<1> QED
  BY InitIInv, StepIInv, <1>1, PTL DEF Spec

\* The symbol the decoder returns has a code of the length just read, for any
\* lengths, too many codes for their lengths included.
THEOREM HuffmanSymbolHasLength == Spec => []SymbolHasLength
<1>1. IInv => SymbolHasLength
  BY DEF IInv
<1> QED
  BY InitIInv, StepIInv, <1>1, PTL DEF Spec

-----------------------------------------------------------------------------
(* Canonical codes.                                                        *)

\* The first codes satisfy their equation: the recursion is well founded.
LEMMA StartEquation ==
  ASSUME lengths \in Seq(0..MaxBits)
  PROVE  /\ Start \in [1..MaxBits -> Nat] /\ Start[1] = 0
         /\ \A len \in 2..MaxBits : Start[len] = 2 * (Start[len - 1] + Count(len - 1))
<1>1. PICK max \in Nat \ {0} : max = MaxBits
  BY LengthsAssumption
<1>0. PICK m \in Nat : m = max - 1
  BY <1>1
<1>2. PICK g : g = [p \in (1..m) \X Nat |-> 2 * (p[2] + Count(p[1]))]
  OBVIOUS
<1>3. g \in [(1..m) \X Nat -> Nat]
  <2>1. ASSUME NEW p \in (1..m) \X Nat PROVE 2 * (p[2] + Count(p[1])) \in Nat
    <3>1. p[1] \in Nat /\ p[2] \in Nat
      BY <1>0
    <3>2. Count(p[1]) \in Nat
      BY <3>1, Parts
    <3> QED BY <3>1, <3>2
  <2> QED BY <2>1, <1>2
<1>4. PICK h \in [0..m -> Nat] :
        h[0] = 0 /\ \A k \in 1..m : h[k] = g[<<k, h[k - 1]>>]
  <2>1. Recursion(m, Nat, 0, g) # {}
    BY <1>3, RecursionExists, 0 \in Nat
  <2> QED BY <2>1 DEF Recursion
<1>5. PICK f : f = [len \in 1..max |-> h[len - 1]]
  OBVIOUS
<1>6. f \in [1..max -> Nat] /\ \A len \in 1..max : f[len] = h[len - 1]
  BY <1>0, <1>1, <1>4, <1>5
<1>7. ASSUME NEW len \in 1..max, len # 1 PROVE f[len] = 2 * (f[len - 1] + Count(len - 1))
  <2>1. PICK k \in 1..m : k = len - 1 /\ k \in 1..max /\ k - 1 \in 0..m
    BY <1>0, <1>1, <1>7
  <2>2. h[k] = g[<<k, h[k - 1]>>] /\ h[k - 1] \in Nat
    BY <1>4, <2>1
  <2>3. g[<<k, h[k - 1]>>] = 2 * (h[k - 1] + Count(k))
    BY <1>2, <2>1, <2>2
  <2>4. f[len] = h[k] /\ f[k] = h[k - 1]
    BY <1>6, <2>1
  <2> QED BY <2>1, <2>2, <2>3, <2>4
<1>8. f = [len \in 1..MaxBits |-> IF len = 1 THEN 0 ELSE 2 * (f[len - 1] + Count(len - 1))]
  <2>1. f[1] = 0 /\ 1 \in 1..max
    BY <1>1, <1>4, <1>6
  <2>2. \A len \in 1..max : f[len] = IF len = 1 THEN 0 ELSE 2 * (f[len - 1] + Count(len - 1))
    BY <1>7, <2>1
  <2> QED BY <1>1, <1>6, <2>2
<1>9. Start = [len \in 1..MaxBits |-> IF len = 1 THEN 0 ELSE 2 * (Start[len - 1] + Count(len - 1))]
  BY <1>8 DEF Start
<1>10. /\ Start[1] = 0 /\ DOMAIN Start = 1..max
       /\ \A len \in 2..max : Start[len] = 2 * (Start[len - 1] + Count(len - 1))
  <2>1. PICK st : st = Start
    OBVIOUS
  <2>2. st = [len \in 1..max |-> IF len = 1 THEN 0 ELSE 2 * (st[len - 1] + Count(len - 1))]
    BY <1>1, <1>9, <2>1
  <2>3. \A len \in 1..max : st[len] = IF len = 1 THEN 0 ELSE 2 * (st[len - 1] + Count(len - 1))
    BY <2>2
  <2>4. 1 \in 1..max /\ \A len \in 2..max : len \in 1..max /\ len # 1
    BY <1>1
  <2>5. DOMAIN st = 1..max
    BY <2>2
  <2> QED BY <2>1, <2>3, <2>4, <2>5
<1>11. PICK K : K = {k \in 0..m : Start[k + 1] \in Nat}
  OBVIOUS
<1>12. ASSUME NEW k \in 0..(m - 1), k \in K PROVE k + 1 \in K
  <2>1. /\ k + 2 \in 2..max /\ k + 1 \in 0..m /\ k + 1 \in Nat
        /\ (k + 2) - 1 = k + 1 /\ (k + 1) + 1 = k + 2
    BY <1>0, <1>1, <1>12
  <2>2. Start[k + 2] = 2 * (Start[k + 1] + Count(k + 1))
    BY <1>10, <2>1
  <2>3. Count(k + 1) \in Nat
    BY <2>1, Parts
  <2>4. Start[k + 1] \in Nat
    BY <1>11, <1>12
  <2>5. Start[(k + 1) + 1] \in Nat
    BY <2>1, <2>2, <2>3, <2>4
  <2> QED BY <1>11, <2>1, <2>5
<1>13. K = 0..m
  <2>1. 0 \in K /\ K \in SUBSET (0..m)
    BY <1>0, <1>10, <1>11
  <2> QED BY <2>1, <1>12, Induction
<1>14. ASSUME NEW len \in 1..max PROVE Start[len] \in Nat
  <2>1. len - 1 \in 0..m /\ (len - 1) + 1 = len
    BY <1>0, <1>1, <1>14
  <2> QED BY <1>11, <1>13, <2>1
<1>15. Start \in [1..max -> Nat]
  <2>1. PICK st : st = Start /\ st = [len \in 1..max |-> Start[len]]
    BY <1>1, <1>9, <1>10
  <2> QED BY <2>1, <1>14
<1> QED BY <1>1, <1>10, <1>15

\* The values of the beginnings of a sequence of bits, and of all of it.
Values(s) ==
  {v \in [0..Len(s) -> Nat] :
     /\ v[0] = 0 /\ v[Len(s)] = Value(s)
     /\ \A n \in 1..Len(s) : v[n] = 2 * v[n - 1] + s[n]}

LEMMA ValueEquation ==
  ASSUME NEW s \in Seq({0, 1})
  PROVE  Values(s) # {}
<1>1. PICK m \in Nat : m = Len(s) /\ \A n \in 1..m : s[n] \in Nat
  OBVIOUS
<1>2. PICK g : g = [p \in (1..m) \X Nat |-> 2 * p[2] + s[p[1]]]
  OBVIOUS
<1>3. g \in [(1..m) \X Nat -> Nat]
  BY <1>1, <1>2
<1>4. PICK h \in [0..m -> Nat] : h[0] = 0 /\ \A k \in 1..m : h[k] = g[<<k, h[k - 1]>>]
  <2>1. Recursion(m, Nat, 0, g) # {}
    BY <1>3, RecursionExists, 0 \in Nat
  <2> QED BY <2>1 DEF Recursion
<1>5. ASSUME NEW n \in 1..m PROVE h[n] = 2 * h[n - 1] + s[n]
  <2>1. n - 1 \in 0..m /\ h[n - 1] \in Nat
    BY <1>1
  <2>2. <<n, h[n - 1]>> \in (1..m) \X Nat
    BY <2>1
  <2>3. g[<<n, h[n - 1]>>] = 2 * h[n - 1] + s[n]
    BY <1>2, <2>2
  <2> QED BY <1>4, <2>3
<1>6. h = [n \in 0..Len(s) |-> IF n = 0 THEN 0 ELSE 2 * h[n - 1] + s[n]]
  <2>1. \A n \in 0..m : n = 0 \/ n \in 1..m
    BY <1>1
  <2>2. \A n \in 0..m : h[n] = IF n = 0 THEN 0 ELSE 2 * h[n - 1] + s[n]
    BY <1>4, <1>5, <2>1
  <2> QED BY <1>1, <1>4, <2>2
<1>7. PICK v : /\ v = [n \in 0..Len(s) |-> IF n = 0 THEN 0 ELSE 2 * v[n - 1] + s[n]]
               /\ Value(s) = v[Len(s)]
  BY <1>6 DEF Value
<1>8. v = h
  <2>1. PICK K : K = {n \in 0..m : v[n] = h[n]}
    OBVIOUS
  <2>2. v = [n \in 0..m |-> IF n = 0 THEN 0 ELSE 2 * v[n - 1] + s[n]]
    BY <1>1, <1>7
  <2>3. v[0] = 0 /\ \A n \in 1..m : v[n] = 2 * v[n - 1] + s[n]
    <3>1. \A n \in 0..m : v[n] = IF n = 0 THEN 0 ELSE 2 * v[n - 1] + s[n]
      BY <2>2
    <3>2. 0 \in 0..m /\ \A n \in 1..m : n \in 0..m /\ n # 0
      BY <1>1
    <3> QED BY <3>1, <3>2
  <2>4. 0 \in K /\ K \in SUBSET (0..m)
    BY <1>4, <2>1, <2>3
  <2>5. ASSUME NEW k \in 0..(m - 1), k \in K PROVE k + 1 \in K
    <3>1. k + 1 \in 1..m /\ (k + 1) - 1 = k /\ k + 1 \in 0..m
      BY <1>1, <2>5
    <3>2. v[k + 1] = 2 * v[k] + s[k + 1] /\ h[k + 1] = 2 * h[k] + s[k + 1]
      BY <2>3, <1>5, <3>1
    <3>3. v[k] = h[k]
      BY <2>1, <2>5
    <3> QED BY <3>1, <3>2, <3>3, <2>1
  <2>6. K = 0..m
    BY <2>4, <2>5, Induction
  <2>7. \A n \in 0..m : v[n] = h[n]
    BY <2>1, <2>6
  <2>8. DOMAIN v = 0..m /\ v = [n \in 0..m |-> v[n]]
    BY <2>2
  <2>9. h = [n \in 0..m |-> h[n]]
    BY <1>4
  <2> QED BY <2>7, <2>8, <2>9
<1> QED BY <1>1, <1>4, <1>5, <1>7, <1>8 DEF Values

\* No bits have the value nought.
LEMMA ValueEmpty == Value(<<>>) = 0
<1>1. <<>> \in Seq({0, 1}) /\ Len(<<>>) = 0
  OBVIOUS
<1> QED BY <1>1, ValueEquation DEF Values

\* One bit more.
LEMMA ValueAppend ==
  ASSUME NEW s \in Seq({0, 1}), NEW b \in {0, 1}
  PROVE  Value(s) \in Nat /\ Value(Append(s, b)) = 2 * Value(s) + b
<1>0. PICK m \in Nat : m = Len(s)
  OBVIOUS
<1>1. PICK t : t = Append(s, b)
  OBVIOUS
<1>2. /\ t \in Seq({0, 1}) /\ Len(t) = m + 1 /\ t[m + 1] = b
      /\ \A n \in 1..m : t[n] = s[n]
  BY <1>0, <1>1
<1>3. PICK v \in [0..m -> Nat] : /\ v[0] = 0 /\ v[m] = Value(s)
                                 /\ \A n \in 1..m : v[n] = 2 * v[n - 1] + s[n]
  BY <1>0, ValueEquation DEF Values
<1>4. PICK w \in [0..(m + 1) -> Nat] : /\ w[0] = 0 /\ w[m + 1] = Value(t)
                                       /\ \A n \in 1..(m + 1) : w[n] = 2 * w[n - 1] + t[n]
  <2>1. Values(t) # {} /\ Len(t) = m + 1
    BY <1>2, ValueEquation
  <2> QED BY <2>1 DEF Values
<1>5. PICK K : K = {n \in 0..m : v[n] = w[n]}
  OBVIOUS
<1>6. 0 \in K /\ K \in SUBSET (0..m)
  BY <1>3, <1>4, <1>5
<1>7. ASSUME NEW k \in 0..(m - 1), k \in K PROVE k + 1 \in K
  <2>1. k + 1 \in 1..m /\ k + 1 \in 1..(m + 1) /\ (k + 1) - 1 = k /\ k + 1 \in 0..m
    BY <1>7
  <2>2. v[k + 1] = 2 * v[k] + s[k + 1] /\ w[k + 1] = 2 * w[k] + t[k + 1]
    BY <1>3, <1>4, <2>1
  <2>3. v[k] = w[k] /\ t[k + 1] = s[k + 1]
    BY <1>2, <1>5, <1>7, <2>1
  <2> QED BY <2>1, <2>2, <2>3, <1>5
<1>8. m \in K
  <2>1. K = 0..m
    BY <1>6, <1>7, Induction
  <2> QED BY <2>1
<1>9. w[m + 1] = 2 * w[m] + b
  <2>1. m + 1 \in 1..(m + 1) /\ (m + 1) - 1 = m
    OBVIOUS
  <2> QED BY <2>1, <1>2, <1>4
<1>10. v[m] \in Nat /\ v[m] = w[m]
  BY <1>3, <1>5, <1>8
<1> QED BY <1>1, <1>3, <1>4, <1>9, <1>10

\* A symbol's canonical code: the first of its length and its rank in it.
LEMMA CanonicalOf ==
  ASSUME lengths \in Seq(0..MaxBits), NEW s \in Symbols, NEW len \in Nat,
         lengths[s + 1] = len
  PROVE  /\ Canonical(s) = Start[len] + Cardinality(Below(Ranked(len), s))
         /\ Cardinality(Below(Ranked(len), s)) \in 0..(Count(len) - 1)
<1>1. {r \in Symbols : r < s /\ lengths[r + 1] = len} = Below(Ranked(len), s)
  BY DEF Below, Ranked
<1>2. Canonical(s) = Start[len] + Cardinality(Below(Ranked(len), s))
  BY <1>1 DEF Canonical
<1>3. IsFiniteSet(Ranked(len)) /\ Ranked(len) \in SUBSET Nat /\ Count(len) = Cardinality(Ranked(len))
  BY Parts
<1>4. s \in Ranked(len)
  BY DEF Ranked
<1>5. Cardinality(Below(Ranked(len), s)) \in 0..(Cardinality(Ranked(len)) - 1)
  BY <1>3, <1>4, RankBound
<1> QED BY <1>2, <1>3, <1>5

\* No two symbols of a length have the same rank.
LEMMA RankDistinct ==
  ASSUME lengths \in Seq(0..MaxBits), NEW len \in Nat, NEW s \in Ranked(len), NEW t \in Ranked(len),
         Cardinality(Below(Ranked(len), s)) = Cardinality(Below(Ranked(len), t))
  PROVE  s = t
<1>1. IsFiniteSet(Ranked(len)) /\ Ranked(len) \in SUBSET Nat
  BY Parts
<1>2. \A x, y \in Ranked(len) :
        x < y => Cardinality(Below(Ranked(len), x)) < Cardinality(Below(Ranked(len), y))
  BY <1>1, RankGrows
<1>3. s \in Nat /\ t \in Nat
  BY <1>1
<1>4. Cardinality(Below(Ranked(len), s)) \in Nat
  BY <1>1, RankBound, FS_CardinalityType
<1>5. ~(s < t) /\ ~(t < s)
  BY <1>2, <1>4
<1> QED BY <1>3, <1>5

\* The code and the first code are those of the bits and of the next length.
InCode ==
  answer = Pending =>
    /\ code = 2 * Value(bits)
    /\ Len(bits) < MaxBits => first = Start[Len(bits) + 1]

CodeInv == IInv /\ InCode /\ DecodesCanonicalCodes

\* Before the first bit nothing is a code.
LEMMA InitCodeInv == Init => CodeInv
<1> SUFFICES ASSUME Init PROVE CodeInv
  OBVIOUS
<1>1. lengths \in Seq(0..MaxBits) /\ MaxBits \in Nat \ {0}
  BY LengthsAssumption DEF Init
<1>2. bits = <<>> /\ Len(bits) = 0 /\ answer \notin Symbols
  BY <1>1 DEF Init, Pending, Symbols
<1>3. InCode
  <2>1. Start[1] = 0
    BY <1>1, StartEquation
  <2> QED BY <2>1, <1>2, ValueEmpty DEF Init, InCode
<1>4. DecodesCanonicalCodes
  BY <1>2 DEF DecodesCanonicalCodes, HasCode
<1> QED BY <1>3, <1>4, InitIInv DEF CodeInv

\* What the definitions of a code say does not change with the bits read.
LEMMA SameCodes ==
  ASSUME lengths' = lengths
  PROVE  /\ Symbols' = Symbols /\ Start' = Start
         /\ \A s : Canonical(s)' = Canonical(s)
         /\ \A s, seq : HasCode(s, seq)' <=> HasCode(s, seq)
<1>1. Symbols' = Symbols
  BY DEF Symbols
<1>2. \A len : Count(len)' = Count(len)
  BY <1>1 DEF Count
<1>3. Start' = Start
  BY <1>2 DEF Start
<1>4. ASSUME NEW s PROVE Canonical(s)' = Canonical(s)
  BY <1>1, <1>3 DEF Canonical
<1>5. ASSUME NEW s, NEW seq PROVE HasCode(s, seq)' <=> HasCode(s, seq)
  BY <1>4 DEF HasCode, Value
<1> QED BY <1>1, <1>3, <1>4, <1>5

\* The beginnings of what was read, one bit later.
LEMMA BeginningsStay ==
  ASSUME NEW s \in Seq({0, 1}), NEW b \in {0, 1}, NEW n \in 1..Len(s)
  PROVE  SubSeq(Append(s, b), 1, n) = SubSeq(s, 1, n)
<1>1. PICK m \in Nat : m = Len(s) /\ n \in Nat /\ n <= m
  OBVIOUS
<1>2. PICK t : t = Append(s, b)
  OBVIOUS
<1>3. t \in Seq({0, 1}) /\ Len(t) = m + 1 /\ \A i \in 1..m : t[i] = s[i]
  BY <1>1, <1>2
<1>4. PICK p, q : p = SubSeq(t, 1, n) /\ q = SubSeq(s, 1, n)
  OBVIOUS
<1>5. p \in Seq({0, 1}) /\ Len(p) = n /\ \A i \in 1..n : p[i] = t[i]
  BY <1>1, <1>3, <1>4
<1>6. q \in Seq({0, 1}) /\ Len(q) = n /\ \A i \in 1..n : q[i] = s[i]
  BY <1>1, <1>4
<1>7. \A i \in 1..n : p[i] = q[i]
  BY <1>1, <1>3, <1>5, <1>6
<1> QED BY <1>2, <1>4, <1>5, <1>6, <1>7

\* One bit more keeps the codes.
LEMMA ReadBitKeepsCode ==
  ASSUME CodeInv, NEW b \in {0, 1}, ReadBit(b)
  PROVE  CodeInv'
<1>1. /\ lengths \in Seq(0..MaxBits) /\ bits \in Seq({0, 1}) /\ MaxBits \in Nat \ {0}
      /\ code \in Nat /\ first \in Nat /\ index \in 0..Len(lengths) /\ IInv
  BY LengthsAssumption DEF CodeInv, IInv, TypeOK
<1>2. PICK len \in Nat \ {0} : len = Len(bits) + 1
  BY <1>1
<1>3. PICK value \in Nat, n \in Nat : value = code + b /\ n = Count(len)
  <2>1. code + b \in Nat
    BY <1>1
  <2>2. Count(len) \in Nat
    BY <1>1, Parts
  <2> QED BY <2>1, <2>2
<1>4. answer = Pending /\ len \in 1..MaxBits /\ code >= first /\ index = Offset(len)
  BY <1>1, <1>2 DEF ReadBit, IInv, Reading
<1>5. /\ bits' = Append(bits, b) /\ bits' \in Seq({0, 1}) /\ Len(bits') = len
      /\ bits' # <<>> /\ lengths' = lengths
  BY <1>1, <1>2 DEF ReadBit
<1>6. value = Value(bits') /\ first = Start[len]
  <2>1. Value(Append(bits, b)) = 2 * Value(bits) + b
    BY <1>1, ValueAppend
  <2>2. code = 2 * Value(bits) /\ first = Start[len]
    <3>1. Len(bits) < MaxBits /\ Len(bits) + 1 = len
      BY <1>1, <1>2, <1>4
    <3> QED BY <3>1, <1>4 DEF CodeInv, InCode
  <2> QED BY <2>1, <2>2, <1>3, <1>5
<1>7. PICK bs : bs = bits'
  OBVIOUS
<1>8. \A s, seq : HasCode(s, seq)' <=> HasCode(s, seq)
  BY <1>5, SameCodes
<1>9. Symbols' = Symbols /\ Start' = Start /\ Pending \notin Symbols
  BY <1>1, <1>5, SameCodes DEF Pending, Symbols
\* the codes of the length just read are those from the first one on
<1>10. ASSUME NEW s \in Symbols
       PROVE  /\ HasCode(s, bs) <=>
                   lengths[s + 1] = len /\ Cardinality(Below(Ranked(len), s)) = value - first
              /\ lengths[s + 1] = len => Cardinality(Below(Ranked(len), s)) \in 0..(n - 1)
  <2>1. HasCode(s, bs) <=> lengths[s + 1] = len /\ Canonical(s) = value
    BY <1>5, <1>6, <1>7 DEF HasCode
  <2>2. ASSUME lengths[s + 1] = len
        PROVE  /\ Canonical(s) = first + Cardinality(Below(Ranked(len), s))
               /\ Cardinality(Below(Ranked(len), s)) \in 0..(n - 1)
    BY <1>1, <1>2, <1>3, <1>6, <2>2, CanonicalOf
  <2>3. ASSUME lengths[s + 1] = len
        PROVE  Canonical(s) = value <=> Cardinality(Below(Ranked(len), s)) = value - first
    <3>1. PICK r \in 0..(n - 1) : r = Cardinality(Below(Ranked(len), s))
      BY <2>2, <2>3
    <3>2. Canonical(s) = first + r
      BY <2>2, <2>3, <3>1
    <3>3. first + r = value <=> r = value - first
      BY <1>1, <1>3
    <3> QED BY <3>1, <3>2, <3>3
  <2> QED BY <2>1, <2>2, <2>3
\* no beginning of what was read is a code
<1>11. \A s \in Symbols, i \in 1..(len - 1) : ~HasCode(s, SubSeq(bs, 1, i))
  <2> SUFFICES ASSUME NEW s \in Symbols, NEW i \in 1..(len - 1)
               PROVE  ~HasCode(s, SubSeq(bs, 1, i))
    OBVIOUS
  <2>1. i \in 1..Len(bits) /\ SubSeq(bs, 1, i) = SubSeq(bits, 1, i)
    BY <1>1, <1>2, <1>5, <1>7, BeginningsStay
  <2>2. CASE i = Len(bits)
    <3>1. SubSeq(bits, 1, Len(bits)) = bits
      BY <1>1
    <3>2. ~HasCode(s, bits)
      BY <1>4, <1>9 DEF CodeInv, DecodesCanonicalCodes
    <3> QED BY <2>1, <2>2, <3>1, <3>2
  <2>3. CASE i # Len(bits)
    <3>1. i \in 1..(Len(bits) - 1)
      BY <2>1, <2>3, <1>1
    <3> QED BY <2>1, <3>1 DEF CodeInv, DecodesCanonicalCodes
  <2> QED BY <2>2, <2>3
<1>12. ASSUME \A s \in Symbols : HasCode(s, bs) <=> s = answer'
       PROVE  DecodesCanonicalCodes'
  <2>1. \A s \in Symbols :
          /\ HasCode(s, bs)' <=> s = answer'
          /\ \A i \in 1..(len - 1) : ~HasCode(s, SubSeq(bs, 1, i))'
    BY <1>8, <1>11, <1>12
  <2> QED BY <2>1, <1>5, <1>7, <1>9 DEF DecodesCanonicalCodes
<1>13. IInv'
  BY <1>1, ReadBitKeeps
<1>14. CASE /\ IsCode(value - first, n)
            /\ answer' = Symbol(index + (value - first))
            /\ UNCHANGED <<code, first, index>>
  <2>1. PICK j \in 0..(n - 1) : j = value - first
    BY <1>1, <1>3, <1>4, <1>14 DEF IsCode
  <2>2. PICK a : a = answer'
    OBVIOUS
  <2>3. a \in Symbols /\ lengths[a + 1] = len /\ Cardinality(Below(Ranked(len), a)) = j
    BY <1>1, <1>2, <1>3, <1>4, <1>14, <2>1, <2>2, SymbolOfLength
  <2>4. ASSUME NEW s \in Symbols PROVE HasCode(s, bs) <=> s = a
    <3>1. ASSUME lengths[s + 1] = len, Cardinality(Below(Ranked(len), s)) = j PROVE s = a
      BY <1>1, <1>2, <2>3, <3>1, RankDistinct DEF Ranked
    <3> QED BY <3>1, <1>10, <2>1, <2>3
  <2>5. InCode'
    BY <1>9, <2>2, <2>3 DEF InCode, Pending
  <2> QED BY <2>2, <2>4, <2>5, <1>12, <1>13 DEF CodeInv
<1>15. CASE /\ ~IsCode(value - first, n)
            /\ index' = index + n
            /\ first' = NextFirst(n)
            /\ code' = 2 * value
            /\ UNCHANGED answer
  <2>1. value - first >= n
    BY <1>1, <1>3, <1>15 DEF IsCode
  <2>2. ASSUME NEW s \in Symbols PROVE ~HasCode(s, bs) /\ s # answer'
    <3>1. s # answer'
      BY <1>4, <1>9, <1>15
    <3>2. ~HasCode(s, bs)
      BY <1>1, <1>3, <1>10, <2>1
    <3> QED BY <3>1, <3>2
  <2>3. code' = 2 * Value(bits')
    BY <1>6, <1>15
  <2>4. len < MaxBits => first' = Start[len + 1]
    <3>1. len < MaxBits => Start[len + 1] = 2 * (Start[len] + Count(len))
      <4>1. len < MaxBits => len + 1 \in 2..MaxBits /\ (len + 1) - 1 = len
        BY <1>1, <1>2
      <4> QED BY <4>1, <1>1, StartEquation
    <3> QED BY <3>1, <1>3, <1>6, <1>15 DEF NextFirst
  <2>5. InCode'
    BY <2>3, <2>4, <1>5, <1>9 DEF InCode
  <2> QED BY <2>2, <2>5, <1>12, <1>13 DEF CodeInv
<1> QED BY <1>2, <1>3, <1>14, <1>15 DEF ReadBit

\* Nothing else changes what was read.
LEMMA NoCodeKeepsCode ==
  ASSUME CodeInv, NoCode \/ UNCHANGED huffVars
  PROVE  CodeInv'
<1>1. IInv'
  BY NoCodeKeeps, StutterKeeps DEF CodeInv
<1>2. lengths' = lengths /\ bits' = bits /\ Symbols' = Symbols
  BY SameCodes DEF NoCode, huffVars
<1>3. /\ \A s \in Symbols : s = answer' <=> s = answer
      /\ answer' = Pending => UNCHANGED <<answer, code, first>>
  <2>1. CASE NoCode
    <3>1. Pending \notin Symbols /\ -1 \notin Symbols /\ -1 # Pending
      BY DEF Pending, Symbols, CodeInv, IInv, TypeOK
    <3> QED BY <3>1, <2>1 DEF NoCode
  <2>2. CASE UNCHANGED huffVars
    BY <2>2 DEF huffVars
  <2> QED BY <2>1, <2>2
<1>4. PICK bs : bs = bits
  OBVIOUS
<1>5. \A s, seq : HasCode(s, seq)' <=> HasCode(s, seq)
  BY <1>2, SameCodes
<1>6. DecodesCanonicalCodes'
  <2>1. \A s \in Symbols :
          /\ HasCode(s, bs)' <=> s = answer'
          /\ \A n \in 1..(Len(bs) - 1) : ~HasCode(s, SubSeq(bs, 1, n))'
    BY <1>3, <1>4, <1>5 DEF CodeInv, DecodesCanonicalCodes
  <2> QED BY <2>1, <1>2, <1>4 DEF DecodesCanonicalCodes
<1>7. InCode'
  <2>1. Start' = Start
    BY <1>2, SameCodes
  <2>2. PICK bv : bv = Value(bs)
    OBVIOUS
  <2>3. Value(bits)' = Value(bits)
    BY <1>2 DEF Value
  <2> QED BY <2>1, <2>3, <1>2, <1>3 DEF CodeInv, InCode
<1> QED BY <1>1, <1>6, <1>7 DEF CodeInv

\* The invariant with the codes is inductive.
LEMMA StepCodeInv == CodeInv /\ [Next]_huffVars => CodeInv'
BY ReadBitKeepsCode, NoCodeKeepsCode DEF Next

\* For any code lengths, Decode returns the symbol whose canonical code it has
\* read, as soon as it has read one.
THEOREM HuffmanDecodesCanonicalCodes == Spec => []DecodesCanonicalCodes
<1>1. CodeInv => DecodesCanonicalCodes
  BY DEF CodeInv
<1> QED BY InitCodeInv, StepCodeInv, <1>1, PTL DEF Spec
=============================================================================
