---------------------------- MODULE InflateProofs ----------------------------
(***************************************************************************)
(* The Deflate decoder stays well typed and accepts nothing beyond the end *)
(* of its input, for every strip, alphabet and table of extra bits.        *)
(*                                                                         *)
(* The reader's flag only tells that some read went beyond the end; that   *)
(* it did is visible from its position ever after (Reader), and a strip is *)
(* accepted only where the position has just been looked at.               *)
(*                                                                         *)
(* A strip that was deflated is inflated.  The decoder is always between   *)
(* two items of the strip, or in the middle of a match, with the output,   *)
(* the codes and the position that the items before stand for; or the      *)
(* strip has ended within an item, and this will be noticed (Following).   *)
(***************************************************************************)
EXTENDS DeflateStrips, ArithmeticLemmas, TLAPS

Reader ==
  /\ at \in Nat /\ eof \in BOOLEAN /\ strip \in Strips
  /\ eof => at > WholeFields

Answer ==
  /\ answer # "none" => pc = "done"
  /\ answer = "accepted" => ~eof

IInv == TypeOK /\ Reader /\ Answer

\* The fields of a strip are numbers, and no more of them are whole than there are.
LEMMA FieldsType ==
  ASSUME strip \in Strips
  PROVE  Fields \in Seq(Nat) /\ WholeFields \in Int /\ WholeFields <= Len(Fields)
<1>1. strip.fields \in Seq(Nat) /\ strip.after \in Seq(Nat) /\ strip.cut \in BOOLEAN
  BY TypesAssumption
<1>2. Fields \in Seq(Nat)
  BY <1>1 DEF Fields
<1>3. Len(Fields) \in Nat
  BY <1>2
<1> QED
  BY <1>1, <1>2, <1>3 DEF WholeFields

\* Reading bits gives a number that fits in them, beyond the end too.
LEMMA BitsType ==
  ASSUME Reader, NEW k \in Nat \ {0}, NEW count \in 0..16
  PROVE  Bits(k, count) \in 0..(2^count - 1)
<1>1. Fields \in Seq(Nat)
  BY FieldsType DEF Reader
<1>2. 2^count \in Nat \ {0}
  BY PowersAssumption
<1>3. CASE at + k <= Len(Fields)
  <2>1. Fields[at + k] \in Nat
    BY <1>1, <1>3 DEF Reader
  <2>2. PICK p \in Nat \ {0} : p = 2^count
    BY <1>2
  <2>3. Fields[at + k] % p \in 0..(p - 1)
    BY <2>1, <2>2
  <2> QED
    BY <1>3, <2>2, <2>3 DEF Bits
<1>4. CASE ~(at + k <= Len(Fields))
  BY <1>2, <1>4 DEF Bits
<1> QED
  BY <1>3, <1>4

\* Bits are natural numbers.
LEMMA BitsNat ==
  ASSUME Reader, NEW k \in Nat \ {0}, NEW count \in 0..16
  PROVE  Bits(k, count) \in Nat
<1>1. PICK p \in Nat \ {0} : p = 2^count
  BY PowersAssumption
<1> QED
  BY <1>1, BitsType

\* The sizes of the tables, which every step uses.
LEMMA Sizes ==
  /\ Literals \in Nat \ {0} /\ Len(LenBase) \in Nat /\ Len(DistBase) \in Nat
  /\ MaxLit \in Nat /\ FixedLit \in Nat /\ MaxLit <= FixedLit
  /\ MaxLit = Literals + 1 + Len(LenBase)
  /\ Len(LenExtra) = Len(LenBase) /\ Len(DistExtra) = Len(DistBase)
BY TypesAssumption, TablesAssumption

\* What a sequence holds.
LEMMA Element ==
  ASSUME NEW T, NEW s \in Seq(T), NEW i \in 1..Len(s)
  PROVE  s[i] \in T
OBVIOUS

\* What the tables hold.
LEMMA Tables ==
  /\ \A k \in 1..Len(LenBase) : LenBase[k] \in Nat /\ LenExtra[k] \in 0..16
  /\ \A k \in 1..Len(DistBase) : DistBase[k] \in Nat \ {0} /\ DistExtra[k] \in 0..16
  /\ \A k \in 1..3 : RepeatBase[k] \in Nat /\ RepeatBits[k] \in 0..16
<1>1. /\ LenBase \in Seq(Nat) /\ DistBase \in Seq(Nat \ {0}) /\ RepeatBase \in Seq(Nat)
      /\ LenExtra \in Seq(0..16) /\ DistExtra \in Seq(0..16) /\ RepeatBits \in Seq(0..16)
      /\ Len(RepeatBase) = 3 /\ Len(RepeatBits) = 3
  BY TypesAssumption
<1>2. ASSUME NEW k \in 1..Len(LenBase) PROVE LenBase[k] \in Nat /\ LenExtra[k] \in 0..16
  <2>1. k \in 1..Len(LenExtra)
    BY Sizes
  <2> QED
    BY <1>1, <2>1, Element, Zenon
<1>3. ASSUME NEW k \in 1..Len(DistBase) PROVE DistBase[k] \in Nat \ {0} /\ DistExtra[k] \in 0..16
  <2>1. k \in 1..Len(DistExtra)
    BY Sizes
  <2> QED
    BY <1>1, <2>1, Element, Zenon
<1>4. ASSUME NEW k \in 1..3 PROVE RepeatBase[k] \in Nat /\ RepeatBits[k] \in 0..16
  BY <1>1, Element, Zenon
<1> QED
  BY <1>2, <1>3, <1>4

\* What is read moves the reader on, and the flag stays visible from its position.
LEMMA ConsumeKeeps ==
  ASSUME Reader, NEW count \in Nat, Consume(count)
  PROVE  Reader' /\ (at + count <= WholeFields => ~eof')
<1>1. WholeFields \in Int /\ WholeFields' = WholeFields
  BY FieldsType DEF Reader, Consume, WholeFields, Fields, ZlibHeader
<1> QED
  BY <1>1 DEF Reader, Consume

LEMMA InitIInv == Init => IInv
<1> SUFFICES ASSUME Init PROVE IInv
  OBVIOUS
<1>1. out \in Seq(Nat) /\ Len(out) >= Len(Earlier)
  BY TypesAssumption DEF Init
<1>2. lengths \in Seq({0, 1})
  BY DEF Init
<1>3. 0 <= MaxLit /\ 0 <= Len(DistBase)
  BY Sizes
<1>4. TypeOK
  BY <1>1, <1>2, <1>3 DEF Init, TypeOK
<1> QED
  BY <1>4 DEF Init, IInv, Reader, Answer

-----------------------------------------------------------------------------
(* One step lemma per action.                                              *)

LEMMA BadHeaderKeeps == ASSUME IInv, BadHeader PROVE IInv'
<1>1. Reader'
  BY ConsumeKeeps, 2 \in Nat DEF IInv, BadHeader
<1>2. TypeOK'
  BY <1>1 DEF IInv, TypeOK, Reader, BadHeader, Fail, trees
<1> QED
  BY <1>1, <1>2 DEF IInv, Answer, BadHeader, Fail

\* The length of a stored block is one of the lengths that fit in its bits.
LEMMA StoredLength ==
  ASSUME Reader
  PROVE  Bits(3, StoredBits) \in Nat /\ Bits(3, StoredBits) <= LongestStored /\ LongestStored \in Nat
<1>1. StoredBits \in 0..16
  BY TypesAssumption
<1>2. PICK p \in Nat \ {0} : p = 2^StoredBits
  BY <1>1, PowersAssumption
<1>3. Bits(3, StoredBits) \in 0..(p - 1)
  BY <1>1, <1>2, BitsType, 3 \in Nat \ {0}
<1> QED
  BY <1>2, <1>3 DEF LongestStored

\* Room for n bytes more.
LEMMA RoomMade ==
  ASSUME NEW s \in Seq(Nat), NEW n \in Nat
  PROVE  s \o [k \in 1..n |-> 0] \in Seq(Nat) /\ Len(s \o [k \in 1..n |-> 0]) = Len(s) + n
OBVIOUS

\* What a stored block that is cut off does to the bytes.
LEMMA StoredRefused ==
  ASSUME IInv, Stored, ~(at + 4 + Bits(3, StoredBits) <= WholeFields)
  PROVE  /\ pc' = "done" /\ answer' = "failed" /\ out' \in Seq(Nat)
         /\ Len(out') >= Len(out) /\ Len(out') <= Len(out) + LongestStored
<1>1. PICK n \in Nat : n = Bits(3, StoredBits) /\ n <= LongestStored /\ LongestStored \in Nat
  BY StoredLength DEF IInv
<1>2. /\ pc' = "done" /\ answer' = "failed"
      /\ out' = out \/ out' = out \o [k \in 1..n |-> 0]
  BY <1>1 DEF Stored
<1>3. out \in Seq(Nat) /\ Len(out) \in Nat
  BY DEF IInv, TypeOK
<1>4. PICK more : more = out \o [k \in 1..n |-> 0]
  OBVIOUS
<1>5. more \in Seq(Nat) /\ Len(more) = Len(out) + n
  BY <1>3, <1>4, RoomMade
<1>6. out' = out \/ out' = more
  BY <1>2, <1>4
<1> QED
  BY <1>1, <1>2, <1>3, <1>5, <1>6

LEMMA StoredKeeps == ASSUME IInv, Stored PROVE IInv'
<1> DEFINE n == Bits(3, StoredBits)
           whole == at + 4 + n <= WholeFields
<1>1. n \in Nat
  BY StoredLength DEF IInv
<1>2. Consume(4 + n) /\ final' \in BOOLEAN /\ UNCHANGED <<trees, lit, dist, length, distance>>
  BY DEF Stored, Begin
<1>3. Reader' /\ (whole => ~eof')
  <2> HIDE DEF n
  <2> QED
    BY <1>1, <1>2, ConsumeKeeps, 4 + n \in Nat DEF IInv, Reader
<1>4. answer = "none"
  BY DEF Stored, Begin, IInv, Answer, TypeOK
<1>5. CASE whole
  <2>1. out' = out \o SubSeq(Fields, at + 5, at + 4 + n)
    BY <1>5 DEF Stored
  <2>2. SubSeq(Fields, at + 5, at + 4 + n) \in Seq(Nat)
    <3> HIDE DEF n
    <3> QED
      BY <1>1, <1>5, FieldsType DEF IInv, Reader
  <2>3. out' \in Seq(Nat) /\ Len(out') >= Len(Earlier)
    BY <2>1, <2>2, TypesAssumption, SMTT(40) DEF IInv, TypeOK
  <2>4. \/ pc' = "done" /\ answer' = "accepted"
        \/ pc' = "header" /\ answer' = answer
    BY <1>5 DEF Stored, EndBlock
  <2>5. pc = "header"
    BY DEF Stored, Begin
  <2>6. TypeOK'
    <3> HIDE DEF n
    <3> QED
      BY <1>2, <1>3, <2>3, <2>4, <2>5 DEF IInv, TypeOK, Reader, trees
  <2>7. Answer'
    BY <1>3, <1>4, <1>5, <2>4 DEF Answer
  <2> QED
    BY <1>3, <2>6, <2>7 DEF IInv
<1>6. CASE ~whole
  <2>1. pc' = "done" /\ answer' = "failed" /\ out' \in Seq(Nat) /\ Len(out') >= Len(out)
    BY <1>6, StoredRefused
  <2>2. Len(out') >= Len(Earlier)
    <3>1. Len(out) \in Nat /\ Len(out') \in Nat /\ Len(Earlier) \in Nat /\ Len(out) >= Len(Earlier)
      BY <2>1, TypesAssumption DEF IInv, TypeOK
    <3> QED
      BY <2>1, <3>1
  <2>3. TypeOK'
    <3> HIDE DEF n
    <3> QED
      BY <1>2, <1>3, <2>1, <2>2 DEF IInv, TypeOK, Reader, trees
  <2> QED
    BY <1>3, <2>1, <2>3 DEF IInv, Answer
<1> QED
  BY <1>5, <1>6

LEMMA FixedTreesKeeps == ASSUME IInv, FixedTrees PROVE IInv'
<1>1. Reader'
  BY ConsumeKeeps, 2 \in Nat DEF IInv, FixedTrees
<1>2. TypeOK'
  BY <1>1, Sizes DEF IInv, TypeOK, Reader, FixedTrees, Begin, trees
<1>3. Answer'
  BY DEF IInv, TypeOK, Answer, FixedTrees, Begin
<1> QED
  BY <1>1, <1>2, <1>3 DEF IInv

LEMMA DynamicTreesKeeps == ASSUME IInv, DynamicTrees PROVE IInv'
<1> DEFINE hclen == Bits(5, 1) + 4
<1>1. hclen \in 4..5 /\ Bits(3, 2) \in Nat /\ Bits(4, 2) \in Nat
  <2>1. Bits(5, 1) \in 0..1
    BY BitsType, PowersAssumption DEF IInv
  <2> QED
    BY <2>1, BitsNat DEF IInv
<1>2. Consume(5 + hclen) /\ final' \in BOOLEAN /\ pc = "header"
  BY DEF DynamicTrees, Begin
<1>3. Reader'
  <2> HIDE DEF hclen
  <2> QED
    BY <1>1, <1>2, ConsumeKeeps, 5 + hclen \in Nat DEF IInv
<1>4. /\ hlit' = Bits(3, 2) + Literals + 1 /\ hdist' = Bits(4, 2) + 1
      /\ lengths' = <<>>
      /\ UNCHANGED <<out, lit, dist, length, distance>>
  BY DEF DynamicTrees
<1>5. clCodes' \subseteq 0..4
  <2>1. clCodes' = {ClOrder[k] : k \in {k \in 1..hclen : Bits(5 + k, 1) # 0}}
    BY DEF DynamicTrees
  <2>2. \A k \in 1..hclen : ClOrder[k] \in 0..4
    <3> HIDE DEF hclen
    <3> QED
      BY <1>1 DEF ClOrder
  <2> QED
    BY <2>1, <2>2
<1>6. \/ pc' = "done" /\ answer' = "failed"
      \/ pc' = "lengths" /\ answer' = answer /\ hlit' <= MaxLit /\ hdist' <= Len(DistBase)
  <2>1. hlit' \in Nat /\ hdist' \in Nat
    BY <1>1, <1>4, Sizes, SMTT(40)
  <2> QED
    BY <2>1, Sizes DEF DynamicTrees
<1>7. TypeOK'
  <2>1. hlit' \in Nat /\ hdist' \in Nat /\ lengths' \in Seq({0, 1})
    BY <1>1, <1>4, Sizes, SMTT(40)
  <2> QED
    BY <1>2, <1>3, <1>4, <1>5, <1>6, <2>1 DEF IInv, TypeOK, Reader
<1>8. Answer'
  BY <1>2, <1>6 DEF IInv, TypeOK, Answer
<1> QED
  BY <1>3, <1>7, <1>8 DEF IInv

LEMMA ReadLengthKeeps == ASSUME IInv, ReadLength PROVE IInv'
<1>1. PICK sym \in Symbols(1) :
        LET usable == at + 1 <= WholeFields /\ sym \in clCodes
                        /\ ~(sym = RepeatLast /\ lengths = <<>>)
            count == RepeatBase[sym - 1] + Bits(2, RepeatBits[sym - 1])
        IN  \/ /\ usable /\ sym < RepeatLast
               /\ Consume(1)
               /\ lengths' = Append(lengths, sym)
               /\ UNCHANGED <<out, final, pc, hlit, hdist, clCodes, lit, dist, length, distance, answer>>
            \/ /\ usable /\ sym >= RepeatLast
               /\ Consume(2)
               /\ lengths' = lengths \o Repeated(sym, count)
               /\ UNCHANGED <<out, final, pc, hlit, hdist, clCodes, lit, dist, length, distance, answer>>
            \/ ~usable /\ Consume(1) /\ Fail
  BY DEF ReadLength
<1> DEFINE usable == at + 1 <= WholeFields /\ sym \in clCodes
                       /\ ~(sym = RepeatLast /\ lengths = <<>>)
           count == RepeatBase[sym - 1] + Bits(2, RepeatBits[sym - 1])
<1> HIDE DEF usable, count
<1>2. pc = "lengths" /\ answer = "none"
  BY DEF ReadLength, IInv, TypeOK, Answer
<1>3. CASE /\ Consume(1) /\ usable /\ sym < RepeatLast
           /\ lengths' = Append(lengths, sym)
           /\ UNCHANGED <<out, final, pc, hlit, hdist, clCodes, lit, dist, length, distance, answer>>
  <2>1. sym \in {0, 1}
    BY <1>3 DEF IInv, TypeOK, RepeatLast, usable
  <2>2. lengths' \in Seq({0, 1})
    BY <1>3, <2>1 DEF IInv, TypeOK
  <2>3. Reader'
    BY <1>3, ConsumeKeeps, 1 \in Nat DEF IInv
  <2> QED
    BY <1>2, <1>3, <2>2, <2>3 DEF IInv, TypeOK, Reader, Answer
<1>4. CASE /\ Consume(2) /\ usable /\ sym >= RepeatLast
           /\ lengths' = lengths \o Repeated(sym, count)
           /\ UNCHANGED <<out, final, pc, hlit, hdist, clCodes, lit, dist, length, distance, answer>>
  <2>1. sym \in 2..4
    BY <1>4 DEF IInv, TypeOK, RepeatLast, usable
  <2>2. count \in Nat
    <3>1. sym - 1 \in 1..3
      BY <2>1
    <3>2. RepeatBase[sym - 1] \in Nat /\ RepeatBits[sym - 1] \in 0..16
      BY <3>1, Tables
    <3>3. Bits(2, RepeatBits[sym - 1]) \in Nat
      BY <3>2, BitsNat DEF IInv
    <3> QED
      BY <3>2, <3>3 DEF count
  <2>3. sym = RepeatLast => lengths[Len(lengths)] \in {0, 1}
    <3>1. lengths \in Seq({0, 1})
      BY DEF IInv, TypeOK
    <3>2. sym = RepeatLast => lengths # <<>>
      BY <1>4 DEF usable
    <3>3. lengths # <<>> => Len(lengths) \in 1..Len(lengths)
      BY <3>1
    <3> QED
      BY <3>1, <3>2, <3>3
  <2>4. Repeated(sym, count) \in Seq({0, 1})
    BY <2>2, <2>3 DEF Repeated
  <2>5. lengths' \in Seq({0, 1})
    BY <1>4, <2>4 DEF IInv, TypeOK
  <2>6. Reader'
    BY <1>4, ConsumeKeeps, 2 \in Nat DEF IInv
  <2> QED
    BY <1>2, <1>4, <2>5, <2>6 DEF IInv, TypeOK, Reader, Answer
<1>5. CASE Consume(1) /\ Fail
  <2>1. Reader'
    BY <1>5, ConsumeKeeps, 1 \in Nat DEF IInv
  <2> QED
    BY <1>5, <2>1 DEF IInv, TypeOK, Reader, Answer, Fail, trees
<1> QED
  BY <1>1, <1>3, <1>4, <1>5 DEF usable, count

LEMMA SplitLengthsKeeps == ASSUME IInv, SplitLengths PROVE IInv'
<1>1. Reader' /\ pc = "lengths"
  BY DEF SplitLengths, IInv, Reader, WholeFields, Fields, ZlibHeader
<1>2. CASE ~ExactlyAll(Len(lengths)) /\ Fail
  BY <1>1, <1>2 DEF IInv, TypeOK, Reader, Answer, Fail, trees
<1>3. CASE /\ ExactlyAll(Len(lengths))
           /\ lit' = {s \in 0..(hlit - 1) : lengths[s + 1] # 0}
           /\ dist' = {s \in 0..(Len(lengths) - hlit - 1) : lengths[hlit + s + 1] # 0}
           /\ pc' = "symbols"
           /\ UNCHANGED <<out, final, trees, length, distance, answer>>
  <2>1. hlit \in Nat /\ hdist \in Nat /\ hlit <= MaxLit /\ hdist <= Len(DistBase)
    BY <1>1 DEF IInv, TypeOK
  <2>2. Len(lengths) - hlit = hdist
    BY <1>3, <2>1 DEF ExactlyAll
  <2>3. lit' \subseteq 0..(FixedLit - 1)
    BY <1>3, <2>1, Sizes
  <2>4. dist' \subseteq 0..(Len(DistBase) - 1)
    BY <1>3, <2>1, <2>2, Sizes
  <2> QED
    BY <1>1, <1>3, <2>3, <2>4 DEF IInv, TypeOK, Reader, Answer, trees
<1> QED
  BY <1>2, <1>3 DEF SplitLengths

LEMMA ReadSymbolKeeps == ASSUME IInv, ReadSymbol PROVE IInv'
<1>1. PICK sym \in Symbols(1) : LiteralOrEnd(sym) \/ BeginMatch(sym) \/ BadSymbol(sym)
  BY DEF ReadSymbol
<1>2. pc = "symbols" /\ answer = "none"
  BY DEF ReadSymbol, IInv, TypeOK, Answer
<1>3. Reader' /\ (at + 1 <= WholeFields => ~eof')
  BY ConsumeKeeps, 1 \in Nat DEF IInv, ReadSymbol
<1>4. CASE LiteralOrEnd(sym)
  <2>1. ~eof' /\ UNCHANGED <<final, trees, lit, dist, length, distance>>
    BY <1>3, <1>4 DEF LiteralOrEnd, Readable
  <2>2. CASE sym < EndOfBlock /\ out' = Append(out, sym) /\ UNCHANGED <<pc, answer>>
    <3>1. sym \in Nat
      BY <1>4 DEF LiteralOrEnd, Readable, IInv, TypeOK
    <3>2. out' \in Seq(Nat) /\ Len(out') >= Len(Earlier)
      BY <2>2, <3>1, TypesAssumption DEF IInv, TypeOK
    <3> QED
      BY <1>2, <1>3, <2>1, <2>2, <3>2 DEF IInv, TypeOK, Reader, Answer, trees
  <2>3. CASE sym = EndOfBlock /\ EndBlock(final) /\ UNCHANGED out
    <3>1. \/ pc' = "done" /\ answer' = "accepted"
          \/ pc' = "header" /\ answer' = answer
      BY <2>3 DEF EndBlock
    <3>2. Answer'
      BY <1>2, <2>1, <3>1 DEF Answer
    <3>3. TypeOK'
      BY <1>2, <1>3, <2>1, <2>3, <3>1 DEF IInv, TypeOK, Reader, trees
    <3> QED
      BY <1>3, <3>2, <3>3 DEF IInv
  <2> QED
    BY <1>4, <2>2, <2>3 DEF LiteralOrEnd
<1>5. CASE BeginMatch(sym)
  <2>1. length' \in 1..Len(LenBase)
    BY <1>5, Sizes DEF BeginMatch, EndOfBlock
  <2> QED
    BY <1>2, <1>3, <1>5, <2>1 DEF BeginMatch, IInv, TypeOK, Reader, Answer, trees
<1>6. CASE BadSymbol(sym)
  BY <1>2, <1>3, <1>6 DEF BadSymbol, Fail, IInv, TypeOK, Reader, Answer, trees
<1> QED
  BY <1>1, <1>4, <1>5, <1>6

LEMMA ReadMatchKeeps == ASSUME IInv, ReadMatch PROVE IInv'
<1> DEFINE a == IF LenExtra[length] > 0 THEN 1 ELSE 0
<1>1. a \in 0..1 /\ pc = "match" /\ answer = "none" /\ length \in 1..Len(LenBase)
  BY DEF ReadMatch, IInv, TypeOK, Answer
<1>2. PICK d \in Symbols(a + 1) :
       \/ /\ d \in dist /\ d < Len(DistBase)
          /\ LET b == IF DistExtra[d + 1] > 0 THEN 1 ELSE 0
                 back == DistBase[d + 1] + Bits(a + 2, DistExtra[d + 1])
             IN  /\ Consume(a + 1 + b)
                 /\ \/ /\ back <= Len(out)
                       /\ pc' = "copy" /\ distance' = back
                       /\ length' = LenBase[length] + Bits(1, LenExtra[length])
                       /\ UNCHANGED <<out, final, trees, lit, dist, answer>>
                    \/ back > Len(out) /\ Fail
       \/ ~(d \in dist /\ d < Len(DistBase)) /\ Consume(a + 1) /\ Fail
  BY DEF ReadMatch
<1> HIDE DEF a
<1>3. CASE Consume(a + 1) /\ Fail
  <2>1. Reader'
    BY <1>1, <1>3, ConsumeKeeps, a + 1 \in Nat DEF IInv
  <2> QED
    BY <1>3, <2>1 DEF IInv, TypeOK, Reader, Answer, Fail, trees
<1>4. CASE d \in dist /\ d < Len(DistBase)
  <2> DEFINE b == IF DistExtra[d + 1] > 0 THEN 1 ELSE 0
             back == DistBase[d + 1] + Bits(a + 2, DistExtra[d + 1])
  <2>1. /\ Consume(a + 1 + b)
        /\ \/ /\ back <= Len(out)
              /\ pc' = "copy" /\ distance' = back
              /\ length' = LenBase[length] + Bits(1, LenExtra[length])
              /\ UNCHANGED <<out, final, trees, lit, dist, answer>>
           \/ back > Len(out) /\ Fail
    BY <1>2, <1>4
  <2>2. b \in 0..1
    OBVIOUS
  <2>3. back \in Nat \ {0}
    <3>1. d + 1 \in 1..Len(DistBase)
      BY <1>4, Sizes DEF IInv, TypeOK
    <3>2. DistBase[d + 1] \in Nat \ {0} /\ DistExtra[d + 1] \in 0..16
      BY <3>1, Tables, Sizes
    <3>3. Bits(a + 2, DistExtra[d + 1]) \in Nat
      <4>1. a + 2 \in Nat \ {0}
        BY <1>1
      <4> QED
        BY <3>2, <4>1, BitsNat DEF IInv
    <3> QED
      BY <3>2, <3>3
  <2> HIDE DEF b, back
  <2>4. Reader'
    <3>1. a + 1 + b \in Nat
      BY <1>1, <2>2
    <3> QED
      BY <2>1, <3>1, ConsumeKeeps DEF IInv
  <2>5. CASE back > Len(out) /\ Fail
    BY <2>4, <2>5 DEF IInv, TypeOK, Reader, Answer, Fail, trees
  <2>6. CASE /\ back <= Len(out)
             /\ pc' = "copy" /\ distance' = back
             /\ length' = LenBase[length] + Bits(1, LenExtra[length])
             /\ UNCHANGED <<out, final, trees, lit, dist, answer>>
    <3>1. length' \in Nat
      <4>1. LenBase[length] \in Nat /\ LenExtra[length] \in 0..16
        BY <1>1, Tables, Sizes
      <4>2. Bits(1, LenExtra[length]) \in Nat
        BY <4>1, BitsNat DEF IInv
      <4> QED
        BY <2>6, <4>1, <4>2
    <3>2. distance' \in 1..Len(out')
      BY <2>3, <2>6 DEF IInv, TypeOK
    <3> QED
      BY <1>1, <2>4, <2>6, <3>1, <3>2, SMTT(40) DEF IInv, TypeOK, Reader, Answer, trees
  <2> QED
    BY <2>1, <2>5, <2>6
<1> QED
  BY <1>2, <1>3, <1>4

LEMMA CopyByteKeeps == ASSUME IInv, CopyByte PROVE IInv'
<1>1. Reader' /\ pc = "copy" /\ answer = "none"
  BY DEF CopyByte, IInv, TypeOK, Reader, Answer, WholeFields, Fields, ZlibHeader
<1>2. out \in Seq(Nat) /\ distance \in 1..Len(out)
  BY <1>1 DEF IInv, TypeOK
<1>3. Copied \in Nat
  BY <1>2 DEF Copied
<1>4. out' \in Seq(Nat) /\ Len(out') = Len(out) + 1
  BY <1>2, <1>3 DEF CopyByte
<1>5. Len(Earlier) \in Nat
  BY TypesAssumption
<1> QED
  BY <1>1, <1>2, <1>4, <1>5 DEF CopyByte, IInv, TypeOK, Reader, Answer, trees

LEMMA EndMatchKeeps == ASSUME IInv, EndMatch PROVE IInv'
<1>1. Reader'
  BY DEF EndMatch, IInv, Reader, WholeFields, Fields, ZlibHeader
<1> QED
  BY <1>1 DEF EndMatch, IInv, TypeOK, Reader, Answer, trees

LEMMA StutterKeeps == ASSUME IInv, UNCHANGED vars PROVE IInv'
<1>1. Reader'
  BY DEF vars, IInv, Reader, WholeFields, Fields, ZlibHeader
<1> QED
  BY <1>1 DEF vars, trees, IInv, TypeOK, Reader, Answer

-----------------------------------------------------------------------------

LEMMA StepIInv == IInv /\ [Next]_vars => IInv'
BY BadHeaderKeeps, StoredKeeps, FixedTreesKeeps, DynamicTreesKeeps, ReadLengthKeeps,
   SplitLengthsKeeps, ReadSymbolKeeps, ReadMatchKeeps, CopyByteKeeps, EndMatchKeeps,
   StutterKeeps DEF Next

\* The decoder's state is well typed for any strip, and its matches point into
\* what has been decompressed (DecodeDeflate).
THEOREM InflateTypeCorrect == Spec => []TypeOK
<1>1. IInv => TypeOK
  BY DEF IInv
<1> QED
  BY InitIInv, StepIInv, <1>1, PTL DEF Spec

\* No strip is accepted on bits that are not there.
THEOREM NothingAcceptedBeyond == Spec => []NothingBeyondTheEnd
<1>1. IInv => NothingBeyondTheEnd
  BY DEF IInv, Answer, NothingBeyondTheEnd
<1> QED
  BY InitIInv, StepIInv, <1>1, PTL DEF Spec

-----------------------------------------------------------------------------
(* What a strip gives is paid for by the fields it has: every byte of the  *)
(* output, and every byte that a match under way may still add, by a field *)
(* already read.                                                           *)

Pending ==
  IF pc = "match" THEN LongestMatch ELSE IF pc = "copy" THEN length ELSE 0

FieldsRead == IF at <= Len(Fields) THEN at ELSE Len(Fields)

\* `bytes` more than Earlier are covered by `fields`.
Covered(bytes, fields) == bytes <= Len(Earlier) + LongestMatch * fields

Paid == Covered(Len(out) + Pending, FieldsRead)

\* A field covers a byte, and a whole match.
LEMMA CoverGrows ==
  ASSUME NEW bytes \in Nat, NEW fields \in Nat, Covered(bytes, fields),
         NEW more \in Nat, NEW next \in Nat
  PROVE  /\ \A n \in Nat : more <= bytes + n /\ next >= fields + n => Covered(more, next)
         /\ more <= bytes + LongestMatch /\ next >= fields + 1 => Covered(more, next)
<1>1. PICK m \in Nat : m + 1 = LongestMatch
  <2>1. LongestMatch - 1 \in Nat /\ (LongestMatch - 1) + 1 = LongestMatch
    BY TypesAssumption
  <2> QED
    BY <2>1
<1>2. PICK e \in Nat : e = Len(Earlier)
  BY TypesAssumption
<1>3. bytes <= e + (m + 1) * fields
  BY <1>1, <1>2 DEF Covered
<1>4. ASSUME NEW n \in Nat, more <= bytes + n, next >= fields + n
      PROVE  more <= e + (m + 1) * next
  <2>1. PICK d \in Nat : next = fields + d
    <3>1. next - fields \in Nat /\ next = fields + (next - fields)
      BY <1>4
    <3> QED
      BY <3>1
  <2>2. (m + 1) * next = (m + 1) * fields + (m * d + d)
    BY <2>1
  <2>3. m * d \in Nat /\ n <= d
    BY <1>4, <2>1
  <2>4. PICK x \in Nat, y \in Nat, z \in Nat :
          x = (m + 1) * next /\ y = (m + 1) * fields /\ z = m * d
    BY <2>3
  <2>5. x = y + (z + d) /\ bytes <= e + y
    BY <1>3, <2>2, <2>4
  <2>6. more <= e + x
    BY <1>4, <2>3, <2>5
  <2> QED
    BY <2>4, <2>6
<1>5. ASSUME more <= bytes + (m + 1), next >= fields + 1
      PROVE  more <= e + (m + 1) * next
  <2>1. PICK d \in Nat : next = (fields + 1) + d
    <3>1. next - (fields + 1) \in Nat /\ next = (fields + 1) + (next - (fields + 1))
      BY <1>5
    <3> QED
      BY <3>1
  <2>2. (m + 1) * next = (m + 1) * fields + (m + 1) + (m + 1) * d
    BY <2>1
  <2>3. PICK x \in Nat, y \in Nat, z \in Nat :
          x = (m + 1) * next /\ y = (m + 1) * fields /\ z = (m + 1) * d
    OBVIOUS
  <2>4. x = y + (m + 1) + z /\ bytes <= e + y
    BY <1>3, <2>2, <2>3
  <2>5. more <= e + x
    BY <1>5, <2>4
  <2> QED
    BY <2>3, <2>5
<1> QED
  BY <1>1, <1>2, <1>4, <1>5 DEF Covered

\* The types of the quantities compared.
LEMMA PaidType ==
  ASSUME IInv
  PROVE  /\ Len(out) \in Nat /\ Pending \in Nat /\ Len(out) + Pending \in Nat
         /\ FieldsRead \in Nat /\ Len(Fields) \in Nat /\ FieldsRead <= Len(Fields)
<1>1. Len(out) \in Nat /\ Pending \in Nat
  BY TypesAssumption DEF IInv, TypeOK, Pending
<1>2. Len(Fields) \in Nat /\ at \in Nat
  BY FieldsType DEF IInv, Reader
<1> QED
  BY <1>1, <1>2 DEF FieldsRead

\* A step that reads on and adds nothing to what is written or promised.
LEMMA FreeStep ==
  ASSUME IInv, IInv', Paid, UNCHANGED strip, at' >= at,
         Len(out') + Pending' <= Len(out) + Pending
  PROVE  Paid'
<1>1. Len(Fields') = Len(Fields)
  BY DEF Fields, ZlibHeader
<1>2. at \in Nat /\ at' \in Nat /\ Len(Fields) \in Nat
  BY PaidType DEF IInv, Reader
<1>3. FieldsRead' >= FieldsRead + 0
  BY <1>1, <1>2 DEF FieldsRead
<1>4. Len(out') + Pending' \in Nat /\ FieldsRead' \in Nat
  <2>1. (Len(out) + Pending \in Nat)' /\ (FieldsRead \in Nat)'
    BY PaidType, PTL
  <2> QED
    BY <2>1
<1> DEFINE before == Len(out) + Pending
           after == Len(out') + Pending'
<1>5. Covered(before, FieldsRead) /\ before \in Nat /\ FieldsRead \in Nat
  BY PaidType DEF Paid
<1>6. after \in Nat /\ FieldsRead' \in Nat /\ after <= before + 0
  BY <1>4, <1>5
<1> HIDE DEF before, after
<1>7. Covered(after, FieldsRead')
  BY <1>3, <1>5, <1>6, CoverGrows, 0 \in Nat
<1> QED
  BY <1>7 DEF after, Paid, Covered

\* A literal and a match take a whole field, a stored block one for each byte.
LEMMA StoredPaid ==
  ASSUME IInv, IInv', Paid, Stored, answer' # "failed"
  PROVE  Paid'
<1> DEFINE n == Bits(3, StoredBits)
           whole == at + 4 + n <= WholeFields
<1>1. n \in Nat /\ at \in Nat /\ at' = at + (4 + n) /\ UNCHANGED strip
  BY StoredLength DEF IInv, Reader, Stored, Consume
<1>2. pc = "header" /\ pc' \in {"done", "header"}
  BY DEF Stored, Begin, EndBlock
<1>3. Pending = 0 /\ Pending' = 0
  BY <1>2 DEF Pending
<1>4. whole
  BY DEF Stored
<1>5. Paid'
  <2>1. out' = out \o SubSeq(Fields, at + 5, at + 4 + n)
    BY <1>4 DEF Stored
  <2>2. Len(Fields') = Len(Fields) /\ WholeFields <= Len(Fields) /\ WholeFields \in Int
        /\ Fields \in Seq(Nat)
    BY <1>1, FieldsType DEF IInv, Reader, Fields, ZlibHeader
  <2> HIDE DEF n
  <2>3. at + 4 + n <= Len(Fields)
    BY <1>1, <1>4, <2>2, PaidType
  <2>4. SubSeq(Fields, at + 5, at + 4 + n) \in Seq(Nat)
        /\ Len(SubSeq(Fields, at + 5, at + 4 + n)) = n
    BY <1>1, <2>2, <2>3, PaidType
  <2>5. Len(out') = Len(out) + n
    BY <2>1, <2>4 DEF IInv, TypeOK
  <2>6. FieldsRead = at /\ FieldsRead' = at + (4 + n)
    BY <1>1, <2>2, <2>3, PaidType DEF FieldsRead
  <2>7. Covered(Len(out), at) /\ Len(out) \in Nat
    BY <1>3, <2>6, PaidType DEF Paid
  <2>8. Len(out) + n \in Nat /\ at + (4 + n) \in Nat
    BY <1>1, <2>7
  <2>9. Covered(Len(out) + n, at + (4 + n))
    <3>1. Len(out) + n <= Len(out) + n /\ at + (4 + n) >= at + n
      BY <1>1, <2>7
    <3> QED
      BY <1>1, <2>7, <2>8, <3>1, CoverGrows
  <2>10. Len(out') + Pending' = Len(out) + n
    BY <1>3, <2>5, <2>8
  <2> QED
    BY <2>6, <2>9, <2>10 DEF Paid, Covered
<1> QED
  BY <1>5

\* Where a whole field is read.
LEMMA WholeRead ==
  ASSUME IInv, Consume(1), at + 1 <= WholeFields
  PROVE  /\ FieldsRead = at /\ FieldsRead' = at + 1 /\ at \in Nat
<1>1. Len(Fields') = Len(Fields) /\ WholeFields <= Len(Fields) /\ WholeFields \in Int
  BY FieldsType DEF IInv, Reader, Consume, Fields, ZlibHeader
<1>2. at \in Nat /\ at' = at + 1 /\ Len(Fields) \in Nat
  BY PaidType DEF IInv, Reader, Consume
<1> QED
  BY <1>1, <1>2 DEF FieldsRead

LEMMA ReadSymbolPaid == ASSUME IInv, IInv', Paid, ReadSymbol PROVE Paid'
<1>1. PICK sym \in Symbols(1) : LiteralOrEnd(sym) \/ BeginMatch(sym) \/ BadSymbol(sym)
  BY DEF ReadSymbol
<1>2. pc = "symbols" /\ Consume(1) /\ UNCHANGED strip /\ at' >= at
  BY DEF ReadSymbol, Consume, IInv, Reader
<1>3. Pending = 0 /\ Len(out) \in Nat /\ Covered(Len(out), FieldsRead)
  BY <1>2, PaidType DEF Paid, Pending
<1>4. CASE LiteralOrEnd(sym) /\ out' = Append(out, sym) /\ UNCHANGED pc
  <2>1. FieldsRead = at /\ FieldsRead' = at + 1 /\ at \in Nat
    BY <1>2, <1>4, WholeRead DEF LiteralOrEnd, Readable
  <2>2. Pending' = 0 /\ Len(out') = Len(out) + 1
    BY <1>2, <1>4 DEF Pending, IInv, TypeOK
  <2>3. Len(out) + 1 \in Nat /\ at + 1 \in Nat
    BY <1>3, <2>1
  <2>4. Covered(Len(out) + 1, at + 1)
    BY <1>3, <2>1, <2>3, CoverGrows, 1 \in Nat
  <2>5. Len(out') + Pending' = Len(out) + 1
    BY <2>2, <1>3
  <2> QED
    BY <2>1, <2>4, <2>5 DEF Paid, Covered
<1>5. CASE LiteralOrEnd(sym) /\ EndBlock(final) /\ UNCHANGED out
  <2>1. Pending' = 0
    BY <1>5 DEF EndBlock, Pending
  <2>2. Len(out') + Pending' <= Len(out) + Pending
    BY <1>3, <1>5, <2>1
  <2> QED
    BY <1>2, <2>2, FreeStep
<1>6. CASE BeginMatch(sym)
  <2>1. FieldsRead = at /\ FieldsRead' = at + 1 /\ at \in Nat
    BY <1>2, <1>6, WholeRead DEF BeginMatch, Readable
  <2>2. Pending' = LongestMatch /\ UNCHANGED out /\ LongestMatch \in Nat
    BY <1>6, TypesAssumption DEF BeginMatch, Pending
  <2>3. Len(out) + LongestMatch \in Nat /\ at + 1 \in Nat
    BY <1>3, <2>1, <2>2
  <2>4. Covered(Len(out) + LongestMatch, at + 1)
    <3>1. Len(out) + LongestMatch <= Len(out) + LongestMatch /\ at + 1 >= at + 1
      BY <2>3
    <3> QED
      BY <1>3, <2>1, <2>3, <3>1, CoverGrows
  <2> QED
    BY <2>1, <2>2, <2>4 DEF Paid, Covered
<1>7. CASE BadSymbol(sym)
  <2>1. Pending' = 0 /\ UNCHANGED out
    BY <1>7 DEF BadSymbol, Fail, Pending
  <2>2. Len(out') + Pending' <= Len(out) + Pending
    BY <1>3, <2>1
  <2> QED
    BY <1>2, <2>2, FreeStep
<1> QED
  BY <1>1, <1>4, <1>5, <1>6, <1>7 DEF LiteralOrEnd

\* The length copied is no more than was promised when the match began.
LEMMA ReadMatchPaid == ASSUME IInv, IInv', Paid, ReadMatch PROVE Paid'
<1>1. pc = "match" /\ length \in 1..Len(LenBase)
  BY DEF ReadMatch, IInv, TypeOK
<1>2. UNCHANGED <<strip, out>> /\ at' >= at
  <2>1. UNCHANGED <<strip, out>>
    BY DEF ReadMatch, Consume, Fail
  <2>2. at \in Nat
    BY DEF IInv, Reader
  <2>3. \E k \in 1..3 : at' = at + k
    BY DEF ReadMatch, Consume
  <2> QED
    BY <2>1, <2>2, <2>3
<1>3. Pending = LongestMatch /\ LongestMatch \in Nat
  BY <1>1, TypesAssumption DEF Pending
<1>4. Pending' \in Nat /\ Pending' <= LongestMatch
  <2>1. \/ pc' = "done"
        \/ pc' = "copy" /\ length' = LenBase[length] + Bits(1, LenExtra[length])
    BY DEF ReadMatch, Fail
  <2>2. CASE pc' = "done"
    BY <2>2, <1>3 DEF Pending
  <2>3. CASE pc' = "copy" /\ length' = LenBase[length] + Bits(1, LenExtra[length])
    <3>1. LenBase[length] \in Nat /\ LenExtra[length] \in 0..16
      BY <1>1, Tables
    <3>2. PICK p \in Nat \ {0} : p = 2^LenExtra[length]
      BY <3>1, PowersAssumption
    <3>3. LenBase[length] + p - 1 <= LongestMatch
      BY <1>1, <3>2, TablesAssumption
    <3>4. Bits(1, LenExtra[length]) \in 0..(p - 1)
      BY <3>1, <3>2, BitsType, 1 \in Nat \ {0} DEF IInv
    <3>5. length' \in Nat /\ length' <= LongestMatch
      BY <2>3, <3>1, <3>3, <3>4, <1>3
    <3> QED
      BY <2>3, <3>5 DEF Pending
  <2> QED
    BY <2>1, <2>2, <2>3
<1>5. Len(out') + Pending' <= Len(out) + Pending
  BY <1>2, <1>3, <1>4, PaidType
<1> QED
  BY <1>2, <1>5, FreeStep

\* The other steps read on or copy what was promised.
LEMMA StepPaid ==
  ASSUME IInv, IInv', Paid, [Next]_vars, Stored => answer' # "failed"
  PROVE  Paid'
<1>1. ASSUME UNCHANGED <<strip, out>>, at' >= at, Pending' = 0 PROVE Paid'
  <2>1. Len(out') + Pending' <= Len(out) + Pending
    BY <1>1, PaidType
  <2> QED
    BY <1>1, <2>1, FreeStep
<1>2. at \in Nat
  BY DEF IInv, Reader
<1>3. CASE BadHeader
  BY <1>1, <1>2, <1>3 DEF BadHeader, Consume, Fail, Pending
<1>4. CASE FixedTrees
  BY <1>1, <1>2, <1>4 DEF FixedTrees, Consume, Pending
<1>5. CASE DynamicTrees
  <2>1. Bits(5, 1) \in Nat
    BY BitsNat DEF IInv
  <2>2. UNCHANGED <<strip, out>> /\ at' = at + (5 + (Bits(5, 1) + 4))
    BY <1>5 DEF DynamicTrees, Consume
  <2>3. at' >= at
    BY <1>2, <2>1, <2>2
  <2>4. Pending' = 0
    BY <1>5 DEF DynamicTrees, Pending
  <2> QED
    BY <1>1, <2>2, <2>3, <2>4
<1>6. CASE ReadLength
  <2>1. UNCHANGED <<strip, out>> /\ pc' \in {"lengths", "done"} /\ \E k \in 1..2 : at' = at + k
    BY <1>6 DEF ReadLength, Consume, Fail
  <2> QED
    BY <1>1, <1>2, <2>1 DEF Pending
<1>7. CASE SplitLengths
  <2>1. UNCHANGED <<strip, out, at>> /\ pc' \in {"symbols", "done"}
    BY <1>7 DEF SplitLengths, Fail
  <2> QED
    BY <1>1, <1>2, <2>1 DEF Pending
<1>8. CASE CopyByte
  <2>1. UNCHANGED <<strip, at>> /\ pc = "copy" /\ pc' = "copy" /\ length' = length - 1
        /\ out' = Append(out, Copied)
    BY <1>8 DEF CopyByte
  <2>2. length \in Nat /\ Len(out') = Len(out) + 1
    BY <2>1 DEF IInv, TypeOK
  <2>3. Len(out') + Pending' <= Len(out) + Pending
    BY <2>1, <2>2, PaidType DEF Pending
  <2> QED
    BY <1>2, <2>1, <2>3, FreeStep
<1>9. CASE EndMatch
  <2>1. UNCHANGED <<strip, at, out>> /\ pc' = "symbols"
    BY <1>9 DEF EndMatch
  <2> QED
    BY <1>1, <1>2, <2>1 DEF Pending
<1>10. CASE UNCHANGED vars
  BY <1>10 DEF vars, Paid, Covered, Pending, FieldsRead, Fields, ZlibHeader
<1> QED
  BY <1>3, <1>4, <1>5, <1>6, <1>7, <1>8, <1>9, <1>10, StoredPaid, ReadSymbolPaid, ReadMatchPaid
  DEF Next

LEMMA InitPaid == Init => Paid
<1> SUFFICES ASSUME Init PROVE Paid
  OBVIOUS
<1>1. Len(out) = Len(Earlier) /\ Len(Earlier) \in Nat /\ Pending = 0
  BY TypesAssumption DEF Init, Pending
<1>2. FieldsRead \in Nat /\ LongestMatch \in Nat
  BY InitIInv, PaidType, TypesAssumption
<1>3. LongestMatch * FieldsRead \in Nat
  BY <1>2
<1> QED
  BY <1>1, <1>3 DEF Paid, Covered

\* While the strip is not refused its bytes are paid for.
PaidUnlessFailed == (answer # "failed" => Paid) /\ OutputBounded

\* Bytes that are paid for are within the bound.
LEMMA PaidBounded == ASSUME IInv, Paid PROVE OutputBounded
<1>1. Covered(Len(out) + Pending, FieldsRead)
  BY DEF Paid
<1>2. Covered(Len(out), Len(Fields))
  <2>1. Len(out) <= Len(out) + Pending + 0 /\ Len(Fields) >= FieldsRead + 0
    BY PaidType
  <2> QED
    BY <1>1, <2>1, PaidType, CoverGrows, 0 \in Nat
<1>3. PICK most \in Nat : most = LongestMatch * Len(Fields)
  BY PaidType, TypesAssumption
<1>4. Len(out) \in Nat /\ Len(Earlier) \in Nat /\ LongestStored \in Nat
  BY PaidType, TypesAssumption, StoredLength DEF IInv
<1>5. Len(out) <= Len(Earlier) + most
  BY <1>2, <1>3 DEF Covered
<1> QED
  BY <1>3, <1>4, <1>5 DEF OutputBounded

\* A stored block that is cut off makes room for no more than its announced length.
LEMMA StoredRefusedBounded ==
  ASSUME IInv, IInv', Paid, Stored, answer' = "failed"
  PROVE  OutputBounded'
<1>1. ~(at + 4 + Bits(3, StoredBits) <= WholeFields)
  <2>1. answer # "failed"
    BY DEF Stored, Begin, IInv, Answer
  <2> QED
    BY <2>1 DEF Stored, EndBlock
<1>2. Len(out') <= Len(out) + LongestStored
  BY <1>1, StoredRefused
<1>3. Covered(Len(out) + Pending, FieldsRead)
  BY DEF Paid
<1>4. Covered(Len(out), Len(Fields))
  <2>1. Len(out) <= Len(out) + Pending + 0 /\ Len(Fields) >= FieldsRead + 0
    BY PaidType
  <2> QED
    BY <1>3, <2>1, PaidType, CoverGrows, 0 \in Nat
<1>5. PICK most \in Nat : most = LongestMatch * Len(Fields)
  BY PaidType, TypesAssumption
<1>6. Fields' = Fields
  BY DEF Stored, Consume, Fields, ZlibHeader
<1>7. Len(out) \in Nat /\ Len(out') \in Nat /\ Len(Earlier) \in Nat /\ LongestStored \in Nat
  <2>1. out \in Seq(Nat) /\ out' \in Seq(Nat) /\ Earlier \in Seq(Nat)
    BY TypesAssumption DEF IInv, TypeOK
  <2>2. LongestStored \in Nat
    BY StoredLength DEF IInv
  <2> QED
    BY <2>1, <2>2
<1>8. Len(out) <= Len(Earlier) + most
  BY <1>4, <1>5 DEF Covered
<1>9. Len(out') <= Len(Earlier) + most + LongestStored
  BY <1>2, <1>7, <1>8
<1>10. OutputBounded' = (Len(out') <= Len(Earlier) + LongestMatch * Len(Fields') + LongestStored)
  BY DEF OutputBounded, LongestStored
<1> QED
  BY <1>5, <1>6, <1>9, <1>10

LEMMA StepPaidUnlessFailed ==
  ASSUME IInv, IInv', PaidUnlessFailed, [Next]_vars
  PROVE  PaidUnlessFailed'
<1>1. CASE UNCHANGED vars
  BY <1>1 DEF vars, PaidUnlessFailed, OutputBounded, Paid, Covered, Pending, FieldsRead,
              Fields, ZlibHeader
<1>2. CASE Next
  <2>1. answer # "failed"
    <3>1. pc # "done"
      BY <1>2 DEF Next, BadHeader, Stored, FixedTrees, DynamicTrees, Begin, ReadLength,
                  SplitLengths, ReadSymbol, ReadMatch, CopyByte, EndMatch
    <3> QED
      BY <3>1 DEF IInv, Answer
  <2>2. Paid
    BY <2>1 DEF PaidUnlessFailed
  <2>3. CASE Stored /\ answer' = "failed"
    BY <2>2, <2>3, StoredRefusedBounded DEF PaidUnlessFailed
  <2>4. CASE ~(Stored /\ answer' = "failed")
    <3>1. Paid'
      BY <2>2, <2>4, StepPaid
    <3>2. OutputBounded'
      BY <3>1, PaidBounded, PTL
    <3> QED
      BY <3>1, <3>2 DEF PaidUnlessFailed
  <2> QED
    BY <2>3, <2>4
<1> QED
  BY <1>1, <1>2

\* Decompression ends: a strip gives no more than the longest match for each of
\* its fields, though the bit reader never runs out of zeros; a refused one leaves
\* the room of at most one stored block besides (498).
THEOREM InflateOutputBounded == Spec => []OutputBounded
<1>1. PaidUnlessFailed => OutputBounded
  BY DEF PaidUnlessFailed
<1>2. Init => IInv /\ PaidUnlessFailed
  BY InitIInv, InitPaid, PaidBounded DEF PaidUnlessFailed
<1>3. IInv /\ PaidUnlessFailed /\ [Next]_vars => IInv' /\ PaidUnlessFailed'
  BY StepIInv, StepPaidUnlessFailed
<1> QED
  BY <1>1, <1>2, <1>3, PTL DEF Spec

-----------------------------------------------------------------------------
(* What items mean: the definitions of DeflateStrips compute meanings and  *)
(* ends, and the items of a strip that is done follow each other.          *)

Meanings ==
  [mode : {"header", "lengths", "symbols", "done", "wrong"}, final : BOOLEAN,
   hlit : Nat, hdist : Nat, clCodes : SUBSET (0..4), lengths : Seq(Nat),
   lit : SUBSET Nat, dist : SUBSET Nat, bytes : Seq(Nat)]

\* A match that may be there: its symbols, how many bytes it has, and how far back.
MatchFits(f, bytes, L, D) ==
  /\ LengthSymbol(f) \in 1..Len(LenBase) /\ DistanceSymbol(f) \in 0..(Len(DistBase) - 1)
  /\ MatchLength(f) = L /\ MatchDistance(f) = D
  /\ L \in Nat /\ D \in Nat \ {0} /\ D <= Len(bytes)
  /\ DistanceAt(f) \in 2..3 /\ Len(f) \in DistanceAt(f)..(DistanceAt(f) + 1)

\* A match that may follow is one.
LEMMA MatchThatFits ==
  ASSUME NEW m \in Meanings, NEW i \in Items, Fits(m, i), i.kind = "match"
  PROVE  \E L \in Nat, D \in Nat \ {0} : MatchFits(i.fields, m.bytes, L, D)
<1>1. PICK f \in Seq(Nat) : f = i.fields
  BY DEF Items
<1>2. /\ m.mode = "symbols" /\ Len(f) >= 2 /\ f[1] \in m.lit
      /\ LengthWritten(f) /\ DistanceWritten(f)
      /\ DistanceSymbol(f) \in m.dist /\ MatchDistance(f) <= Len(m.bytes)
  BY <1>1 DEF Fits
<1>3. PICK s \in 1..Len(LenBase) : s = LengthSymbol(f)
  BY <1>2 DEF LengthWritten
<1>4. LenBase[s] \in Nat /\ LenExtra[s] \in 0..16
  BY <1>3, Tables
<1>5. DistanceAt(f) \in 2..3
  BY <1>3, <1>4 DEF DistanceAt, FieldFor
<1>6. Len(f) \in Nat /\ \A k \in 1..Len(f) : f[k] \in Nat
  OBVIOUS
<1>7. DistanceSymbol(f) \in Nat
  BY <1>2, <1>5, <1>6 DEF DistanceSymbol, DistanceWritten
<1>8. PICK d \in 0..(Len(DistBase) - 1) : d = DistanceSymbol(f)
  BY <1>2, <1>7, Sizes DEF DistanceWritten
<1>9. d + 1 \in 1..Len(DistBase)
  BY <1>8, Sizes
<1>10. DistBase[d + 1] \in Nat \ {0} /\ DistExtra[d + 1] \in 0..16
  BY <1>9, Tables
<1>11. Len(f) \in DistanceAt(f)..(DistanceAt(f) + 1)
  <2>1. Len(f) = DistanceAt(f) + FieldFor(DistExtra[d + 1])
    BY <1>2, <1>8 DEF DistanceWritten
  <2>2. FieldFor(DistExtra[d + 1]) \in 0..1
    BY DEF FieldFor
  <2> QED BY <1>5, <2>1, <2>2
<1>12. MatchLength(f) \in Nat
  <2>1. f[2] \in Nat
    BY <1>2, <1>6
  <2> QED BY <2>1, <1>3, <1>4 DEF MatchLength
<1>13. MatchDistance(f) \in Nat \ {0}
  <2>1. f[Len(f)] \in Nat
    BY <1>2, <1>6
  <2>2. PICK x \in Nat, y \in 0..16, z \in Nat \ {0} :
          x = f[Len(f)] /\ y = DistExtra[d + 1] /\ z = DistBase[d + 1]
    BY <1>10, <2>1
  <2>3. MatchDistance(f) = z + (IF y > 0 THEN x ELSE 0)
    BY <1>8, <2>2 DEF MatchDistance
  <2> QED BY <2>3
<1> QED
  BY <1>1, <1>2, <1>3, <1>5, <1>8, <1>11, <1>12, <1>13 DEF MatchFits

\* A repetition is as many bytes as it should be.
LEMMA RepetitionType ==
  ASSUME NEW b \in Seq(Nat), NEW D \in Nat \ {0}, NEW n \in Nat, D <= Len(b)
  PROVE  Repetition(b, D, n) \in Seq(Nat) /\ Len(Repetition(b, D, n)) = n
<1>1. ASSUME NEW k \in 1..n PROVE b[Len(b) - D + 1 + ((k - 1) % D)] \in Nat
  <2>1. (k - 1) % D \in Nat /\ (k - 1) % D < D
    <3>1. k - 1 \in Nat
      OBVIOUS
    <3> QED BY <3>1, DivMod
  <2>2. PICK r \in 0..(D - 1) : r = (k - 1) % D
    BY <2>1
  <2>3. Len(b) - D + 1 + r \in 1..Len(b)
    OBVIOUS
  <2> QED BY <2>2, <2>3
<1> QED BY <1>1 DEF Repetition

\* A concatenation has numbers like its parts.
LEMMA ConcatType ==
  ASSUME NEW s \in Seq(Nat), NEW t \in Seq(Nat)
  PROVE  s \o t \in Seq(Nat)
OBVIOUS

\* More code lengths give a meaning again.
LEMMA WithLengthsType ==
  ASSUME NEW m \in Meanings, NEW new \in Seq(Nat)
  PROVE  WithLengths(m, new) \in Meanings
<1>1. PICK all \in Seq(Nat) : all = m.lengths \o new
  <2>1. m.lengths \in Seq(Nat)
    BY DEF Meanings
  <2>2. m.lengths \o new \in Seq(Nat)
    BY <2>1, ConcatType
  <2> QED BY <2>2
<1>2. m.hlit \in Nat /\ m.hdist \in Nat
  BY DEF Meanings
<1>3. PICK L, D : /\ L = {s \in 0..(m.hlit - 1) : all[s + 1] # 0}
                  /\ D = {s \in 0..(m.hdist - 1) : all[m.hlit + s + 1] # 0}
                  /\ L \in SUBSET Nat /\ D \in SUBSET Nat
  <2>1. {s \in 0..(m.hlit - 1) : all[s + 1] # 0} \in SUBSET Nat
    OBVIOUS
  <2>2. {s \in 0..(m.hdist - 1) : all[m.hlit + s + 1] # 0} \in SUBSET Nat
    OBVIOUS
  <2> QED BY <2>1, <2>2
<1>4. [m EXCEPT !.lengths = all] \in Meanings
  BY DEF Meanings
<1>5. [m EXCEPT !.mode = "symbols", !.lengths = all, !.lit = L, !.dist = D] \in Meanings
  BY <1>3 DEF Meanings
<1> QED BY <1>1, <1>3, <1>4, <1>5 DEF WithLengths

\* So it is after any item.
LEMMA AfterType ==
  ASSUME NEW m \in Meanings, NEW i \in Items
  PROVE  After(m, i) \in Meanings
<1>1. PICK f \in Seq(Nat) : f = i.fields
  BY DEF Items
<1>2. /\ m.final \in BOOLEAN /\ m.bytes \in Seq(Nat) /\ m.lengths \in Seq(Nat)
      /\ AfterBlock(f[1] = 1) \in {"header", "done"} /\ AfterBlock(m.final) \in {"header", "done"}
  BY DEF Meanings, AfterBlock
<1>3. Len(f) \in Nat /\ \A k \in 1..Len(f) : f[k] \in Nat
  OBVIOUS
<1>4. CASE ~Fits(m, i)
  <2>1. [m EXCEPT !.mode = "wrong"] \in Meanings
    BY DEF Meanings
  <2> QED BY <1>4, <2>1 DEF After
<1>5. CASE Fits(m, i) /\ i.kind = "stored"
  <2>1. PICK b \in Seq(Nat) : b = m.bytes \o SubSeq(f, 5, Len(f))
    <3>1. SubSeq(f, 5, Len(f)) \in Seq(Nat)
      BY <1>3
    <3>2. m.bytes \o SubSeq(f, 5, Len(f)) \in Seq(Nat)
      BY <1>2, <3>1, ConcatType
    <3> QED BY <3>2
  <2>2. [m EXCEPT !.mode = AfterBlock(f[1] = 1), !.final = (f[1] = 1), !.bytes = b] \in Meanings
    BY <1>2 DEF Meanings
  <2> QED BY <1>1, <1>5, <2>1, <2>2 DEF After
<1>6. CASE Fits(m, i) /\ i.kind = "fixed"
  <2>1. 0..(FixedLit - 1) \in SUBSET Nat /\ 0..(Len(DistBase) - 1) \in SUBSET Nat
    OBVIOUS
  <2>2. [m EXCEPT !.mode = "symbols", !.final = (f[1] = 1),
                  !.lit = 0..(FixedLit - 1), !.dist = 0..(Len(DistBase) - 1)] \in Meanings
    BY <2>1 DEF Meanings
  <2> QED BY <1>1, <1>6, <2>2 DEF After
<1>7. CASE Fits(m, i) /\ i.kind = "dynamic"
  <2>1. Len(f) \in 9..10
    BY <1>1, <1>7 DEF Fits
  <2>2. f[3] + Literals + 1 \in Nat /\ f[4] + 1 \in Nat
    <3>1. f[3] \in Nat /\ f[4] \in Nat
      <4>1. PICK n \in 9..10 : n = Len(f)
        BY <2>1
      <4>2. 3 \in 1..n /\ 4 \in 1..n
        OBVIOUS
      <4> QED BY <4>1, <4>2, <1>3
    <3>2. PICK x \in Nat, y \in Nat : x = f[3] /\ y = f[4]
      BY <3>1
    <3>3. x + Literals + 1 \in Nat /\ y + 1 \in Nat
      BY Sizes
    <3> QED BY <3>2, <3>3
  <2>3. PICK C \in SUBSET (0..4) : C = {ClOrder[k] : k \in {k \in 1..(Len(f) - 5) : f[5 + k] = 1}}
    <3>1. \A k \in 1..5 : ClOrder[k] \in 0..4
      BY DEF ClOrder
    <3>2. {k \in 1..(Len(f) - 5) : f[5 + k] = 1} \in SUBSET (1..5)
      <4>1. PICK n \in 4..5 : n = Len(f) - 5
        BY <2>1
      <4>2. \A k \in 1..n : k \in 1..5
        OBVIOUS
      <4> QED BY <4>1, <4>2
    <3>3. \A k \in {k \in 1..(Len(f) - 5) : f[5 + k] = 1} : ClOrder[k] \in 0..4
      BY <3>1, <3>2
    <3>4. PICK C : C = {ClOrder[k] : k \in {k \in 1..(Len(f) - 5) : f[5 + k] = 1}}
      OBVIOUS
    <3>5. C \in SUBSET (0..4)
      BY <3>3, <3>4
    <3> QED BY <3>4, <3>5
  <2>4. [m EXCEPT !.mode = "lengths", !.final = (f[1] = 1), !.lengths = <<>>,
                  !.hlit = f[3] + Literals + 1, !.hdist = f[4] + 1, !.clCodes = C] \in Meanings
    <3>1. <<>> \in Seq(Nat)
      OBVIOUS
    <3> QED BY <2>2, <3>1 DEF Meanings
  <2> QED BY <1>1, <1>7, <2>3, <2>4 DEF After
<1>8. CASE Fits(m, i) /\ i.kind = "length"
  <2>1. After(m, i) = WithLengths(m, f)
    BY <1>1, <1>8 DEF After
  <2> QED BY <2>1, WithLengthsType
<1>9. CASE Fits(m, i) /\ i.kind = "repeat"
  <2>1. Len(f) = 2 /\ f[1] \in m.clCodes \ {0, 1} /\ (f[1] = RepeatLast => m.lengths # <<>>)
    BY <1>1, <1>9 DEF Fits
  <2>2. PICK v \in Nat : v = IF f[1] = RepeatLast THEN m.lengths[Len(m.lengths)] ELSE 0
    BY <1>2, <2>1
  <2>3. RepeatCount(f) \in Nat
    <3>1. f[1] - 1 \in 1..3 /\ f[2] \in Nat
      <4>1. m.clCodes \in SUBSET (0..4)
        BY DEF Meanings
      <4> QED BY <2>1, <4>1, <1>3
    <3>2. RepeatBase[f[1] - 1] \in Nat
      BY <3>1, Tables
    <3> QED BY <3>1, <3>2 DEF RepeatCount
  <2>4. [k \in 1..RepeatCount(f) |-> v] \in Seq(Nat)
    BY <2>3
  <2>5. After(m, i) = WithLengths(m, [k \in 1..RepeatCount(f) |-> v])
    BY <1>1, <1>9, <2>2 DEF After
  <2> QED BY <2>4, <2>5, WithLengthsType
<1>10. CASE Fits(m, i) /\ i.kind = "literal"
  <2>1. PICK b \in Seq(Nat) : b = m.bytes \o f
    <3>1. m.bytes \o f \in Seq(Nat)
      BY <1>2, ConcatType
    <3> QED BY <3>1
  <2>2. [m EXCEPT !.bytes = b] \in Meanings
    BY DEF Meanings
  <2> QED BY <1>1, <1>10, <2>1, <2>2 DEF After
<1>11. CASE Fits(m, i) /\ i.kind = "match"
  <2>1. PICK L \in Nat, D \in Nat \ {0} : MatchFits(f, m.bytes, L, D)
    BY <1>1, <1>11, MatchThatFits
  <2>2. PICK b \in Seq(Nat) : b = m.bytes \o Repetition(m.bytes, MatchDistance(f), MatchLength(f))
    <3>1. MatchLength(f) = L /\ MatchDistance(f) = D /\ D <= Len(m.bytes)
      BY <2>1 DEF MatchFits
    <3>2. Repetition(m.bytes, D, L) \in Seq(Nat)
      BY <1>2, <3>1, RepetitionType
    <3>3. m.bytes \o Repetition(m.bytes, D, L) \in Seq(Nat)
      BY <1>2, <3>2, ConcatType
    <3> QED BY <3>1, <3>3
  <2>3. [m EXCEPT !.bytes = b] \in Meanings
    BY DEF Meanings
  <2> QED BY <1>1, <1>11, <2>2, <2>3 DEF After
<1>12. CASE Fits(m, i) /\ i.kind = "end"
  <2>1. [m EXCEPT !.mode = AfterBlock(m.final)] \in Meanings
    BY <1>2 DEF Meanings
  <2> QED BY <1>12, <2>1 DEF After
<1> QED
  <2>1. i.kind \in Kinds
    BY DEF Items
  <2> QED BY <2>1, <1>4, <1>5, <1>6, <1>7, <1>8, <1>9, <1>10, <1>11, <1>12 DEF Kinds

\* Nothing means something.
LEMMA NothingType == Nothing \in Meanings
<1>1. <<>> \in Seq(Nat)
  OBVIOUS
<1> QED BY <1>1 DEF Nothing, Meanings

\* What the recursive definitions of DeflateStrips compute.
MeaningOf(items, M) ==
  /\ M \in [0..Len(items) -> Meanings] /\ M[0] = Nothing
  /\ \A k \in 1..Len(items) : M[k] = After(M[k - 1], items[k])

EndsOf(items, E) ==
  /\ E \in [0..Len(items) -> Nat] /\ E[0] = 0
  /\ \A k \in 1..Len(items) : E[k] = E[k - 1] + Len(items[k].fields)

\* Meaning computes the meanings, from the recursion of ArithmeticLemmas.
LEMMA MeaningIs ==
  ASSUME NEW items \in Seq(Items)
  PROVE  MeaningOf(items, Meaning(items))
<1>1. PICK n \in Nat : n = Len(items)
  OBVIOUS
<1>2. Nothing \in Meanings
  BY NothingType
<1>3. PICK g : g = [x \in (1..n) \X Meanings |-> After(x[2], items[x[1]])]
  OBVIOUS
<1>4. g \in [(1..n) \X Meanings -> Meanings]
  <2>1. ASSUME NEW k \in 1..n, NEW r \in Meanings PROVE After(r, items[k]) \in Meanings
    <3>1. items[k] \in Items
      BY <1>1, ElementOf
    <3> QED BY <3>1, AfterType
  <2>2. ASSUME NEW x \in (1..n) \X Meanings PROVE After(x[2], items[x[1]]) \in Meanings
    <3>1. x[1] \in 1..n /\ x[2] \in Meanings
      OBVIOUS
    <3> QED BY <2>1, <3>1
  <2> QED BY <1>3, <2>2
<1>5. ASSUME NEW k \in 1..n, NEW r \in Meanings PROVE g[<<k, r>>] = After(r, items[k])
  BY <1>3
<1>6. PICK h \in [0..n -> Meanings] : h[0] = Nothing /\ \A k \in 1..n : h[k] = g[<<k, h[k - 1]>>]
  <2>1. Recursion(n, Meanings, Nothing, g) # {}
    BY <1>2, <1>4, RecursionExists
  <2> QED BY <2>1 DEF Recursion
<1>7. h = [k \in 0..Len(items) |-> IF k = 0 THEN Nothing ELSE After(h[k - 1], items[k])]
  <2>1. ASSUME NEW k \in 1..n PROVE h[k] = After(h[k - 1], items[k])
    <3>1. k - 1 \in 0..n
      OBVIOUS
    <3>2. h[k - 1] \in Meanings
      BY <1>6, <3>1, Zenon
    <3> QED BY <1>5, <1>6, <3>2
  <2>2. \A k \in 0..n : k = 0 \/ k \in 1..n
    OBVIOUS
  <2>3. \A k \in 0..n : h[k] = IF k = 0 THEN Nothing ELSE After(h[k - 1], items[k])
    BY <1>6, <2>1, <2>2
  <2> QED BY <1>1, <1>6, <2>3
<1>8. PICK v : /\ v = [k \in 0..Len(items) |-> IF k = 0 THEN Nothing ELSE After(v[k - 1], items[k])]
               /\ Meaning(items) = v
  BY <1>7 DEF Meaning
<1>9. v = [k \in 0..n |-> IF k = 0 THEN Nothing ELSE After(v[k - 1], items[k])]
  BY <1>1, <1>8
<1>10. v[0] = Nothing /\ \A k \in 1..n : v[k] = After(v[k - 1], items[k])
  <2>1. \A k \in 0..n : v[k] = IF k = 0 THEN Nothing ELSE After(v[k - 1], items[k])
    BY <1>9
  <2>2. 0 \in 0..n /\ \A k \in 1..n : k \in 0..n /\ k # 0
    OBVIOUS
  <2> QED BY <2>1, <2>2
<1>11. v \in [0..n -> Meanings]
  <2>1. v = [k \in 0..n |-> v[k]]
    BY <1>9
  <2>2. \A k \in 1..n : v[k - 1] \in Meanings => v[k] = g[<<k, v[k - 1]>>]
    BY <1>5, <1>10
  <2>3. v \in Recursion(n, Meanings, Nothing, g)
    BY <1>2, <1>4, <1>10, <2>1, <2>2, RecursionIs
  <2> QED BY <2>3 DEF Recursion
<1> QED BY <1>1, <1>8, <1>10, <1>11 DEF MeaningOf

\* ItemEnds computes the ends, in the same way.
LEMMA EndsAre ==
  ASSUME NEW items \in Seq(Items)
  PROVE  EndsOf(items, ItemEnds(items))
<1>1. PICK n \in Nat : n = Len(items)
  OBVIOUS
<1>2. 0 \in Nat
  OBVIOUS
<1>3. PICK g : g = [x \in (1..n) \X Nat |-> x[2] + Len(items[x[1]].fields)]
  OBVIOUS
<1>4. g \in [(1..n) \X Nat -> Nat]
  <2>1. ASSUME NEW k \in 1..n, NEW r \in Nat PROVE r + Len(items[k].fields) \in Nat
    <3>1. items[k] \in Items
      BY <1>1, ElementOf
    <3> QED BY <3>1 DEF Items
  <2>2. ASSUME NEW x \in (1..n) \X Nat PROVE x[2] + Len(items[x[1]].fields) \in Nat
    <3>1. x[1] \in 1..n /\ x[2] \in Nat
      OBVIOUS
    <3> QED BY <2>1, <3>1
  <2> QED BY <1>3, <2>2
<1>5. ASSUME NEW k \in 1..n, NEW r \in Nat PROVE g[<<k, r>>] = r + Len(items[k].fields)
  BY <1>3
<1>6. PICK h \in [0..n -> Nat] : h[0] = 0 /\ \A k \in 1..n : h[k] = g[<<k, h[k - 1]>>]
  <2>1. Recursion(n, Nat, 0, g) # {}
    BY <1>2, <1>4, RecursionExists
  <2> QED BY <2>1 DEF Recursion
<1>7. h = [k \in 0..Len(items) |-> IF k = 0 THEN 0 ELSE h[k - 1] + Len(items[k].fields)]
  <2>1. ASSUME NEW k \in 1..n PROVE h[k] = h[k - 1] + Len(items[k].fields)
    <3>1. k - 1 \in 0..n
      OBVIOUS
    <3>2. h[k - 1] \in Nat
      BY <1>6, <3>1, Zenon
    <3> QED BY <1>5, <1>6, <3>2
  <2>2. \A k \in 0..n : k = 0 \/ k \in 1..n
    OBVIOUS
  <2>3. \A k \in 0..n : h[k] = IF k = 0 THEN 0 ELSE h[k - 1] + Len(items[k].fields)
    BY <1>6, <2>1, <2>2
  <2> QED BY <1>1, <1>6, <2>3
<1>8. PICK v : /\ v = [k \in 0..Len(items) |-> IF k = 0 THEN 0 ELSE v[k - 1] + Len(items[k].fields)]
               /\ ItemEnds(items) = v
  BY <1>7 DEF ItemEnds
<1>9. v = [k \in 0..n |-> IF k = 0 THEN 0 ELSE v[k - 1] + Len(items[k].fields)]
  BY <1>1, <1>8
<1>10. v[0] = 0 /\ \A k \in 1..n : v[k] = v[k - 1] + Len(items[k].fields)
  <2>1. \A k \in 0..n : v[k] = IF k = 0 THEN 0 ELSE v[k - 1] + Len(items[k].fields)
    BY <1>9
  <2>2. 0 \in 0..n /\ \A k \in 1..n : k \in 0..n /\ k # 0
    OBVIOUS
  <2> QED BY <2>1, <2>2
<1>11. v \in [0..n -> Nat]
  <2>1. v = [k \in 0..n |-> v[k]]
    BY <1>9
  <2>2. \A k \in 1..n : v[k - 1] \in Nat => v[k] = g[<<k, v[k - 1]>>]
    BY <1>5, <1>10
  <2>3. v \in Recursion(n, Nat, 0, g)
    BY <1>2, <1>4, <1>10, <2>1, <2>2, RecursionIs
  <2> QED BY <2>3 DEF Recursion
<1> QED BY <1>1, <1>8, <1>10, <1>11 DEF EndsOf

\* Where items end.
LEMMA EndsGrow ==
  ASSUME NEW items \in Seq(Items), NEW E, EndsOf(items, E), NEW j \in 0..Len(items)
  PROVE  E[j] \in Nat /\ E[j] <= E[Len(items)]
<1>1. PICK n \in Nat : n = Len(items)
  OBVIOUS
<1>2. PICK K : K = {k \in 0..(n - j) : E[j] <= E[j + k]}
  OBVIOUS
<1>3. \A k \in 0..n : E[k] \in Nat
  BY <1>1 DEF EndsOf
<1>4. 0 \in K /\ K \in SUBSET (0..(n - j)) /\ n - j \in Nat
  <2>1. E[j + 0] = E[j] /\ E[j] \in Nat /\ 0 \in 0..(n - j) /\ n - j \in Nat
    BY <1>1, <1>3
  <2> QED BY <1>2, <2>1
<1>5. ASSUME NEW k \in 0..(n - j - 1), k \in K PROVE k + 1 \in K
  <2>1. PICK x : x = j + k
    OBVIOUS
  <2>2. x \in 0..n /\ x + 1 \in 1..n /\ (x + 1) - 1 = x /\ k + 1 \in 0..(n - j) /\ j + (k + 1) = x + 1
    BY <1>1, <2>1
  <2>3. items[x + 1] \in Items
    BY <2>2, <1>1, ElementOf
  <2>4. Len(items[x + 1].fields) \in Nat
    BY <2>3 DEF Items
  <2>5. E[x + 1] = E[x] + Len(items[x + 1].fields)
    BY <1>1, <2>2 DEF EndsOf
  <2>6. E[j] <= E[x]
    BY <1>2, <1>5, <2>1
  <2>7. E[j] <= E[x + 1]
    BY <1>3, <1>1, <2>2, <2>4, <2>5, <2>6
  <2> QED BY <1>2, <2>2, <2>7
<1>6. K = 0..(n - j)
  BY <1>4, <1>5, Induction
<1>7. n - j \in K /\ j + (n - j) = n
  BY <1>1, <1>4, <1>6
<1> QED BY <1>1, <1>2, <1>3, <1>7

\* Only at the beginning of a block, among its lengths or among its symbols may
\* an item follow.
LEMMA FitsWhere ==
  ASSUME NEW m, NEW i \in Items, Fits(m, i)
  PROVE  m.mode \in {"header", "lengths", "symbols"}
<1>1. i.kind \in Kinds
  BY DEF Items
<1> QED BY <1>1 DEF Fits, Kinds

\* When items end a strip, each of them may follow those before it.
LEMMA AllFit ==
  ASSUME NEW items \in Seq(Items), NEW M, MeaningOf(items, M), M[Len(items)].mode = "done",
         NEW j \in 1..Len(items)
  PROVE  Fits(M[j - 1], items[j])
<1> SUFFICES ASSUME ~Fits(M[j - 1], items[j]) PROVE FALSE
  OBVIOUS
<1>1. PICK n \in Nat : n = Len(items)
  OBVIOUS
<1>2. \A k \in 0..n : M[k] \in Meanings
  BY <1>1 DEF MeaningOf
<1>3. ASSUME NEW x \in 1..n, ~Fits(M[x - 1], items[x]) PROVE M[x].mode = "wrong"
  <2>1. M[x] = After(M[x - 1], items[x])
    BY <1>1 DEF MeaningOf
  <2>2. M[x] = [M[x - 1] EXCEPT !.mode = "wrong"]
    BY <1>3, <2>1 DEF After
  <2>3. M[x - 1] \in Meanings
    BY <1>2
  <2> QED BY <2>2, <2>3 DEF Meanings
<1>4. PICK K : K = {k \in 0..(n - j) : M[j + k].mode = "wrong"}
  OBVIOUS
<1>5. 0 \in K /\ K \in SUBSET (0..(n - j)) /\ n - j \in Nat
  <2>1. j + 0 = j /\ 0 \in 0..(n - j) /\ n - j \in Nat /\ j \in 1..n
    BY <1>1
  <2> QED BY <1>3, <1>4, <2>1
<1>6. ASSUME NEW k \in 0..(n - j - 1), k \in K PROVE k + 1 \in K
  <2>1. PICK x : x = j + k
    OBVIOUS
  <2>2. x + 1 \in 1..n /\ (x + 1) - 1 = x /\ k + 1 \in 0..(n - j) /\ j + (k + 1) = x + 1
    BY <1>1, <2>1
  <2>3. M[x].mode = "wrong"
    BY <1>4, <1>6, <2>1
  <2>4. items[x + 1] \in Items
    BY <2>2, <1>1, ElementOf
  <2>5. ~Fits(M[x], items[x + 1])
    BY <2>3, <2>4, FitsWhere
  <2>6. M[x + 1].mode = "wrong"
    BY <1>3, <2>2, <2>5
  <2> QED BY <1>4, <2>2, <2>6
<1>7. K = 0..(n - j)
  BY <1>5, <1>6, Induction
<1>8. n - j \in K /\ j + (n - j) = n
  BY <1>1, <1>5, <1>7
<1> QED BY <1>1, <1>4, <1>8

-----------------------------------------------------------------------------
(* The decoder follows the items of a deflated strip.                      *)

\* The code lengths of m are those of the codes that follow them.
Agrees(m) ==
  /\ m.mode = "lengths" => LengthsLeft(m) > 0
  /\ m.mode = "symbols" =>
       /\ LengthsLeft(m) = 0
       /\ m.lit = {s \in 0..(m.hlit - 1) : m.lengths[s + 1] # 0}
       /\ m.dist = {s \in 0..(m.hdist - 1) : m.lengths[m.hlit + s + 1] # 0}

Place(m) ==
  \/ m.mode = "header" /\ pc = "header"
  \/ /\ m.mode \in {"lengths", "symbols"} /\ pc = "lengths" /\ Agrees(m)
     /\ lengths = m.lengths /\ hlit = m.hlit /\ hdist = m.hdist /\ clCodes = m.clCodes
  \/ m.mode = "symbols" /\ pc = "symbols" /\ lit = m.lit /\ dist = m.dist
  \/ m.mode = "done" /\ pc = "done" /\ answer = "accepted"

AtItem(m, e) ==
  at = e /\ out = Earlier \o m.bytes /\ final = m.final /\ Place(m)

InMatch(m, e, f) ==
  /\ m.mode = "symbols" /\ pc = "match" /\ lit = m.lit /\ dist = m.dist
  /\ at = e + 1 /\ out = Earlier \o m.bytes /\ final = m.final
  /\ length = LengthSymbol(f)

InCopy(m, e, f) ==
  /\ m.mode = "symbols" /\ pc = "copy" /\ lit = m.lit /\ dist = m.dist
  /\ at = e + Len(f) /\ final = m.final /\ distance = MatchDistance(f)
  /\ length <= MatchLength(f)
  /\ out = Earlier \o (m.bytes \o Repetition(m.bytes, MatchDistance(f), MatchLength(f) - length))

In(m, i, e) ==
  \/ AtItem(m, e)
  \/ i.kind = "match" /\ (InMatch(m, e, i.fields) \/ InCopy(m, e, i.fields))

\* The strip ends before the field at end, and this will be noticed.
Lost(end) ==
  answer # "accepted" /\ end > WholeFields /\ (answer = "failed" \/ at > WholeFields)

\* What one step from item i may come to, with m before the item and e fields.
Goes(m, i, e) ==
  \/ at <= WholeFields /\ In(m, i, e)
  \/ at <= WholeFields /\ AtItem(After(m, i), e + Len(i.fields))
  \/ Lost(e + Len(i.fields))

\* As far as the strip goes, its fields after e are f.
Reads(f, e) ==
  \A x \in 1..Len(f) : e + x <= WholeFields => Fields[e + x] = f[x]

Follows(items) ==
  \/ Lost(Needed(items))
  \/ at <= WholeFields /\ \E j \in 0..Len(items) : AtItem(Meaning(items)[j], ItemEnds(items)[j])
  \/ at <= WholeFields /\ \E j \in 1..Len(items) :
       In(Meaning(items)[j - 1], items[j], ItemEnds(items)[j - 1])

\* What is said of the strip alone stays the same.
LEMMA SameStrip ==
  ASSUME strip' = strip
  PROVE  Fields' = Fields /\ WholeFields' = WholeFields
BY DEF Fields, WholeFields, ZlibHeader

\* A field that was written is read.
LEMMA FieldWritten ==
  ASSUME Reader, NEW f \in Seq(Nat), NEW e \in Nat, Reads(f, e), NEW k \in Nat \ {0},
         NEW x \in 1..Len(f), at + k = e + x, at + k <= WholeFields
  PROVE  at + k <= Len(Fields) /\ Fields[at + k] = f[x] /\ Symbols(k) = {f[x]}
<1>1. Fields \in Seq(Nat) /\ WholeFields \in Int /\ WholeFields <= Len(Fields) /\ Len(Fields) \in Nat
  BY FieldsType DEF Reader
<1>2. at \in Nat
  BY DEF Reader
<1>3. at + k <= Len(Fields)
  BY <1>1, <1>2
<1>4. Fields[at + k] = f[x]
  BY DEF Reads
<1> QED BY <1>3, <1>4 DEF Symbols

\* A number that fits is its own remainder.
LEMMA SmallBits ==
  ASSUME NEW a \in Nat, NEW count \in 0..16, a < 2^count
  PROVE  a % 2^count = a
<1>1. PICK p \in Nat \ {0} : p = 2^count
  BY PowersAssumption
<1>2. p * 0 <= a /\ a < p * 0 + p /\ a - p * 0 = a
  BY <1>1
<1>3. a % p = a
  BY <1>2, DivUnique, 0 \in Nat
<1> QED BY <1>1, <1>3

\* Bits that were written are read.
LEMMA BitsWritten ==
  ASSUME Reader, NEW f \in Seq(Nat), NEW e \in Nat, Reads(f, e), NEW k \in Nat \ {0},
         NEW x \in 1..Len(f), at + k = e + x, at + k <= WholeFields,
         NEW count \in 0..16, f[x] < 2^count
  PROVE  Bits(k, count) = f[x]
<1>1. at + k <= Len(Fields) /\ Fields[at + k] = f[x]
  BY FieldWritten
<1>2. f[x] % 2^count = f[x]
  BY SmallBits, ElementOf
<1> QED BY <1>1, <1>2 DEF Bits

\* No bits are zero.
LEMMA NoBits ==
  ASSUME Reader, NEW k \in Nat \ {0}
  PROVE  Bits(k, 0) = 0
<1>1. Bits(k, 0) \in 0..(2^0 - 1)
  BY BitsType
<1> QED BY <1>1, PowersAssumption

\* The first item of a deflated strip begins a block.
LEMMA FirstItem ==
  ASSUME NEW items \in Seq(Items), Final(items).mode = "done"
  PROVE  /\ 1 \in 1..Len(items)
         /\ items[1].fields \in Seq(Nat) /\ Len(items[1].fields) >= 2
         /\ items[1].fields[1] \in 0..1 /\ items[1].fields[2] \in 0..2
<1>1. PICK M : M = Meaning(items) /\ MeaningOf(items, M)
  BY MeaningIs
<1>2. M[0].mode = "header" /\ M[Len(items)].mode = "done"
  BY <1>1 DEF MeaningOf, Nothing, Final
<1>3. 1 \in 1..Len(items)
  BY <1>2
<1>4. items[1] \in Items
  BY <1>3, ElementOf
<1>5. Fits(M[0], items[1])
  <2>1. Fits(M[1 - 1], items[1])
    BY <1>1, <1>2, <1>3, AllFit
  <2> QED BY <2>1
<1>6. PICK f \in Seq(Nat) : f = items[1].fields
  BY <1>4 DEF Items
<1>7. Len(f) >= 2 /\ f[1] \in 0..1 /\ f[2] \in 0..2
  <2>1. items[1].kind \in {"stored", "fixed", "dynamic"}
    <3>1. items[1].kind \in Kinds
      BY <1>4 DEF Items
    <3> QED BY <1>2, <1>5, <3>1 DEF Fits, Kinds
  <2>2. CASE items[1].kind = "stored"
    <3>1. Len(f) >= 4 /\ f[1] \in 0..1 /\ f[2] = 0
      BY <1>5, <1>6, <2>2 DEF Fits
    <3> QED BY <3>1
  <2>3. CASE items[1].kind = "fixed"
    BY <1>5, <1>6, <2>3 DEF Fits
  <2>4. CASE items[1].kind = "dynamic"
    <3>1. Len(f) \in 9..10 /\ f[1] \in 0..1 /\ f[2] = 2
      BY <1>5, <1>6, <2>4 DEF Fits
    <3>2. PICK l \in 9..10 : l = Len(f)
      BY <3>1
    <3>3. l >= 2 /\ 2 \in 0..2
      OBVIOUS
    <3> QED BY <3>1, <3>2, <3>3
  <2> QED BY <2>1, <2>2, <2>3, <2>4
<1> QED BY <1>3, <1>6, <1>7

\* The decoder takes a zlib header if and only if one was written.
LEMMA ZlibTaken ==
  ASSUME strip \in Strips, Deflated
  PROVE  Fields = Written /\ WholeFields = WrittenWhole
<1>1. strip.items \in Seq(Items) /\ strip.zlib \in BOOLEAN /\ strip.first \in Seq(Nat)
  BY ItemsAssumption, TypesAssumption
<1>2. StartWritten(strip.items) /\ Final(strip.items).mode = "done"
  BY DEF Deflated
<1>3. ZlibHeader <=> strip.zlib
  <2>1. CASE strip.zlib
    BY <1>2, <2>1 DEF StartWritten, ZlibHeader, Checked
  <2>2. CASE ~strip.zlib
    <3> SUFFICES ASSUME ZlibHeader PROVE FALSE
      BY <2>2
    <3>1. PICK b \in Nat : b = strip.first[1]
      <4>1. 1 \in 1..Len(strip.first)
        BY <1>1 DEF ZlibHeader
      <4> QED BY <1>1, <4>1
    <3>2. b % 16 = 8 /\ Len(strip.first) >= 2 /\ Checked /\ strip.first # <<>>
      BY <1>1, <3>1 DEF ZlibHeader, Checked
    <3>3. PICK x \in 0..1, y \in 0..2 : x = strip.items[1].fields[1] /\ y = strip.items[1].fields[2]
      BY <1>1, <1>2, FirstItem
    <3>4. b % 8 = x + 2 * y /\ (y = 0 => b < 8)
      BY <1>2, <2>2, <3>1, <3>2, <3>3 DEF StartWritten
    <3>5. b % 8 = 0
      BY <3>2
    <3>6. y = 0
      BY <3>3, <3>4, <3>5
    <3> QED BY <3>2, <3>4, <3>6
  <2> QED BY <1>1, <2>1, <2>2
<1>4. Fields = Written
  BY <1>3 DEF Fields, Written
<1> QED BY <1>4 DEF WholeFields, WrittenWhole

\* A step leaves the strip alone.
LEMMA StripStays == Next => strip' = strip
BY DEF Next, BadHeader, Stored, FixedTrees, DynamicTrees, ReadLength, SplitLengths, ReadSymbol,
       ReadMatch, CopyByte, EndMatch, Consume

\* Reading beyond the end is noticed before anything is accepted.
LEMMA LostStays ==
  ASSUME IInv, Next, NEW end, Lost(end)
  PROVE  Lost(end)'
<1>1. strip' = strip /\ WholeFields' = WholeFields /\ Fields' = Fields
  BY StripStays, SameStrip
<1>2. at \in Nat /\ WholeFields \in Int
  BY FieldsType DEF IInv, Reader
<1>3. pc # "done"
  BY DEF Next, BadHeader, Begin, Stored, FixedTrees, DynamicTrees, ReadLength, SplitLengths, ReadSymbol,
       ReadMatch, CopyByte, EndMatch
<1>4. answer = "none" /\ at > WholeFields
  BY <1>3 DEF Lost, IInv, Answer, TypeOK
<1>5. answer' # "accepted" /\ (answer' = "failed" \/ at' > WholeFields)
  <2>1. CASE BadHeader
    BY <2>1 DEF BadHeader, Fail
  <2>2. CASE Stored
    BY <2>2, <1>2, <1>4 DEF Stored, Begin
  <2>3. CASE FixedTrees
    BY <2>3, <1>2, <1>4 DEF FixedTrees, Begin
  <2>4. CASE DynamicTrees
    BY <2>4, <1>2, <1>4 DEF DynamicTrees, Begin
  <2>5. CASE ReadLength
    <3>1. PICK sym \in Symbols(1) : TRUE
      BY <2>5 DEF ReadLength
    <3> QED BY <2>5, <1>2, <1>4 DEF ReadLength, Fail
  <2>6. CASE SplitLengths
    BY <2>6, <1>4 DEF SplitLengths, Fail
  <2>7. CASE ReadSymbol
    <3>1. \A sym \in Symbols(1) : ~Readable(sym)
      BY <1>2, <1>4 DEF Readable
    <3> QED BY <2>7, <3>1 DEF ReadSymbol, LiteralOrEnd, BeginMatch, BadSymbol, Fail
  <2>8. CASE ReadMatch
    <3>1. PICK a \in 0..1 : a = IF LenExtra[length] > 0 THEN 1 ELSE 0
      OBVIOUS
    <3>2. PICK d \in Symbols(a + 1) :
            \/ /\ d \in dist /\ d < Len(DistBase)
               /\ LET b == IF DistExtra[d + 1] > 0 THEN 1 ELSE 0
                      back == DistBase[d + 1] + Bits(a + 2, DistExtra[d + 1])
                  IN  /\ Consume(a + 1 + b)
                      /\ (back <= Len(out) /\ UNCHANGED answer) \/ (back > Len(out) /\ Fail)
            \/ ~(d \in dist /\ d < Len(DistBase)) /\ Consume(a + 1) /\ Fail
      BY <2>8, <3>1, Zenon DEF ReadMatch
    <3>3. answer' = "failed" \/ (answer' = answer /\ \E b \in 0..1 : Consume(a + 1 + b))
      BY <3>2 DEF Fail
    <3>4. ASSUME NEW b \in 0..1, Consume(a + 1 + b) PROVE at' > WholeFields
      BY <3>4, <1>2, <1>4 DEF Consume
    <3> QED BY <1>4, <3>3, <3>4
  <2>9. CASE CopyByte
    BY <2>9, <1>4 DEF CopyByte
  <2>10. CASE EndMatch
    BY <2>10, <1>4 DEF EndMatch
  <2> QED BY <2>1, <2>2, <2>3, <2>4, <2>5, <2>6, <2>7, <2>8, <2>9, <2>10 DEF Next
<1> QED BY <1>1, <1>5 DEF Lost

-----------------------------------------------------------------------------
(* From the beginning of a block.                                          *)

\* What the decoder knows at an item.
Known(m, i, e) ==
  /\ IInv /\ m \in Meanings /\ i \in Items /\ e \in Nat /\ Fits(m, i) /\ Reads(i.fields, e)
  /\ at <= WholeFields /\ AtItem(m, e)

\* A header is refused only where the strip ends.
LEMMA BadHeaderGoes ==
  ASSUME NEW m, NEW i, NEW e, Known(m, i, e), BadHeader
  PROVE  Goes(m, i, e)'
<1>1. PICK f \in Seq(Nat) : f = i.fields
  BY DEF Known, Items
<1>2. /\ at = e /\ e \in Nat /\ WholeFields \in Int /\ m.mode = "header" /\ Reader
      /\ WholeFields' = WholeFields
  BY FieldsType, SameStrip DEF Known, IInv, Reader, AtItem, Place, BadHeader, Consume
<1>3. i.kind \in {"stored", "fixed", "dynamic"}
  BY <1>2 DEF Known, Fits, Items, Kinds
<1>4. Len(f) >= 2 /\ Len(f) \in Nat /\ f[2] \in 0..2
  BY <1>1, <1>3 DEF Known, Fits
<1>5. e + 2 > WholeFields
  <2> SUFFICES ASSUME e + 2 <= WholeFields PROVE FALSE
    BY <1>2
  <2>1. Bits(2, 2) = f[2]
    <3>1. 2 \in 1..Len(f) /\ at + 2 = e + 2 /\ at + 2 <= WholeFields /\ f[2] < 2^2 /\ 2 \in 0..16
      BY <1>2, <1>4, PowersAssumption
    <3> QED BY <1>1, <1>2, <3>1, BitsWritten DEF Known
  <2>2. at + 1 <= WholeFields
    BY <1>2
  <2> QED BY <1>2, <1>4, <2>1, <2>2 DEF BadHeader, BlockType
<1>6. Lost(e + Len(i.fields))'
  <2>1. e + Len(f) > WholeFields
    BY <1>2, <1>4, <1>5
  <2> QED BY <1>1, <1>2, <2>1 DEF Lost, BadHeader, Fail
<1> QED BY <1>6 DEF Goes

\* What the decoder has read with a block header.
HeadOf(m, i, e, type) ==
  /\ at = e /\ e \in Nat /\ WholeFields \in Int /\ answer = "none" /\ m.mode = "header" /\ Reader
  /\ i.kind \in {"stored", "fixed", "dynamic"}
  /\ i.fields \in Seq(Nat) /\ Len(i.fields) >= 2 /\ Len(i.fields) \in Nat
  /\ final' = (i.fields[1] = 1)
  /\ e + 2 <= WholeFields => i.fields[2] = type

\* The header is that of the item, as far as the strip goes.
LEMMA HeaderRead ==
  ASSUME NEW m, NEW i, NEW e, Known(m, i, e), NEW type \in 0..2, Begin(type)
  PROVE  HeadOf(m, i, e, type)
<1>1. PICK f \in Seq(Nat) : f = i.fields
  BY DEF Known, Items
<1>2. /\ at = e /\ e \in Nat /\ WholeFields \in Int /\ m.mode = "header" /\ Reader
      /\ answer = "none" /\ at + 1 <= WholeFields
  BY FieldsType DEF Known, IInv, Reader, AtItem, Place, Begin, Answer, TypeOK
<1>3. i.kind \in {"stored", "fixed", "dynamic"}
  BY <1>2 DEF Known, Fits, Items, Kinds
<1>4. Len(f) >= 2 /\ Len(f) \in Nat /\ f[1] \in 0..1 /\ f[2] \in 0..2
  BY <1>1, <1>3 DEF Known, Fits
<1>5. Bits(1, 1) = f[1]
  <2>1. 1 \in 1..Len(f) /\ at + 1 = e + 1 /\ f[1] < 2^1 /\ 1 \in 0..16 /\ 1 \in Nat \ {0}
    BY <1>2, <1>4, PowersAssumption
  <2>2. Reads(f, e)
    BY <1>1 DEF Known
  <2>3. at + 1 <= Len(Fields) /\ Fields[at + 1] = f[1]
    BY <1>2, <2>1, <2>2, FieldWritten
  <2>4. f[1] % 2^1 = f[1]
    BY <1>4, <2>1, SmallBits
  <2> QED BY <2>3, <2>4 DEF Bits
<1>6. ASSUME e + 2 <= WholeFields PROVE f[2] = type
  <2>1. Bits(2, 2) = f[2]
    <3>1. 2 \in 1..Len(f) /\ at + 2 = e + 2 /\ at + 2 <= WholeFields /\ f[2] < 2^2 /\ 2 \in 0..16
      BY <1>2, <1>4, <1>6, PowersAssumption
    <3> QED BY <1>1, <1>2, <3>1, BitsWritten DEF Known
  <2> QED BY <2>1 DEF Begin, BlockType
<1> QED BY <1>1, <1>2, <1>3, <1>4, <1>5, <1>6 DEF Begin, HeadOf

\* The strip ends before the end of the item.
LEMMA LosesIt ==
  ASSUME NEW m, NEW i, NEW e, Known(m, i, e), WholeFields' = WholeFields,
         answer' # "accepted", e + Len(i.fields) > WholeFields,
         answer' = "failed" \/ at' > WholeFields
  PROVE  Goes(m, i, e)'
BY DEF Goes, Lost

\* What two bits hold.
LEMMA BelowFour == \A x \in 0..3 : x < 2^2
BY PowersAssumption

\* The length of a stored block is read as it was written.
LEMMA LengthRead ==
  ASSUME Reader, NEW f \in Seq(Nat), NEW e \in Nat, Reads(f, e), at = e,
         Len(f) >= 4, at + 3 <= WholeFields, f[3] < 2^StoredBits
  PROVE  Bits(3, StoredBits) = f[3]
<1>1. PICK c \in 0..16 : c = StoredBits
  BY TypesAssumption
<1>2. 3 \in 1..Len(f) /\ 3 \in Nat \ {0} /\ at + 3 = e + 3
  OBVIOUS
<1>3. at + 3 <= Len(Fields) /\ Fields[at + 3] = f[3]
  BY <1>2, FieldWritten
<1>4. f[3] \in Nat /\ f[3] < 2^c
  BY <1>1, <1>2, ElementOf
<1>5. f[3] % 2^c = f[3]
  BY <1>4, SmallBits
<1> QED BY <1>1, <1>3, <1>5 DEF Bits

\* A stored block is copied, or ends too early.
LEMMA StoredGoes ==
  ASSUME NEW m, NEW i, NEW e, Known(m, i, e), Stored
  PROVE  Goes(m, i, e)'
<1>1. /\ at = e /\ e \in Nat /\ WholeFields \in Int /\ answer = "none" /\ Reader
      /\ m.mode = "header" /\ i.kind \in {"stored", "fixed", "dynamic"}
      /\ i.fields \in Seq(Nat) /\ Len(i.fields) >= 2 /\ Len(i.fields) \in Nat
      /\ final' = (i.fields[1] = 1)
      /\ e + 2 <= WholeFields => i.fields[2] = 0
  <2>1. Begin(0) /\ 0 \in 0..2
    BY DEF Stored
  <2>2. HeadOf(m, i, e, 0)
    BY <2>1, HeaderRead
  <2> QED BY <2>2 DEF HeadOf
<1>2. PICK f \in Seq(Nat) : f = i.fields
  BY <1>1
<1>3. PICK n \in Nat : n = Bits(3, StoredBits)
  BY <1>1, StoredLength
<1>4. WholeFields' = WholeFields /\ at' = e + (4 + n)
  BY <1>1, <1>3, SameStrip DEF Stored, Consume
<1>5. \/ /\ at + 4 + n <= WholeFields
         /\ out' = out \o SubSeq(Fields, at + 5, at + 4 + n)
         /\ EndBlock(final')
      \/ ~(at + 4 + n <= WholeFields) /\ pc' = "done" /\ answer' = "failed"
  BY <1>3 DEF Stored
<1>6. CASE e + 2 > WholeFields \/ e + Len(f) > WholeFields
  <2>1. ~(at + 4 + n <= WholeFields)
    <3>1. CASE e + 3 > WholeFields
      BY <3>1, <1>1
    <3>2. CASE e + 3 <= WholeFields
      <4>1. f[2] = 0 /\ e + Len(f) > WholeFields
        BY <1>1, <1>2, <1>6, <3>2
      <4>2. Len(f) >= 4 /\ f[3] = Len(f) - 4 /\ f[3] < 2^StoredBits
        BY <1>1, <1>2, <4>1 DEF Known, Fits
      <4>3. Bits(3, StoredBits) = f[3]
        <5>1. Reads(f, e) /\ at + 3 <= WholeFields
          BY <1>1, <1>2, <3>2 DEF Known
        <5> QED BY <1>1, <4>2, <5>1, LengthRead
      <4> QED BY <1>1, <1>3, <4>1, <4>2, <4>3
    <3> QED BY <1>1, <3>1, <3>2
  <2>2. answer' = "failed"
    BY <1>5, <2>1
  <2>3. e + Len(i.fields) > WholeFields
    BY <1>1, <1>2, <1>6
  <2> QED BY <1>4, <2>2, <2>3, LosesIt
<1>7. CASE e + 2 <= WholeFields /\ e + Len(f) <= WholeFields
  <2>1. i.kind = "stored" /\ Len(f) >= 4 /\ f[3] = Len(f) - 4 /\ f[1] \in 0..1 /\ f[3] < 2^StoredBits
    <3>1. f[2] = 0
      BY <1>1, <1>2, <1>7
    <3>2. i.kind = "stored"
      BY <1>1, <1>2, <3>1 DEF Known, Fits
    <3>3. Len(f) >= 4 /\ f[3] = Len(f) - 4 /\ f[1] \in 0..1 /\ f[3] < 2^StoredBits
      BY <1>2, <3>2 DEF Known, Fits
    <3> QED BY <3>2, <3>3
  <2>2. Bits(3, StoredBits) = f[3]
    <3>1. at + 3 <= WholeFields
      <4>1. PICK l \in Nat : l = Len(f) /\ l >= 4
        BY <1>1, <1>2, <2>1
      <4>2. e + l <= WholeFields
        BY <1>7, <4>1
      <4> QED BY <1>1, <4>1, <4>2
    <3>2. Reads(f, e)
      BY <1>2 DEF Known
    <3> QED BY <1>1, <2>1, <3>1, <3>2, LengthRead
  <2>3. n = Len(f) - 4 /\ Len(f) \in Nat
    BY <1>1, <1>2, <1>3, <2>1, <2>2
  <2>4. /\ at + 4 + n = e + Len(f) /\ at' = e + Len(f) /\ at + 4 + n <= WholeFields
        /\ at + 5 = (e + 4) + 1 /\ at + 4 + n = (e + 4) + n
    BY <1>1, <1>4, <1>7, <2>3
  <2>5. SubSeq(Fields, at + 5, at + 4 + n) = SubSeq(f, 5, Len(f))
    <3>1. Fields \in Seq(Nat) /\ WholeFields <= Len(Fields) /\ Len(Fields) \in Nat
      BY FieldsType DEF Known, IInv, Reader
    <3>2. SubSeq(Fields, (e + 4) + 1, (e + 4) + n) = [k \in 1..n |-> Fields[(e + 4) + k]]
      <4>1. (e + 4) + n <= Len(Fields) /\ e + 4 \in Nat /\ n \in Nat
        <5>1. (e + 4) + n <= WholeFields
          BY <2>4
        <5>2. e \in Nat /\ WholeFields \in Int
          BY <1>1
        <5> QED BY <3>1, <5>1, <5>2
      <4>2. PICK v : v = Fields
        OBVIOUS
      <4>3. PICK x \in Nat : x = e + 4
        BY <4>1
      <4>4. v \in Seq(Nat) /\ x + n <= Len(v) /\ n \in Nat
        BY <3>1, <4>1, <4>2, <4>3
      <4>5. SubSeq(v, x + 1, x + n) = [k \in 1..n |-> v[x + k]]
        BY <4>4, SubSeqShape
      <4> QED BY <4>2, <4>3, <4>5
    <3>3. SubSeq(f, 4 + 1, 4 + n) = [k \in 1..n |-> f[4 + k]]
      <4>1. 4 + n <= Len(f) /\ 4 \in Nat /\ n \in Nat
        BY <2>3
      <4> QED BY <4>1, SubSeqShape
    <3>4. ASSUME NEW k \in 1..n PROVE Fields[(e + 4) + k] = f[4 + k]
      <4>1. 4 + k \in 1..Len(f) /\ e + (4 + k) <= WholeFields /\ (e + 4) + k = e + (4 + k)
        BY <1>1, <1>7, <2>3
      <4>2. Reads(f, e)
        BY <1>2 DEF Known
      <4> QED BY <4>1, <4>2 DEF Reads
    <3>5. 4 + 1 = 5 /\ 4 + n = Len(f)
      BY <2>3
    <3> QED BY <2>4, <3>2, <3>3, <3>4, <3>5
  <2>6. out' = out \o SubSeq(f, 5, Len(f)) /\ EndBlock(final')
    BY <1>5, <2>4, <2>5
  <2>7. out' = Earlier \o (m.bytes \o SubSeq(f, 5, Len(f)))
    <3>1. out = Earlier \o m.bytes /\ m.bytes \in Seq(Nat) /\ Earlier \in Seq(Nat)
      BY TypesAssumption DEF Known, AtItem, Meanings
    <3>2. SubSeq(f, 5, Len(f)) \in Seq(Nat)
      BY <2>1
    <3>3. Associates(Earlier, m.bytes, SubSeq(f, 5, Len(f)))
      BY <3>1, <3>2, Associative
    <3> QED BY <2>6, <3>1, <3>3 DEF Associates
  <2>8. PICK a : a = After(m, i)
    OBVIOUS
  <2>9. /\ a.mode = AfterBlock(f[1] = 1) /\ a.final = (f[1] = 1)
        /\ a.bytes = m.bytes \o SubSeq(f, 5, Len(f))
    <3>1. a = [m EXCEPT !.mode = AfterBlock(f[1] = 1), !.final = (f[1] = 1),
                        !.bytes = @ \o SubSeq(f, 5, Len(f))]
      BY <2>8, <2>1, <1>2 DEF After, Known
    <3> QED BY <3>1 DEF Known, Meanings
  <2>10. (f[1] = 1 /\ pc' = "done" /\ answer' = "accepted") \/ (f[1] # 1 /\ pc' = "header")
    BY <1>1, <1>2, <2>6 DEF EndBlock
  <2>11. Place(a)'
    BY <2>9, <2>10 DEF Place, AfterBlock
  <2>12. AtItem(a, e + Len(f))'
    BY <1>1, <1>2, <2>4, <2>7, <2>9, <2>11 DEF AtItem
  <2> QED BY <1>2, <1>4, <1>7, <2>4, <2>8, <2>12 DEF Goes
<1> QED BY <1>1, <1>2, <1>6, <1>7

\* A fixed block has its codes.
LEMMA FixedTreesGoes ==
  ASSUME NEW m, NEW i, NEW e, Known(m, i, e), FixedTrees
  PROVE  Goes(m, i, e)'
<1>1. /\ at = e /\ e \in Nat /\ WholeFields \in Int /\ answer = "none"
      /\ i.kind \in {"stored", "fixed", "dynamic"}
      /\ i.fields \in Seq(Nat) /\ Len(i.fields) >= 2 /\ Len(i.fields) \in Nat
      /\ final' = (i.fields[1] = 1)
      /\ e + 2 <= WholeFields => i.fields[2] = 1
  <2>1. Begin(1) /\ 1 \in 0..2
    BY DEF FixedTrees
  <2>2. HeadOf(m, i, e, 1)
    BY <2>1, HeaderRead
  <2> QED BY <2>2 DEF HeadOf
<1>2. WholeFields' = WholeFields /\ at' = e + 2 /\ answer' = "none"
  BY <1>1, SameStrip DEF FixedTrees, Consume
<1>3. CASE e + 2 > WholeFields
  <2>1. e + Len(i.fields) > WholeFields /\ at' > WholeFields
    BY <1>1, <1>2, <1>3
  <2> QED BY <1>2, <2>1, LosesIt
<1>4. CASE e + 2 <= WholeFields
  <2>1. PICK f \in Seq(Nat) : f = i.fields
    BY <1>1
  <2>2. i.kind = "fixed" /\ Len(f) = 2
    <3>1. f[2] = 1
      BY <1>1, <2>1, <1>4
    <3>2. i.kind = "fixed"
      BY <1>1, <2>1, <3>1 DEF Known, Fits
    <3> QED BY <2>1, <3>2 DEF Known, Fits
  <2>3. PICK a : a = After(m, i)
    OBVIOUS
  <2>4. /\ a.mode = "symbols" /\ a.final = (f[1] = 1) /\ a.bytes = m.bytes
        /\ a.lit = 0..(FixedLit - 1) /\ a.dist = 0..(Len(DistBase) - 1)
    <3>1. a = [m EXCEPT !.mode = "symbols", !.final = (f[1] = 1),
                        !.lit = 0..(FixedLit - 1), !.dist = 0..(Len(DistBase) - 1)]
      BY <2>1, <2>2, <2>3 DEF After, Known
    <3> QED BY <3>1 DEF Known, Meanings
  <2>5. Place(a)'
    BY <2>4 DEF Place, FixedTrees
  <2>6. out' = Earlier \o a.bytes
    BY <2>4 DEF FixedTrees, Known, AtItem
  <2>7. AtItem(a, e + Len(f))'
    BY <1>1, <1>2, <2>1, <2>2, <2>4, <2>5, <2>6 DEF AtItem
  <2> QED BY <1>2, <1>4, <2>1, <2>2, <2>3, <2>7 DEF Goes
<1> QED BY <1>1, <1>3, <1>4

\* A dynamic block has the sizes that were written.
LEMMA DynamicTreesGoes ==
  ASSUME NEW m, NEW i, NEW e, Known(m, i, e), DynamicTrees
  PROVE  Goes(m, i, e)'
<1>1. /\ at = e /\ e \in Nat /\ WholeFields \in Int /\ answer = "none" /\ Reader
      /\ m.mode = "header" /\ i.kind \in {"stored", "fixed", "dynamic"}
      /\ i.fields \in Seq(Nat) /\ Len(i.fields) >= 2 /\ Len(i.fields) \in Nat
      /\ final' = (i.fields[1] = 1)
      /\ e + 2 <= WholeFields => i.fields[2] = 2
  <2>1. Begin(2) /\ 2 \in 0..2
    BY DEF DynamicTrees
  <2>2. HeadOf(m, i, e, 2)
    BY <2>1, HeaderRead
  <2> QED BY <2>2 DEF HeadOf
<1>2. PICK f \in Seq(Nat) : f = i.fields
  BY <1>1
<1>3. PICK h \in 4..5 : h = Bits(5, 1) + 4
  <2>1. Bits(5, 1) \in 0..(2^1 - 1)
    <3>1. 5 \in Nat \ {0} /\ 1 \in 0..16
      OBVIOUS
    <3> QED BY <1>1, <3>1, BitsType
  <2>2. 2^1 - 1 = 1
    BY PowersAssumption
  <2>3. Bits(5, 1) \in 0..1
    BY <2>1, <2>2
  <2> QED BY <2>3
<1>4. WholeFields' = WholeFields /\ at' = e + (5 + h)
  <2>1. Consume(5 + h)
    BY <1>3 DEF DynamicTrees
  <2> QED BY <1>1, <2>1, SameStrip DEF Consume
<1>5. /\ hlit' = Bits(3, 2) + Literals + 1
      /\ hdist' = Bits(4, 2) + 1
      /\ clCodes' = {ClOrder[k] : k \in {k \in 1..h : Bits(5 + k, 1) # 0}}
      /\ lengths' = <<>> /\ UNCHANGED out
      /\ IF hlit' > MaxLit \/ hdist' > Len(DistBase)
         THEN pc' = "done" /\ answer' = "failed"
         ELSE pc' = "lengths" /\ UNCHANGED answer
  BY <1>3 DEF DynamicTrees
<1>6. answer' # "accepted"
  BY <1>1, <1>5
<1>7. CASE e + 2 > WholeFields
  <2>1. at' > WholeFields /\ e + Len(i.fields) > WholeFields
    BY <1>1, <1>4, <1>7
  <2> QED BY <1>4, <1>6, <2>1, LosesIt
<1>8. CASE e + 2 <= WholeFields
  <2>1. i.kind = "dynamic"
    <3>1. f[2] = 2
      BY <1>1, <1>2, <1>8
    <3>2. CASE i.kind = "stored"
      BY <1>2, <3>1, <3>2 DEF Known, Fits
    <3>3. CASE i.kind = "fixed"
      BY <1>2, <3>1, <3>3 DEF Known, Fits
    <3> QED BY <1>1, <3>2, <3>3
  <2>2. /\ Len(f) \in 9..10 /\ f[3] \in 0..3 /\ f[4] \in 0..3 /\ f[5] = Len(f) - 9
        /\ f[3] + Literals + 1 <= MaxLit /\ f[4] + 1 <= Len(DistBase)
        /\ \A k \in 6..Len(f) : f[k] \in 0..1
    BY <1>2, <2>1 DEF Known, Fits
  <2>3. PICK l \in 9..10 : l = Len(f) /\ f[5] = l - 9
    BY <2>2
  <2>4. f[5] \in 0..1
    <3>1. PICK y \in 0..1 : y = l - 9
      OBVIOUS
    <3> QED BY <2>3, <3>1
  <2>5. \A x \in 0..1 : x < 2^1
    BY PowersAssumption
  <2>6. Reads(f, e) /\ Reader /\ e \in Nat /\ at = e
    BY <1>1, <1>2 DEF Known
  <2>7. ASSUME e + 5 <= WholeFields PROVE h = l - 5
    <3>1. 5 \in 1..Len(f) /\ at + 5 = e + 5 /\ at + 5 <= WholeFields /\ 5 \in Nat \ {0} /\ 1 \in 0..16
      BY <1>1, <2>3, <2>7
    <3>2. f[5] < 2^1
      BY <2>4, <2>5, Zenon
    <3>3. Bits(5, 1) = f[5]
      BY <2>6, <3>1, <3>2, BitsWritten
    <3> QED BY <1>3, <2>3, <3>3
  <2>8. CASE e + l > WholeFields
    <3>1. at' > WholeFields
      <4>1. CASE e + 5 <= WholeFields
        BY <1>1, <1>4, <2>7, <2>8, <4>1
      <4>2. CASE e + 5 > WholeFields
        BY <1>1, <1>4, <4>2
      <4> QED BY <1>1, <4>1, <4>2
    <3> QED BY <1>2, <1>4, <1>6, <2>3, <2>8, <3>1, LosesIt
  <2>9. CASE e + l <= WholeFields
    <3>1. h = l - 5 /\ at' = e + l /\ e + 5 <= WholeFields
      <4>1. e + 5 <= WholeFields
        BY <1>1, <2>9
      <4> QED BY <1>1, <1>4, <2>7, <4>1
    <3>2. ASSUME NEW k \in 1..h PROVE Bits(5 + k, 1) = f[5 + k] /\ f[5 + k] \in 0..1
      <4>1. /\ 5 + k \in 1..Len(f) /\ at + (5 + k) = e + (5 + k) /\ at + (5 + k) <= WholeFields
            /\ 5 + k \in Nat \ {0} /\ 1 \in 0..16 /\ 5 + k \in 6..Len(f)
        <5>1. PICK y \in 6..l : y = 5 + k
          BY <3>1
        <5>2. y \in 1..l /\ y \in Nat \ {0} /\ e + y <= WholeFields /\ 1 \in 0..16
          BY <1>1, <2>9
        <5> QED BY <1>1, <2>3, <5>1, <5>2
      <4>2. f[5 + k] \in 0..1
        BY <2>2, <4>1
      <4>3. f[5 + k] < 2^1
        BY <2>5, <4>2, Zenon
      <4> QED BY <2>6, <4>1, <4>2, <4>3, BitsWritten
    <3>3. Bits(3, 2) = f[3]
      <4>1. 3 \in 1..Len(f) /\ at + 3 = e + 3 /\ at + 3 <= WholeFields /\ 3 \in Nat \ {0} /\ 2 \in 0..16
        BY <1>1, <2>3, <3>1
      <4>2. f[3] < 2^2
        BY <2>2, BelowFour, Zenon
      <4> QED BY <2>6, <4>1, <4>2, BitsWritten
    <3>4. Bits(4, 2) = f[4]
      <4>1. 4 \in 1..Len(f) /\ at + 4 = e + 4 /\ at + 4 <= WholeFields /\ 4 \in Nat \ {0} /\ 2 \in 0..16
        BY <1>1, <2>3, <3>1
      <4>2. f[4] < 2^2
        BY <2>2, BelowFour, Zenon
      <4> QED BY <2>6, <4>1, <4>2, BitsWritten
    <3>5. PICK C : C = {ClOrder[k] : k \in {k \in 1..(Len(f) - 5) : f[5 + k] = 1}}
      OBVIOUS
    <3>6. clCodes' = C
      <4>1. {k \in 1..h : Bits(5 + k, 1) # 0} = {k \in 1..(Len(f) - 5) : f[5 + k] = 1}
        <5>1. \A k \in 1..h : Bits(5 + k, 1) # 0 <=> f[5 + k] = 1
          BY <3>2
        <5>2. h = Len(f) - 5
          BY <2>3, <3>1
        <5> QED BY <5>1, <5>2
      <4> QED BY <1>5, <3>5, <4>1
    <3>7. PICK x \in 0..3, y \in 0..3 : x = f[3] /\ y = f[4]
      BY <2>2
    <3>8. hlit' = x + Literals + 1 /\ hdist' = y + 1
      BY <1>5, <3>3, <3>4, <3>7
    <3>9. ~(hlit' > MaxLit \/ hdist' > Len(DistBase))
      <4>1. x + Literals + 1 <= MaxLit /\ y + 1 <= Len(DistBase)
        BY <2>2, <3>7
      <4>2. hlit' <= MaxLit /\ hdist' <= Len(DistBase) /\ hlit' \in Nat /\ hdist' \in Nat
        BY <3>8, <4>1, Sizes
      <4> QED BY <4>2, Sizes
    <3>10. pc' = "lengths"
      BY <1>5, <3>9
    <3>11. PICK a : a = After(m, i)
      OBVIOUS
    <3>12. /\ a.mode = "lengths" /\ a.final = (f[1] = 1) /\ a.lengths = <<>>
           /\ a.hlit = x + Literals + 1 /\ a.hdist = y + 1 /\ a.clCodes = C /\ a.bytes = m.bytes
      <4>1. a = [m EXCEPT !.mode = "lengths", !.final = (f[1] = 1), !.lengths = <<>>,
                          !.hlit = f[3] + Literals + 1, !.hdist = f[4] + 1, !.clCodes = C]
        BY <1>2, <2>1, <3>5, <3>11 DEF After, Known
      <4> QED BY <3>7, <4>1 DEF Known, Meanings
    <3>13. LengthsLeft(a) > 0
      <4>1. Len(a.lengths) = 0
        BY <3>12
      <4> QED BY <3>12, <4>1, Sizes DEF LengthsLeft
    <3>14. Agrees(a)
      BY <3>12, <3>13 DEF Agrees
    <3>15. Place(a)'
      BY <1>5, <3>6, <3>8, <3>10, <3>12, <3>14 DEF Place, Agrees
    <3>16. out' = Earlier \o a.bytes /\ final' = a.final
      BY <1>1, <1>2, <1>5, <3>12 DEF Known, AtItem
    <3>17. AtItem(a, e + Len(f))'
      BY <2>3, <3>1, <3>15, <3>16 DEF AtItem
    <3> QED BY <1>2, <1>4, <2>3, <2>9, <3>1, <3>11, <3>17 DEF Goes
  <2> QED BY <1>1, <2>3, <2>8, <2>9
<1> QED BY <1>1, <1>7, <1>8

-----------------------------------------------------------------------------
(* From a code length.                                                     *)

\* More lengths, of the codes that follow when they are the last ones.
MoreLengths(a, m, new) ==
  /\ a.mode \in {"lengths", "symbols"} /\ Agrees(a) /\ a.lengths = m.lengths \o new
  /\ a.hlit = m.hlit /\ a.hdist = m.hdist /\ a.clCodes = m.clCodes
  /\ a.final = m.final /\ a.bytes = m.bytes

\* WithLengths adds the lengths.
LEMMA WithLengthsIs ==
  ASSUME NEW m \in Meanings, NEW new \in Seq(Nat), Len(new) <= LengthsLeft(m), m.mode = "lengths"
  PROVE  MoreLengths(WithLengths(m, new), m, new)
<1>1. PICK all : all = m.lengths \o new
  OBVIOUS
<1>2. PICK x \in Nat, y \in Nat, z \in Nat, n \in Nat :
        x = m.hlit /\ y = m.hdist /\ z = Len(m.lengths) /\ n = Len(new)
  <2>1. m.hlit \in Nat /\ m.hdist \in Nat /\ Len(m.lengths) \in Nat /\ Len(new) \in Nat
    BY DEF Meanings
  <2> QED BY <2>1
<1>3. Len(all) = z + n
  <2>1. m.lengths \in Seq(Nat)
    BY DEF Meanings
  <2> QED BY <1>1, <1>2, <2>1
<1>4. LengthsLeft(m) = x + y - z /\ n <= x + y - z
  BY <1>2 DEF LengthsLeft
<1>5. PICK a : a = WithLengths(m, new)
  OBVIOUS
<1>6. CASE n < x + y - z
  <2>1. a = [m EXCEPT !.lengths = all]
    BY <1>1, <1>2, <1>4, <1>5, <1>6 DEF WithLengths
  <2>2. /\ a.mode = "lengths" /\ a.lengths = all /\ a.hlit = x /\ a.hdist = y /\ a.clCodes = m.clCodes
        /\ a.final = m.final /\ a.bytes = m.bytes
    BY <1>2, <2>1 DEF Meanings
  <2>3. LengthsLeft(a) = x + y - (z + n)
    BY <1>3, <2>2 DEF LengthsLeft
  <2>4. LengthsLeft(a) > 0
    BY <1>6, <2>3
  <2>5. Agrees(a)
    BY <2>2, <2>4 DEF Agrees
  <2> QED BY <1>1, <1>2, <1>5, <2>2, <2>5 DEF MoreLengths
<1>7. CASE ~(n < x + y - z)
  <2>1. a = [m EXCEPT !.mode = "symbols", !.lengths = all,
                      !.lit = {s \in 0..(m.hlit - 1) : all[s + 1] # 0},
                      !.dist = {s \in 0..(m.hdist - 1) : all[m.hlit + s + 1] # 0}]
    BY <1>1, <1>2, <1>4, <1>5, <1>7 DEF WithLengths
  <2>2. /\ a.mode = "symbols" /\ a.lengths = all /\ a.hlit = m.hlit /\ a.hdist = m.hdist
        /\ a.clCodes = m.clCodes /\ a.final = m.final /\ a.bytes = m.bytes
        /\ a.lit = {s \in 0..(m.hlit - 1) : all[s + 1] # 0}
        /\ a.dist = {s \in 0..(m.hdist - 1) : all[m.hlit + s + 1] # 0}
    BY <2>1 DEF Meanings
  <2>3. LengthsLeft(a) = x + y - (z + n)
    BY <1>2, <1>3, <2>2 DEF LengthsLeft
  <2>4. LengthsLeft(a) = 0
    BY <1>4, <1>7, <2>3
  <2>5. Agrees(a)
    BY <2>2, <2>4 DEF Agrees
  <2> QED BY <1>1, <1>5, <2>2, <2>5 DEF MoreLengths
<1> QED BY <1>6, <1>7

\* A code length, or a repetition of one, is read as it was written.
LEMMA ReadLengthGoes ==
  ASSUME NEW m, NEW i, NEW e, Known(m, i, e), ReadLength
  PROVE  Goes(m, i, e)'
<1>1. PICK f \in Seq(Nat) : f = i.fields
  BY DEF Known, Items
<1>2. /\ at = e /\ e \in Nat /\ WholeFields \in Int /\ Reader /\ at <= WholeFields
      /\ answer = "none" /\ Reads(f, e)
      /\ m \in Meanings /\ i \in Items
  BY <1>1, FieldsType DEF Known, IInv, Reader, AtItem, ReadLength, Answer, TypeOK
<1>3. /\ Agrees(m) /\ lengths = m.lengths /\ hlit = m.hlit /\ hdist = m.hdist /\ clCodes = m.clCodes
      /\ m.mode \in {"lengths", "symbols"}
  BY DEF Known, AtItem, Place, ReadLength
<1>4. m.mode = "lengths"
  <2>1. PICK x \in Nat, y \in Nat, z \in Nat : x = m.hlit /\ y = m.hdist /\ z = Len(m.lengths)
    <3>1. m.hlit \in Nat /\ m.hdist \in Nat /\ Len(m.lengths) \in Nat
      BY <1>2 DEF Meanings
    <3> QED BY <3>1
  <2>2. z < x + y
    BY <1>3, <2>1 DEF ReadLength
  <2>3. LengthsLeft(m) # 0
    BY <2>1, <2>2 DEF LengthsLeft
  <2> QED BY <1>3, <2>3 DEF Agrees
<1>5. i.kind \in {"length", "repeat"}
  BY <1>2, <1>4 DEF Known, Fits, Items, Kinds
<1>6. /\ Len(f) \in 1..2 /\ f[1] \in m.clCodes /\ f[1] \in 0..4
      /\ i.kind = "length" => Len(f) = 1 /\ f[1] \in {0, 1}
      /\ i.kind = "repeat" => /\ Len(f) = 2 /\ f[1] \notin {0, 1} /\ (f[1] = RepeatLast => m.lengths # <<>>)
                              /\ f[2] < 2^RepeatBits[f[1] - 1] /\ RepeatCount(f) <= LengthsLeft(m)
  <2>1. m.clCodes \in SUBSET (0..4)
    BY <1>2 DEF Meanings
  <2>2. CASE i.kind = "length"
    BY <1>1, <2>1, <2>2 DEF Known, Fits
  <2>3. CASE i.kind = "repeat"
    BY <1>1, <2>1, <2>3 DEF Known, Fits
  <2> QED BY <1>5, <2>2, <2>3
<1>7. PICK sym \in Symbols(1) :
        LET usable == at + 1 <= WholeFields /\ sym \in clCodes
                        /\ ~(sym = RepeatLast /\ lengths = <<>>)
            count == RepeatBase[sym - 1] + Bits(2, RepeatBits[sym - 1])
        IN  \/ /\ usable /\ sym < RepeatLast
               /\ Consume(1)
               /\ lengths' = Append(lengths, sym)
               /\ UNCHANGED <<out, final, pc, hlit, hdist, clCodes, lit, dist, length, distance, answer>>
            \/ /\ usable /\ sym >= RepeatLast
               /\ Consume(2)
               /\ lengths' = lengths \o Repeated(sym, count)
               /\ UNCHANGED <<out, final, pc, hlit, hdist, clCodes, lit, dist, length, distance, answer>>
            \/ ~usable /\ Consume(1) /\ Fail
  BY DEF ReadLength
<1>8. strip' = strip /\ WholeFields' = WholeFields
  BY <1>7, SameStrip DEF Consume
<1>9. CASE e + 1 > WholeFields
  <2>1. Fail
    BY <1>2, <1>7, <1>9
  <2>2. e + Len(i.fields) > WholeFields
    BY <1>1, <1>2, <1>6, <1>9
  <2> QED BY <1>8, <2>1, <2>2, LosesIt DEF Fail
<1>10. CASE e + 1 <= WholeFields
  <2>1. sym = f[1]
    <3>1. 1 \in 1..Len(f) /\ at + 1 = e + 1 /\ at + 1 <= WholeFields /\ 1 \in Nat \ {0}
      BY <1>2, <1>6, <1>10
    <3>2. Symbols(1) = {f[1]}
      BY <1>2, <3>1, FieldWritten
    <3> QED BY <1>7, <3>2
  <2>2. at + 1 <= WholeFields /\ sym \in clCodes
    BY <1>2, <1>3, <1>6, <1>10, <2>1
  <2>3. PICK a : a = After(m, i)
    OBVIOUS
  <2>4. CASE i.kind = "length"
    <3>1. sym < RepeatLast /\ sym # RepeatLast /\ ~(sym >= RepeatLast)
      BY <1>6, <2>1, <2>4 DEF RepeatLast
    <3>2. /\ Consume(1) /\ lengths' = Append(lengths, sym)
          /\ UNCHANGED <<out, final, pc, hlit, hdist, clCodes, lit, dist, length, distance, answer>>
      BY <1>7, <2>2, <3>1, Zenon
    <3>3. a = WithLengths(m, f)
      BY <1>1, <2>3, <2>4 DEF After, Known
    <3>4. Len(f) <= LengthsLeft(m)
      <4>1. LengthsLeft(m) > 0 /\ LengthsLeft(m) \in Int
        <5>1. m.hlit \in Nat /\ m.hdist \in Nat /\ Len(m.lengths) \in Nat
          BY <1>2 DEF Meanings
        <5> QED BY <1>3, <1>4, <5>1 DEF Agrees, LengthsLeft
      <4>2. PICK x \in Int : x = LengthsLeft(m)
        BY <4>1
      <4>3. Len(f) = 1
        BY <1>6, <2>4
      <4> QED BY <4>1, <4>2, <4>3
    <3>5. MoreLengths(a, m, f)
      BY <1>2, <1>4, <3>3, <3>4, WithLengthsIs
    <3>6. lengths' = m.lengths \o f
      <4>1. f = <<f[1]>>
        BY <1>6, <2>4
      <4>2. m.lengths \in Seq(Nat) /\ f[1] \in Nat
        BY <1>2, <1>6 DEF Meanings
      <4>3. Append(m.lengths, f[1]) = m.lengths \o <<f[1]>>
        BY <4>2
      <4> QED BY <1>3, <2>1, <3>2, <4>1, <4>3
    <3>7. Place(a)'
      <4>1. pc' = "lengths"
        BY <3>2 DEF ReadLength
      <4> QED BY <1>3, <3>2, <3>5, <3>6, <4>1 DEF Place, MoreLengths, Agrees
    <3>8. AtItem(a, e + Len(f))'
      <4>1. at' = e + Len(f)
        BY <1>2, <1>6, <2>4, <3>2 DEF Consume
      <4> QED BY <3>2, <3>5, <3>7, <4>1 DEF AtItem, Known, MoreLengths
    <3>9. at' <= WholeFields
      BY <1>2, <1>10, <3>2 DEF Consume
    <3> QED BY <1>1, <1>8, <2>3, <3>8, <3>9 DEF Goes
  <2>5. CASE i.kind = "repeat"
    <3>1. /\ sym >= RepeatLast /\ ~(sym < RepeatLast) /\ sym - 1 \in 1..3
          /\ ~(sym = RepeatLast /\ lengths = <<>>)
      BY <1>3, <1>6, <2>1, <2>5 DEF RepeatLast
    <3>2. PICK count : count = RepeatBase[sym - 1] + Bits(2, RepeatBits[sym - 1])
      OBVIOUS
    <3>3. /\ Consume(2) /\ lengths' = lengths \o Repeated(sym, count)
          /\ UNCHANGED <<out, final, pc, hlit, hdist, clCodes, lit, dist, length, distance, answer>>
      BY <1>7, <2>2, <3>1, <3>2
    <3>4. at' = e + 2 /\ Len(f) = 2
      BY <1>2, <1>6, <2>5, <3>3 DEF Consume
    <3>5. CASE e + 2 > WholeFields
      BY <1>1, <1>2, <1>8, <3>3, <3>4, <3>5, LosesIt
    <3>6. CASE e + 2 <= WholeFields
      <4>1. PICK b \in 0..16 : b = RepeatBits[sym - 1]
        BY <3>1, Tables
      <4>2. Bits(2, b) = f[2]
        <5>1. 2 \in 1..Len(f) /\ at + 2 = e + 2 /\ at + 2 <= WholeFields /\ 2 \in Nat \ {0}
          BY <1>2, <3>4, <3>6
        <5>2. f[2] < 2^b
          BY <1>6, <2>1, <2>5, <4>1
        <5>3. at + 2 <= Len(Fields) /\ Fields[at + 2] = f[2]
          BY <1>2, <5>1, FieldWritten
        <5>4. f[2] % 2^b = f[2]
          BY <5>1, <5>2, SmallBits, ElementOf
        <5> QED BY <5>3, <5>4 DEF Bits
      <4>3. count = RepeatCount(f)
        BY <2>1, <3>2, <4>1, <4>2 DEF RepeatCount
      <4>4. PICK v \in Nat : v = IF f[1] = RepeatLast THEN m.lengths[Len(m.lengths)] ELSE 0
        <5>1. m.lengths \in Seq(Nat)
          BY <1>2 DEF Meanings
        <5> QED BY <1>6, <2>5, <5>1
      <4>5. PICK new : new = [k \in 1..RepeatCount(f) |-> v]
        OBVIOUS
      <4>6. Repeated(sym, count) = new
        BY <1>3, <2>1, <4>3, <4>4, <4>5 DEF Repeated
      <4>7. a = WithLengths(m, new)
        BY <1>1, <2>3, <2>5, <4>4, <4>5 DEF After, Known
      <4>8. RepeatCount(f) \in Nat
        <5>1. RepeatBase[sym - 1] \in Nat
          BY <3>1, Tables
        <5>2. f[2] \in Nat
          <6>1. 2 \in 1..Len(f)
            BY <3>4
          <6> QED BY <6>1, ElementOf
        <5> QED BY <2>1, <5>1, <5>2 DEF RepeatCount
      <4>9. new \in Seq(Nat) /\ Len(new) = RepeatCount(f)
        BY <4>5, <4>8
      <4>10. MoreLengths(a, m, new)
        BY <1>2, <1>4, <1>6, <2>5, <4>7, <4>9, WithLengthsIs
      <4>11. lengths' = m.lengths \o new
        BY <1>3, <3>3, <4>6
      <4>12. Place(a)'
        <5>1. pc' = "lengths"
          BY <3>3 DEF ReadLength
        <5> QED BY <1>3, <3>3, <4>10, <4>11, <5>1 DEF Place, MoreLengths, Agrees
      <4>13. AtItem(a, e + Len(f))'
        BY <3>3, <3>4, <4>10, <4>12 DEF AtItem, Known, MoreLengths
      <4> QED BY <1>1, <1>8, <2>3, <3>4, <3>6, <4>13 DEF Goes
    <3> QED BY <1>2, <3>5, <3>6
  <2> QED BY <1>5, <2>4, <2>5
<1> QED BY <1>2, <1>9, <1>10

\* The codes are those that the lengths give.
LEMMA SplitLengthsGoes ==
  ASSUME NEW m, NEW i, NEW e, Known(m, i, e), SplitLengths
  PROVE  Goes(m, i, e)'
<1>1. /\ Agrees(m) /\ lengths = m.lengths /\ hlit = m.hlit /\ hdist = m.hdist
      /\ m.mode \in {"lengths", "symbols"} /\ m \in Meanings
  BY DEF Known, AtItem, Place, SplitLengths
<1>2. PICK x \in Nat, y \in Nat, z \in Nat : x = m.hlit /\ y = m.hdist /\ z = Len(m.lengths)
  <2>1. m.hlit \in Nat /\ m.hdist \in Nat /\ Len(m.lengths) \in Nat
    BY <1>1 DEF Meanings
  <2> QED BY <2>1
<1>3. z >= x + y
  BY <1>1, <1>2 DEF SplitLengths
<1>4. m.mode = "symbols"
  <2>1. ~(LengthsLeft(m) > 0)
    BY <1>2, <1>3 DEF LengthsLeft
  <2> QED BY <1>1, <2>1 DEF Agrees
<1>5. z = x + y
  BY <1>1, <1>2, <1>4 DEF Agrees, LengthsLeft
<1>6. ExactlyAll(Len(lengths))
  BY <1>1, <1>2, <1>5 DEF ExactlyAll
<1>7. /\ lit' = {s \in 0..(hlit - 1) : lengths[s + 1] # 0}
      /\ dist' = {s \in 0..(Len(lengths) - hlit - 1) : lengths[hlit + s + 1] # 0}
      /\ pc' = "symbols"
      /\ UNCHANGED <<out, final, at, strip>>
  BY <1>6 DEF SplitLengths
<1>8. lit' = m.lit
  BY <1>1, <1>4, <1>7 DEF Agrees
<1>9. dist' = m.dist
  <2>1. Len(lengths) - hlit - 1 = m.hdist - 1
    BY <1>1, <1>2, <1>5
  <2> QED BY <1>1, <1>4, <1>7, <2>1 DEF Agrees
<1>10. Place(m)'
  BY <1>4, <1>7, <1>8, <1>9 DEF Place
<1>11. AtItem(m, e)'
  BY <1>7, <1>10 DEF AtItem, Known
<1> QED BY <1>7, <1>11, SameStrip DEF Goes, In, Known

-----------------------------------------------------------------------------
(* From a symbol.                                                          *)

\* A literal, an end or the length of a match is read as it was written.
LEMMA ReadSymbolGoes ==
  ASSUME NEW m, NEW i, NEW e, Known(m, i, e), ReadSymbol
  PROVE  Goes(m, i, e)'
<1>1. PICK f \in Seq(Nat) : f = i.fields
  BY DEF Known, Items
<1>2. /\ at = e /\ e \in Nat /\ WholeFields \in Int /\ Reader /\ at <= WholeFields
      /\ answer = "none" /\ Reads(f, e) /\ pc = "symbols"
      /\ m \in Meanings /\ i \in Items
  BY <1>1, FieldsType DEF Known, IInv, Reader, AtItem, ReadSymbol, Answer, TypeOK
<1>3. /\ m.mode = "symbols" /\ lit = m.lit /\ dist = m.dist /\ out = Earlier \o m.bytes /\ final = m.final
  BY DEF Known, AtItem, Place, ReadSymbol
<1>4. i.kind \in {"literal", "match", "end"}
  BY <1>2, <1>3 DEF Known, Fits, Items, Kinds
<1>5. /\ Len(f) >= 1 /\ Len(f) \in Nat /\ f[1] \in m.lit
      /\ i.kind = "literal" => Len(f) = 1 /\ f[1] < EndOfBlock
      /\ i.kind = "end" => f = <<EndOfBlock>>
      /\ i.kind = "match" => LengthSymbol(f) \in 1..Len(LenBase)
  <2>1. CASE i.kind = "literal"
    BY <1>1, <2>1 DEF Known, Fits
  <2>2. CASE i.kind = "match"
    BY <1>1, <2>2 DEF Known, Fits, LengthWritten
  <2>3. CASE i.kind = "end"
    BY <1>1, <2>3 DEF Known, Fits
  <2> QED BY <1>4, <2>1, <2>2, <2>3
<1>6. Consume(1) /\ WholeFields' = WholeFields /\ at' = e + 1
  BY <1>2, SameStrip DEF ReadSymbol, Consume
<1>7. PICK sym \in Symbols(1) : LiteralOrEnd(sym) \/ BeginMatch(sym) \/ BadSymbol(sym)
  BY DEF ReadSymbol
<1>8. CASE e + 1 > WholeFields
  <2>1. BadSymbol(sym)
    BY <1>2, <1>7, <1>8 DEF LiteralOrEnd, BeginMatch, Readable
  <2>2. e + Len(i.fields) > WholeFields
    BY <1>1, <1>2, <1>5, <1>8
  <2> QED BY <1>6, <2>1, <2>2, LosesIt DEF BadSymbol, Fail
<1>9. CASE e + 1 <= WholeFields
  <2>1. sym = f[1]
    <3>1. 1 \in 1..Len(f) /\ at + 1 = e + 1 /\ at + 1 <= WholeFields /\ 1 \in Nat \ {0}
      BY <1>2, <1>5, <1>9
    <3>2. Symbols(1) = {f[1]}
      BY <1>2, <3>1, FieldWritten
    <3> QED BY <1>7, <3>2
  <2>2. Readable(sym) /\ sym \in Nat
    BY <1>2, <1>3, <1>5, <1>9, <2>1 DEF Readable, Meanings
  <2>3. PICK a : a = After(m, i)
    OBVIOUS
  <2>4. EndOfBlock \in Nat /\ MaxLit \in Nat /\ MaxLit = EndOfBlock + 1 + Len(LenBase) /\ Len(LenBase) \in Nat
    BY Sizes DEF EndOfBlock
  <2>5. CASE i.kind = "literal"
    <3>1. sym < EndOfBlock /\ Len(f) = 1
      BY <1>5, <2>1, <2>5
    <3>2. LiteralOrEnd(sym)
      BY <1>7, <2>2, <2>4, <3>1 DEF BeginMatch, BadSymbol
    <3>3. out' = Append(out, sym) /\ UNCHANGED <<pc, final, lit, dist>>
      BY <2>2, <2>4, <3>1, <3>2 DEF LiteralOrEnd
    <3>4. a = [m EXCEPT !.bytes = @ \o f]
      BY <1>1, <2>3, <2>5 DEF After, Known
    <3>5. a.mode = "symbols" /\ a.lit = lit /\ a.dist = dist /\ a.final = final /\ a.bytes = m.bytes \o f
      BY <1>2, <1>3, <3>4 DEF Meanings
    <3>6. out' = Earlier \o (m.bytes \o f)
      <4>1. f = <<sym>>
        BY <2>1, <3>1
      <4>2. m.bytes \in Seq(Nat) /\ Earlier \in Seq(Nat)
        BY <1>2, TypesAssumption DEF Meanings
      <4>3. Associates(Earlier, m.bytes, f)
        BY <4>2, Associative
      <4>4. Append(out, sym) = out \o f
        <5>1. out \in Seq(Nat)
          BY <1>3, <4>2, ConcatType
        <5> QED BY <2>2, <4>1, <5>1
      <4> QED BY <1>3, <3>3, <4>3, <4>4 DEF Associates
    <3>7. AtItem(a, e + Len(f))'
      BY <1>2, <1>6, <3>1, <3>3, <3>5, <3>6 DEF AtItem, Place
    <3> QED BY <1>1, <1>6, <1>9, <2>3, <3>7 DEF Goes
  <2>6. CASE i.kind = "end"
    <3>1. f = <<EndOfBlock>> /\ sym = EndOfBlock /\ Len(f) = 1
      BY <1>5, <2>1, <2>6
    <3>2. LiteralOrEnd(sym)
      BY <1>7, <2>2, <2>4, <3>1 DEF BeginMatch, BadSymbol
    <3>3. EndBlock(final) /\ UNCHANGED <<out, final, lit, dist>>
      BY <2>4, <3>1, <3>2 DEF LiteralOrEnd
    <3>4. a = [m EXCEPT !.mode = AfterBlock(m.final)]
      BY <1>1, <2>3, <2>6 DEF After, Known
    <3>5. a.mode = AfterBlock(final) /\ a.final = final /\ a.bytes = m.bytes
      BY <1>2, <1>3, <3>4 DEF Meanings
    <3>6. final \in BOOLEAN
      BY <1>2, <1>3 DEF Meanings
    <3>7. (final /\ pc' = "done" /\ answer' = "accepted") \/ (~final /\ pc' = "header")
      BY <3>3, <3>6 DEF EndBlock
    <3>8. Place(a)'
      BY <3>5, <3>6, <3>7 DEF Place, AfterBlock
    <3>9. AtItem(a, e + Len(f))'
      BY <1>2, <1>3, <1>6, <3>1, <3>3, <3>5, <3>8 DEF AtItem
    <3> QED BY <1>1, <1>6, <1>9, <2>3, <3>9 DEF Goes
  <2>7. CASE i.kind = "match"
    <3>1. LengthSymbol(f) \in 1..Len(LenBase) /\ LengthSymbol(f) = sym - EndOfBlock
      BY <1>5, <2>1, <2>7 DEF LengthSymbol
    <3>2. sym > EndOfBlock /\ sym < MaxLit /\ sym # EndOfBlock /\ ~(sym <= EndOfBlock)
      BY <2>2, <2>4, <3>1
    <3>3. BeginMatch(sym)
      BY <1>7, <2>2, <3>2 DEF LiteralOrEnd, BadSymbol
    <3>4. length' = sym - EndOfBlock /\ pc' = "match" /\ UNCHANGED <<out, final, lit, dist>>
      BY <3>3 DEF BeginMatch
    <3>5. InMatch(m, e, f)'
      BY <1>2, <1>3, <1>6, <3>1, <3>4 DEF InMatch
    <3> QED BY <1>1, <1>6, <1>9, <2>7, <3>5 DEF Goes, In
  <2> QED BY <1>4, <2>5, <2>6, <2>7
<1> QED BY <1>2, <1>8, <1>9

\* From an item, one step goes on with it, comes to its end, or is lost.
LEMMA ItemGoes ==
  ASSUME NEW m, NEW i, NEW e, Known(m, i, e), Next
  PROVE  Goes(m, i, e)'
<1>1. pc \in {"header", "lengths", "symbols"}
  <2>1. i \in Items /\ Fits(m, i)
    BY DEF Known
  <2>2. m.mode \in {"header", "lengths", "symbols"}
    BY <2>1, FitsWhere
  <2> QED BY <2>2 DEF Known, AtItem, Place
<1>2. ~ReadMatch /\ ~CopyByte /\ ~EndMatch
  BY <1>1 DEF ReadMatch, CopyByte, EndMatch
<1> QED BY <1>2, BadHeaderGoes, StoredGoes, FixedTreesGoes, DynamicTreesGoes, ReadLengthGoes,
           SplitLengthsGoes, ReadSymbolGoes DEF Next

-----------------------------------------------------------------------------
(* Within a match.                                                         *)

\* What the decoder knows within a match.
KnownMatch(m, i, e) ==
  /\ IInv /\ m \in Meanings /\ i \in Items /\ e \in Nat /\ Fits(m, i) /\ Reads(i.fields, e)
  /\ at <= WholeFields /\ i.kind = "match"

\* To append is to concatenate.
LEMMA AppendIs ==
  ASSUME NEW s \in Seq(Nat), NEW v \in Nat
  PROVE  Append(s, v) \in Seq(Nat) /\ Append(s, v) = s \o <<v>>
OBVIOUS

\* A concatenation, and where its elements come from.
LEMMA ConcatIs ==
  ASSUME NEW s \in Seq(Nat), NEW t \in Seq(Nat), NEW w, w = s \o t
  PROVE  /\ w \in Seq(Nat) /\ Len(w) = Len(s) + Len(t)
         /\ \A k \in 1..Len(s) : w[k] = s[k]
         /\ \A k \in 1..Len(t) : w[Len(s) + k] = t[k]
OBVIOUS

\* Nothing is repeated no times.
LEMMA RepeatNone ==
  ASSUME NEW b \in Seq(Nat), NEW D
  PROVE  b \o Repetition(b, D, 0) = b
<1>1. Repetition(b, D, 0) = <<>>
  BY DEF Repetition
<1> QED BY <1>1

\* The next byte of a repetition w is the one so far back from where it goes.
RepeatsNext(b, D, n, w) ==
  /\ w \in Seq(Nat) /\ D <= Len(w)
  /\ b \o Repetition(b, D, n + 1) = Append(w, w[Len(w) - D + 1])

\* It does where the distance stays within the bytes before.
LEMMA RepeatByte ==
  ASSUME NEW b \in Seq(Nat), NEW D \in Nat \ {0}, D <= Len(b), NEW n \in Nat,
         NEW w, w = b \o Repetition(b, D, n)
  PROVE  RepeatsNext(b, D, n, w)
<1>1. PICK r \in Seq(Nat) : r = Repetition(b, D, n) /\ Len(r) = n
  <2>1. Repetition(b, D, n) \in Seq(Nat) /\ Len(Repetition(b, D, n)) = n
    BY RepetitionType
  <2> QED BY <2>1
<1>2. PICK q \in Seq(Nat) : q = Repetition(b, D, n + 1) /\ Len(q) = n + 1
  <2>1. n + 1 \in Nat
    OBVIOUS
  <2>2. Repetition(b, D, n + 1) \in Seq(Nat) /\ Len(Repetition(b, D, n + 1)) = n + 1
    BY <2>1, RepetitionType
  <2> QED BY <2>2
<1>3. PICK B \in Nat : B = Len(b)
  OBVIOUS
<1>4. w = b \o r /\ w \in Seq(Nat) /\ Len(w) = B + n
  <2>1. w = b \o r
    BY <1>1
  <2>2. w \in Seq(Nat) /\ Len(w) = Len(b) + Len(r)
    BY <2>1, ConcatIs
  <2> QED BY <1>1, <1>3, <2>1, <2>2
<1>5. PICK x \in Nat : x = n % D /\ x < D
  BY DivMod
<1>6. PICK v \in Nat : v = b[B - D + 1 + x]
  <2>1. B - D + 1 + x \in 1..Len(b)
    BY <1>3, <1>5
  <2> QED BY <2>1, ElementOf
<1>7. w[Len(w) - D + 1] = v
  <2>1. CASE n < D
    <3>1. x = n
      <4>1. D * 0 <= n /\ n < D * 0 + D /\ n - D * 0 = n
        BY <2>1
      <4> QED BY <1>5, <4>1, DivUnique, 0 \in Nat
    <3>2. Len(w) - D + 1 = B - D + 1 + x /\ B - D + 1 + x \in 1..B
      <4>1. PICK l \in Nat : l = Len(w) /\ l = B + n
        BY <1>4
      <4>2. D <= B
        BY <1>3
      <4>3. l - D + 1 = B - D + 1 + x /\ B - D + 1 + x \in 1..B
        <5>1. x < D
          BY <1>5
        <5> QED BY <3>1, <4>1, <4>2, <5>1
      <4> QED BY <4>1, <4>3
    <3>3. w[B - D + 1 + x] = b[B - D + 1 + x]
      BY <1>1, <1>3, <1>4, <3>2, ConcatIs
    <3> QED BY <1>6, <3>2, <3>3
  <2>2. CASE n >= D
    <3>1. (n - D) % D = x
      BY <1>5, <2>2, RemainderBelow
    <3>2. PICK k \in 1..n : k = n - D + 1
      BY <2>2
    <3>3. k - 1 = n - D
      BY <3>2
    <3>4. r[k] = b[Len(b) - D + 1 + ((k - 1) % D)]
      BY <1>1, <3>2 DEF Repetition
    <3>5. r[k] = v
      BY <1>3, <1>6, <3>1, <3>3, <3>4
    <3>6. Len(w) - D + 1 = B + k
      BY <1>4, <3>2
    <3>7. w[B + k] = r[k]
      <4>1. w = b \o r
        BY <1>4
      <4>2. \A y \in 1..Len(r) : w[Len(b) + y] = r[y]
        BY <4>1, ConcatIs
      <4> QED BY <1>1, <1>3, <3>2, <4>2
    <3> QED BY <3>5, <3>6, <3>7
  <2> QED BY <2>1, <2>2
<1>8. q = Append(r, v)
  <2>1. ASSUME NEW k \in 1..n PROVE q[k] = r[k]
    <3>1. k \in 1..(n + 1)
      OBVIOUS
    <3> QED BY <1>1, <1>2, <3>1 DEF Repetition
  <2>2. q[n + 1] = v
    <3>1. n + 1 \in 1..(n + 1) /\ (n + 1) - 1 = n
      OBVIOUS
    <3>2. q[n + 1] = b[Len(b) - D + 1 + (((n + 1) - 1) % D)]
      BY <1>2, <3>1 DEF Repetition
    <3> QED BY <1>3, <1>5, <1>6, <3>1, <3>2
  <2>3. PICK p \in Seq(Nat) : p = Append(r, v)
    <3>1. Append(r, v) \in Seq(Nat)
      BY AppendIs
    <3> QED BY <3>1
  <2>4. Len(p) = n + 1 /\ p[n + 1] = v /\ \A k \in 1..n : p[k] = r[k]
    BY <1>1, <2>3
  <2>5. \A k \in 1..(n + 1) : p[k] = q[k]
    <3>1. \A k \in 1..(n + 1) : k = n + 1 \/ k \in 1..n
      OBVIOUS
    <3> QED BY <2>1, <2>2, <2>4, <3>1
  <2>6. p = q
    BY <1>2, <2>4, <2>5
  <2> QED BY <2>3, <2>6
<1>9. b \o q = Append(w, v)
  <2>1. b \o Append(r, v) = Append(b \o r, v)
    <3>1. Associates(b, r, <<v>>)
      <4>1. <<v>> \in Seq(Nat)
        OBVIOUS
      <4> QED BY <4>1, Associative
    <3>2. Append(r, v) = r \o <<v>> /\ Append(w, v) = w \o <<v>>
      BY <1>4, AppendIs
    <3> QED BY <1>4, <3>1, <3>2 DEF Associates
  <2> QED BY <1>4, <1>8, <2>1
<1>10. D <= Len(w)
  BY <1>3, <1>4
<1> QED BY <1>2, <1>4, <1>7, <1>9, <1>10 DEF RepeatsNext

\* A copied byte is the next one of the repetition.
LEMMA CopyByteGoes ==
  ASSUME NEW m, NEW i, NEW e, KnownMatch(m, i, e), InCopy(m, e, i.fields), CopyByte
  PROVE  InCopy(m, e, i.fields)'
<1>1. PICK f \in Seq(Nat) : f = i.fields
  BY DEF KnownMatch, Items
<1>2. PICK L \in Nat, D \in Nat \ {0} : MatchFits(f, m.bytes, L, D)
  BY <1>1, MatchThatFits DEF KnownMatch
<1>3. MatchLength(f) = L /\ MatchDistance(f) = D /\ D <= Len(m.bytes)
  BY <1>2 DEF MatchFits
<1>4. m.bytes \in Seq(Nat) /\ Earlier \in Seq(Nat)
  BY TypesAssumption DEF KnownMatch, Meanings
<1>5. /\ length \in Nat /\ length > 0 /\ length <= L /\ distance = D
      /\ out = Earlier \o (m.bytes \o Repetition(m.bytes, D, L - length))
  BY <1>1, <1>3 DEF InCopy, CopyByte, KnownMatch, IInv, TypeOK
<1>6. PICK n \in Nat : n = L - length
  BY <1>5
<1>7. PICK w : w = m.bytes \o Repetition(m.bytes, D, n)
  OBVIOUS
<1>8. /\ w \in Seq(Nat) /\ D <= Len(w)
      /\ m.bytes \o Repetition(m.bytes, D, n + 1) = Append(w, w[Len(w) - D + 1])
  <2>1. PICK b \in Seq(Nat) : b = m.bytes
    BY <1>4
  <2>2. D <= Len(b) /\ w = b \o Repetition(b, D, n)
    BY <1>3, <1>7, <2>1
  <2>3. w \in Seq(Nat) /\ D <= Len(w) /\ b \o Repetition(b, D, n + 1) = Append(w, w[Len(w) - D + 1])
    <3>1. RepeatsNext(b, D, n, w)
      BY <2>2, RepeatByte
    <3> QED BY <3>1 DEF RepeatsNext
  <2> QED BY <2>1, <2>3
<1>9. out = Earlier \o w
  BY <1>5, <1>6, <1>7
<1>10. PICK k \in 1..Len(w) : k = Len(w) - D + 1
  <2>1. Len(w) - D + 1 \in 1..Len(w)
    BY <1>8
  <2> QED BY <2>1
<1>11. Copied = w[k]
  <2>1. Len(out) - D + 1 = Len(Earlier) + k
    BY <1>4, <1>8, <1>9, <1>10
  <2>2. (Earlier \o w)[Len(Earlier) + k] = w[k]
    BY <1>4, <1>8, <1>10
  <2> QED BY <1>5, <1>9, <2>1, <2>2 DEF Copied
<1>12. PICK v \in Nat : v = w[k]
  BY <1>8, <1>10, ElementOf
<1>13. out' = Earlier \o Append(w, v)
  <2>1. out' = Append(Earlier \o w, v)
    BY <1>9, <1>11, <1>12 DEF CopyByte
  <2>2. Associates(Earlier, w, <<v>>)
    <3>1. <<v>> \in Seq(Nat)
      OBVIOUS
    <3> QED BY <1>4, <1>8, <3>1, Associative
  <2>3. PICK u \in Seq(Nat) : u = Earlier \o w
    <3>1. Earlier \o w \in Seq(Nat)
      BY <1>4, <1>8, ConcatType
    <3> QED BY <3>1
  <2>4. Append(w, v) = w \o <<v>> /\ Append(u, v) = u \o <<v>>
    BY <1>8, AppendIs
  <2> QED BY <2>1, <2>2, <2>3, <2>4 DEF Associates
<1>14. L - length' = n + 1 /\ length' <= L
  BY <1>5, <1>6 DEF CopyByte
<1>15. out' = Earlier \o (m.bytes \o Repetition(m.bytes, D, L - length'))
  BY <1>8, <1>10, <1>12, <1>13, <1>14
<1>16. UNCHANGED <<at, final, pc, lit, dist, distance>>
  BY DEF CopyByte
<1> QED BY <1>1, <1>3, <1>14, <1>15, <1>16 DEF InCopy

\* With all its bytes the match is over.
LEMMA EndMatchGoes ==
  ASSUME NEW m, NEW i, NEW e, KnownMatch(m, i, e), InCopy(m, e, i.fields), EndMatch
  PROVE  AtItem(After(m, i), e + Len(i.fields))'
<1>1. PICK f \in Seq(Nat) : f = i.fields
  BY DEF KnownMatch, Items
<1>2. PICK L \in Nat, D \in Nat \ {0} : MatchFits(f, m.bytes, L, D)
  BY <1>1, MatchThatFits DEF KnownMatch
<1>3. MatchLength(f) = L /\ MatchDistance(f) = D
  BY <1>2 DEF MatchFits
<1>4. PICK a : a = After(m, i)
  OBVIOUS
<1>5. /\ a.mode = m.mode /\ a.final = m.final /\ a.lit = m.lit /\ a.dist = m.dist
      /\ a.bytes = m.bytes \o Repetition(m.bytes, D, L)
  <2>1. a = [m EXCEPT !.bytes = @ \o Repetition(@, MatchDistance(f), MatchLength(f))]
    BY <1>1, <1>4 DEF After, KnownMatch
  <2>2. m \in Meanings
    BY DEF KnownMatch
  <2> QED BY <1>3, <2>1, <2>2 DEF Meanings
<1>6. /\ m.mode = "symbols" /\ lit = m.lit /\ dist = m.dist /\ at = e + Len(f) /\ final = m.final
      /\ out = Earlier \o (m.bytes \o Repetition(m.bytes, D, L))
  <2>1. length = 0 /\ L - length = L
    BY DEF EndMatch
  <2> QED BY <1>1, <1>3, <2>1 DEF InCopy
<1>7. pc' = "symbols" /\ UNCHANGED <<at, out, final, lit, dist>>
  BY DEF EndMatch
<1>8. Place(a)'
  BY <1>5, <1>6, <1>7 DEF Place
<1>9. AtItem(a, e + Len(f))'
  BY <1>5, <1>6, <1>7, <1>8 DEF AtItem
<1> QED BY <1>1, <1>4, <1>9

\* The distance of a match is read as it was written.
LEMMA ReadMatchGoes ==
  ASSUME NEW m, NEW i, NEW e, KnownMatch(m, i, e), InMatch(m, e, i.fields), ReadMatch
  PROVE  Goes(m, i, e)'
<1>1. PICK f \in Seq(Nat) : f = i.fields
  BY DEF KnownMatch, Items
<1>2. PICK L \in Nat, D \in Nat \ {0} : MatchFits(f, m.bytes, L, D)
  BY <1>1, MatchThatFits DEF KnownMatch
<1>3. PICK s \in 1..Len(LenBase) : s = LengthSymbol(f)
  BY <1>2 DEF MatchFits
<1>4. PICK t \in 0..(Len(DistBase) - 1) : t = DistanceSymbol(f)
  BY <1>2 DEF MatchFits
<1>5. PICK x \in 0..16, y \in 0..16 : x = LenExtra[s] /\ y = DistExtra[t + 1]
  <2>1. t + 1 \in 1..Len(DistBase)
    BY Sizes
  <2> QED BY <2>1, Tables
<1>6. PICK a \in 0..1, b \in 0..1 : /\ a = (IF x > 0 THEN 1 ELSE 0) /\ b = (IF y > 0 THEN 1 ELSE 0)
  OBVIOUS
<1>7. /\ DistanceAt(f) = 2 + a /\ Len(f) = 2 + a + b /\ t = f[2 + a] /\ t \in m.dist
      /\ x > 0 => f[2] < 2^x
      /\ y > 0 => f[Len(f)] < 2^y
  <2>1. DistanceAt(f) = 2 + a
    BY <1>3, <1>5, <1>6 DEF DistanceAt, FieldFor
  <2>2. LengthWritten(f) /\ DistanceWritten(f) /\ DistanceSymbol(f) \in m.dist
    BY <1>1 DEF KnownMatch, Fits
  <2>3. Len(f) = 2 + a + b
    BY <1>4, <1>5, <1>6, <2>1, <2>2 DEF DistanceWritten, FieldFor
  <2>4. t = f[2 + a]
    BY <1>4, <2>1 DEF DistanceSymbol
  <2>5. x > 0 => f[2] < 2^x
    BY <1>3, <1>5, <2>2 DEF LengthWritten
  <2>6. y > 0 => f[Len(f)] < 2^y
    BY <1>4, <1>5, <2>2 DEF DistanceWritten
  <2> QED BY <1>4, <2>1, <2>2, <2>3, <2>4, <2>5, <2>6
<1>8. /\ L = LenBase[s] + (IF x > 0 THEN f[2] ELSE 0)
      /\ D = DistBase[t + 1] + (IF y > 0 THEN f[Len(f)] ELSE 0)
      /\ D <= Len(m.bytes)
  BY <1>2, <1>3, <1>4, <1>5 DEF MatchFits, MatchLength, MatchDistance
<1>9. /\ at = e + 1 /\ e \in Nat /\ WholeFields \in Int /\ Reader /\ at <= WholeFields
      /\ answer = "none" /\ Reads(f, e) /\ pc = "match" /\ length = s
      /\ m.mode = "symbols" /\ lit = m.lit /\ dist = m.dist /\ final = m.final
      /\ out = Earlier \o m.bytes /\ m.bytes \in Seq(Nat) /\ Earlier \in Seq(Nat)
  BY <1>1, <1>3, FieldsType, TypesAssumption DEF KnownMatch, IInv, Reader, InMatch, Answer, TypeOK, Meanings
<1>10. PICK d \in Symbols(a + 1) :
         \/ /\ d \in dist /\ d < Len(DistBase)
            /\ LET c == IF DistExtra[d + 1] > 0 THEN 1 ELSE 0
                   back == DistBase[d + 1] + Bits(a + 2, DistExtra[d + 1])
               IN  /\ Consume(a + 1 + c)
                   /\ \/ /\ back <= Len(out)
                         /\ pc' = "copy" /\ distance' = back
                         /\ length' = LenBase[length] + Bits(1, LenExtra[length])
                         /\ UNCHANGED <<out, final, trees, lit, dist, answer>>
                      \/ back > Len(out) /\ Fail
         \/ ~(d \in dist /\ d < Len(DistBase)) /\ Consume(a + 1) /\ Fail
  <2>1. a = IF LenExtra[length] > 0 THEN 1 ELSE 0
    BY <1>5, <1>6, <1>9
  <2> QED BY <2>1, Zenon DEF ReadMatch
<1>11. answer' # "accepted" /\ strip' = strip /\ at' \in {e + a + 2, e + a + 3}
  <2>1. answer' \in {answer, "failed"} /\ \E c \in 0..1 : Consume(a + 1 + c)
    <3>1. \/ answer' \in {answer, "failed"} /\ Consume(a + 1 + (IF DistExtra[d + 1] > 0 THEN 1 ELSE 0))
          \/ answer' \in {answer, "failed"} /\ Consume(a + 1)
      BY <1>10 DEF Fail
    <3>2. a + 1 = a + 1 + 0
      OBVIOUS
    <3> QED BY <3>1, <3>2
  <2>2. ASSUME NEW c \in 0..1, Consume(a + 1 + c) PROVE strip' = strip /\ at' \in {e + a + 2, e + a + 3}
    BY <1>9, <2>2 DEF Consume
  <2> QED BY <1>9, <2>1, <2>2
<1>12. WholeFields' = WholeFields
  BY <1>11, SameStrip
<1>13. CASE e + 2 + a > WholeFields
  <2>1. at' > WholeFields
    BY <1>9, <1>11, <1>13
  <2>2. e + Len(i.fields) > WholeFields
    <3>1. Len(f) = 2 + a + b
      BY <1>7
    <3>2. e + (2 + a + b) > WholeFields
      BY <1>9, <1>13
    <3> QED BY <1>1, <3>1, <3>2
  <2> QED BY <1>11, <1>12, <2>1, <2>2 DEF Goes, Lost
<1>14. CASE e + 2 + a <= WholeFields
  <2>1. d = t
    <3>1. /\ 2 + a \in 1..Len(f) /\ at + (a + 1) = e + (2 + a) /\ at + (a + 1) <= WholeFields
          /\ a + 1 \in Nat \ {0}
      BY <1>7, <1>9, <1>14
    <3>2. Symbols(a + 1) = {f[2 + a]}
      BY <1>9, <3>1, FieldWritten
    <3> QED BY <1>7, <1>10, <3>2
  <2>2. d \in dist /\ d < Len(DistBase)
    <3>1. t \in dist
      BY <1>7, <1>9
    <3>2. t < Len(DistBase)
      BY Sizes
    <3> QED BY <2>1, <3>1, <3>2
  <2>3. /\ Consume(a + 1 + b)
        /\ \/ /\ DistBase[t + 1] + Bits(a + 2, y) <= Len(out)
              /\ pc' = "copy" /\ distance' = DistBase[t + 1] + Bits(a + 2, y)
              /\ length' = LenBase[s] + Bits(1, x)
              /\ UNCHANGED <<out, final, lit, dist>>
           \/ DistBase[t + 1] + Bits(a + 2, y) > Len(out) /\ Fail
    BY <1>5, <1>6, <1>9, <1>10, <2>1, <2>2, Zenon
  <2>4. at' = e + Len(f)
    BY <1>7, <1>9, <2>3 DEF Consume
  <2>5. CASE e + Len(f) > WholeFields
    BY <1>1, <1>11, <1>12, <2>4, <2>5 DEF Goes, Lost
  <2>6. CASE e + Len(f) <= WholeFields
    <3>1. Bits(1, x) = IF x > 0 THEN f[2] ELSE 0
      <4>1. CASE x > 0
        <5>1. Len(f) = 2 + a + b /\ f[2] < 2^x
          BY <1>7, <4>1
        <5>2. 2 \in 1..Len(f) /\ at + 1 = e + 2 /\ at + 1 <= WholeFields /\ 1 \in Nat \ {0}
          BY <1>9, <1>14, <5>1
        <5>3. Reader /\ Reads(f, e) /\ e \in Nat
          BY <1>9
        <5>4. at + 1 <= Len(Fields) /\ Fields[at + 1] = f[2]
          BY <5>2, <5>3, FieldWritten
        <5>5. f[2] \in Nat
          BY <5>2, ElementOf
        <5>6. f[2] % 2^x = f[2]
          BY <5>1, <5>5, SmallBits
        <5>7. Bits(1, x) = f[2]
          BY <5>4, <5>6 DEF Bits
        <5> QED BY <4>1, <5>7
      <4>2. CASE ~(x > 0)
        <5>1. x = 0 /\ 1 \in Nat \ {0}
          BY <4>2
        <5> QED BY <1>9, <4>2, <5>1, NoBits
      <4> QED BY <4>1, <4>2
    <3>2. Bits(a + 2, y) = IF y > 0 THEN f[Len(f)] ELSE 0
      <4>1. CASE y > 0
        <5>1. PICK l \in Nat : l = Len(f) /\ l = 2 + a + 1 /\ f[l] < 2^y
          <6>1. Len(f) = 2 + a + b /\ b = 1 /\ f[Len(f)] < 2^y
            BY <1>6, <1>7, <4>1
          <6> QED BY <6>1
        <5>2. l \in 1..Len(f) /\ at + (a + 2) = e + l /\ at + (a + 2) <= WholeFields /\ a + 2 \in Nat \ {0}
          BY <1>9, <2>6, <5>1
        <5>3. Reader /\ Reads(f, e) /\ e \in Nat
          BY <1>9
        <5>4. at + (a + 2) <= Len(Fields) /\ Fields[at + (a + 2)] = f[l]
          BY <5>2, <5>3, FieldWritten
        <5>5. f[l] \in Nat
          BY <5>2, ElementOf
        <5>6. f[l] % 2^y = f[l]
          BY <5>1, <5>5, SmallBits
        <5>7. Bits(a + 2, y) = f[l]
          BY <5>4, <5>6 DEF Bits
        <5> QED BY <4>1, <5>1, <5>7
      <4>2. CASE ~(y > 0)
        <5>1. y = 0 /\ a + 2 \in Nat \ {0}
          BY <4>2
        <5> QED BY <1>9, <4>2, <5>1, NoBits
      <4> QED BY <4>1, <4>2
    <3>3. DistBase[t + 1] + Bits(a + 2, y) = D /\ LenBase[s] + Bits(1, x) = L
      BY <1>8, <3>1, <3>2
    <3>4. D <= Len(out)
      <4>1. Len(out) = Len(Earlier) + Len(m.bytes)
        BY <1>9
      <4>2. Len(Earlier) \in Nat /\ Len(m.bytes) \in Nat
        BY <1>9
      <4> QED BY <1>8, <4>1, <4>2
    <3>5. Len(out) \in Nat
      BY <1>9, ConcatType
    <3>6. pc' = "copy" /\ distance' = D /\ length' = L /\ UNCHANGED <<out, final, lit, dist>>
      BY <2>3, <3>3, <3>4, <3>5
    <3>7. out' = Earlier \o (m.bytes \o Repetition(m.bytes, D, L - length'))
      <4>1. L - length' = 0
        BY <3>6
      <4>2. m.bytes \o Repetition(m.bytes, D, 0) = m.bytes
        BY <1>9, RepeatNone
      <4> QED BY <1>9, <3>6, <4>1, <4>2
    <3>8. MatchLength(f) = L /\ MatchDistance(f) = D
      BY <1>2 DEF MatchFits
    <3>9. InCopy(m, e, f)'
      BY <1>9, <2>4, <3>6, <3>7, <3>8 DEF InCopy
    <3> QED BY <1>1, <1>12, <2>4, <2>6, <3>9 DEF Goes, In, KnownMatch
  <2> QED BY <1>7, <1>9, <2>5, <2>6
<1> QED BY <1>9, <1>13, <1>14

\* Within an item, one step goes on with it, comes to its end, or is lost.
LEMMA MatchGoes ==
  ASSUME NEW m, NEW i, NEW e, KnownMatch(m, i, e),
         InMatch(m, e, i.fields) \/ InCopy(m, e, i.fields), Next
  PROVE  Goes(m, i, e)'
<1>1. CASE InMatch(m, e, i.fields)
  <2>1. ReadMatch
    <3>1. pc = "match"
      BY <1>1 DEF InMatch
    <3> QED BY <3>1 DEF Next, BadHeader, Begin, Stored, FixedTrees, DynamicTrees, ReadLength, SplitLengths,
                 ReadSymbol, CopyByte, EndMatch
  <2> QED BY <1>1, <2>1, ReadMatchGoes
<1>2. CASE InCopy(m, e, i.fields)
  <2>1. CopyByte \/ EndMatch
    <3>1. pc = "copy"
      BY <1>2 DEF InCopy
    <3> QED BY <3>1 DEF Next, BadHeader, Begin, Stored, FixedTrees, DynamicTrees, ReadLength, SplitLengths,
                 ReadSymbol, ReadMatch
  <2>2. WholeFields' = WholeFields /\ at' = at
    BY <2>1, SameStrip DEF CopyByte, EndMatch
  <2>3. at = e + Len(i.fields) /\ at <= WholeFields /\ i.kind = "match"
    BY <1>2 DEF InCopy, KnownMatch
  <2>4. CASE CopyByte
    <3>1. InCopy(m, e, i.fields)'
      BY <1>2, <2>4, CopyByteGoes
    <3> QED BY <2>2, <2>3, <3>1 DEF Goes, In
  <2>5. CASE EndMatch
    <3>1. AtItem(After(m, i), e + Len(i.fields))'
      BY <1>2, <2>5, EndMatchGoes
    <3> QED BY <2>2, <2>3, <3>1 DEF Goes
  <2> QED BY <2>1, <2>4, <2>5
<1> QED BY <1>1, <1>2

-----------------------------------------------------------------------------
(* From the first item to the last.                                        *)

\* A strip that ends says why.
Answered == pc = "done" => answer # "none"

\* The invariant.
Following == \A items \in {strip.items} : Deflated => Follows(items)

\* What is known of the items of a deflated strip.
ItemsFollow(items, M, E) ==
  /\ items \in Seq(Items) /\ MeaningOf(items, M) /\ EndsOf(items, E)
  /\ M = Meaning(items) /\ E = ItemEnds(items)
  /\ Len(items) \in Nat /\ M[Len(items)].mode = "done"
  /\ \A j \in 1..Len(items) :
       /\ items[j] \in Items /\ M[j - 1] \in Meanings /\ E[j - 1] \in Nat
       /\ Fits(M[j - 1], items[j]) /\ Reads(items[j].fields, E[j - 1])
       /\ M[j] = After(M[j - 1], items[j]) /\ E[j] = E[j - 1] + Len(items[j].fields)
       /\ E[j] \in Nat /\ E[j] <= Needed(items)

\* It holds of every deflated strip.
LEMMA ItemsKnown ==
  ASSUME strip \in Strips, Deflated, NEW items, items = strip.items
  PROVE  ItemsFollow(items, Meaning(items), ItemEnds(items))
<1>1. items \in Seq(Items) /\ Final(items).mode = "done" /\ HasItems(items)
  BY ItemsAssumption DEF Deflated
<1>2. PICK M, E : M = Meaning(items) /\ E = ItemEnds(items)
  OBVIOUS
<1>3. MeaningOf(items, M) /\ EndsOf(items, E)
  BY <1>1, <1>2, MeaningIs, EndsAre
<1>4. Len(items) \in Nat /\ M[Len(items)].mode = "done" /\ Needed(items) = E[Len(items)]
  BY <1>1, <1>2 DEF Final, Needed
<1>5. Fields = Written /\ WholeFields = WrittenWhole
  BY ZlibTaken
<1>6. ASSUME NEW j \in 1..Len(items)
      PROVE  /\ items[j] \in Items /\ M[j - 1] \in Meanings /\ E[j - 1] \in Nat
             /\ Fits(M[j - 1], items[j]) /\ Reads(items[j].fields, E[j - 1])
             /\ M[j] = After(M[j - 1], items[j]) /\ E[j] = E[j - 1] + Len(items[j].fields)
             /\ E[j] \in Nat /\ E[j] <= Needed(items)
  <2>1. j - 1 \in 0..Len(items) /\ j \in 0..Len(items)
    BY <1>4
  <2>2. items[j] \in Items
    BY <1>1, ElementOf
  <2>3. M[j - 1] \in Meanings /\ M[j] = After(M[j - 1], items[j])
    BY <1>3, <2>1 DEF MeaningOf
  <2>4. E[j - 1] \in Nat /\ E[j] = E[j - 1] + Len(items[j].fields)
    BY <1>3, <2>1 DEF EndsOf
  <2>5. E[j] \in Nat /\ E[j] <= Needed(items)
    BY <1>1, <1>3, <1>4, <2>1, EndsGrow
  <2>6. Fits(M[j - 1], items[j])
    BY <1>1, <1>3, <1>4, AllFit
  <2>7. Reads(items[j].fields, E[j - 1])
    BY <1>1, <1>2, <1>5 DEF HasItems, Reads
  <2> QED BY <2>2, <2>3, <2>4, <2>5, <2>6, <2>7
<1> QED BY <1>1, <1>2, <1>3, <1>4, <1>6 DEF ItemsFollow

\* A strip stays deflated.
LEMMA SameDeflated ==
  ASSUME strip' = strip
  PROVE  Deflated' = Deflated
BY DEF Deflated, HasItems, StartWritten, Written, WrittenWhole, Checked

\* Wherever one step goes from an item, the decoder still follows the items.
LEMMA GoesOn ==
  ASSUME IInv, strip' = strip, NEW items, ItemsFollow(items, Meaning(items), ItemEnds(items)),
         NEW j \in 1..Len(items), Goes(Meaning(items)[j - 1], items[j], ItemEnds(items)[j - 1])'
  PROVE  Follows(items)'
<1>1. PICK M, E : M = Meaning(items) /\ E = ItemEnds(items)
  OBVIOUS
<1>2. /\ M[j] = After(M[j - 1], items[j]) /\ E[j] = E[j - 1] + Len(items[j].fields)
      /\ E[j] \in Nat /\ E[j] <= Needed(items) /\ EndsOf(items, E) /\ Len(items) \in Nat
  BY <1>1 DEF ItemsFollow
<1>3. WholeFields' = WholeFields /\ WholeFields \in Int /\ Needed(items) \in Nat
  <2>1. Needed(items) \in Nat
    <3>1. Len(items) \in 0..Len(items)
      BY <1>2
    <3> QED BY <1>1, <1>2, <3>1 DEF Needed, EndsOf
  <2> QED BY <2>1, FieldsType, SameStrip DEF IInv, Reader
<1>4. CASE (at <= WholeFields)' /\ In(M[j - 1], items[j], E[j - 1])'
  BY <1>1, <1>4 DEF Follows
<1>5. CASE (at <= WholeFields)' /\ AtItem(After(M[j - 1], items[j]), E[j - 1] + Len(items[j].fields))'
  <2>1. AtItem(M[j], E[j])'
    BY <1>2, <1>5 DEF AtItem, Place, Agrees
  <2>2. j \in 0..Len(items)
    BY <1>2
  <2> QED BY <1>1, <1>5, <2>1, <2>2 DEF Follows
<1>6. CASE Lost(E[j - 1] + Len(items[j].fields))'
  <2>1. Lost(Needed(items))'
    <3>1. Needed(items) > WholeFields
      BY <1>2, <1>3, <1>6 DEF Lost
    <3> QED BY <1>3, <1>6, <3>1 DEF Lost
  <2> QED BY <2>1 DEF Follows
<1> QED BY <1>1, <1>4, <1>5, <1>6 DEF Goes

\* A step from an item follows the items.
LEMMA NextFollows ==
  ASSUME IInv, Next, Deflated, NEW items, items = strip.items, Follows(items)
  PROVE  Follows(items)'
<1>1. ItemsFollow(items, Meaning(items), ItemEnds(items)) /\ strip' = strip
  BY ItemsKnown, StripStays DEF IInv, Reader
<1>2. PICK M, E : M = Meaning(items) /\ E = ItemEnds(items)
  OBVIOUS
<1>3. ItemsFollow(items, M, E)
  BY <1>1, <1>2
<1>4. ASSUME NEW j \in 1..Len(items), at <= WholeFields, AtItem(M[j - 1], E[j - 1])
      PROVE  Follows(items)'
  <2>1. Known(M[j - 1], items[j], E[j - 1])
    BY <1>3, <1>4 DEF Known, ItemsFollow
  <2>2. Goes(M[j - 1], items[j], E[j - 1])'
    BY <2>1, ItemGoes
  <2> QED BY <1>1, <1>2, <2>2, GoesOn
<1>5. CASE Lost(Needed(items))
  BY <1>5, LostStays DEF Follows
<1>6. CASE at <= WholeFields /\ \E j \in 0..Len(items) : AtItem(M[j], E[j])
  <2>1. PICK j \in 0..Len(items) : AtItem(M[j], E[j])
    BY <1>6
  <2>2. CASE j = Len(items)
    <3>1. M[j].mode = "done"
      BY <1>3, <2>2 DEF ItemsFollow
    <3>2. pc = "done"
      BY <2>1, <3>1 DEF AtItem, Place
    <3>3. pc # "done"
      BY DEF Next, BadHeader, Begin, Stored, FixedTrees, DynamicTrees, ReadLength, SplitLengths, ReadSymbol,
             ReadMatch, CopyByte, EndMatch
    <3> QED BY <3>2, <3>3
  <2>3. CASE j # Len(items)
    <3>1. j + 1 \in 1..Len(items) /\ (j + 1) - 1 = j
      BY <1>3, <2>3 DEF ItemsFollow
    <3> QED BY <1>4, <1>6, <2>1, <3>1
  <2> QED BY <2>2, <2>3
<1>7. CASE at <= WholeFields /\ \E j \in 1..Len(items) : In(M[j - 1], items[j], E[j - 1])
  <2>1. PICK j \in 1..Len(items) : In(M[j - 1], items[j], E[j - 1])
    BY <1>7
  <2>2. CASE AtItem(M[j - 1], E[j - 1])
    BY <1>4, <1>7, <2>2
  <2>3. CASE ~AtItem(M[j - 1], E[j - 1])
    <3>1. /\ items[j].kind = "match"
          /\ \/ InMatch(M[j - 1], E[j - 1], items[j].fields)
             \/ InCopy(M[j - 1], E[j - 1], items[j].fields)
      BY <2>1, <2>3 DEF In
    <3>2. KnownMatch(M[j - 1], items[j], E[j - 1])
      BY <1>3, <1>7, <3>1 DEF KnownMatch, ItemsFollow
    <3>3. Goes(M[j - 1], items[j], E[j - 1])'
      BY <3>1, <3>2, MatchGoes
    <3> QED BY <1>1, <1>2, <3>3, GoesOn
  <2> QED BY <2>2, <2>3
<1> QED BY <1>2, <1>5, <1>6, <1>7 DEF Follows

\* Following is kept by every step, and holds at the start.
LEMMA StepFollowing == IInv /\ Following /\ [Next]_vars => Following'
<1> SUFFICES ASSUME IInv, Following, [Next]_vars, NEW items, items = strip.items', Deflated'
             PROVE  Follows(items)'
  BY DEF Following
<1>1. strip' = strip
  BY StripStays DEF vars
<1>2. items = strip.items /\ Deflated
  BY <1>1, SameDeflated
<1>3. Follows(items)
  BY <1>2 DEF Following
<1>4. CASE Next
  BY <1>2, <1>3, <1>4, NextFollows
<1>5. CASE UNCHANGED vars
  <2>1. WholeFields' = WholeFields /\ at' = at
    BY <1>1, <1>5, SameStrip DEF vars
  <2>2. ASSUME NEW end, Lost(end) PROVE Lost(end)'
    BY <1>5, <2>1, <2>2 DEF Lost, vars
  <2>3. ASSUME NEW m, NEW e, AtItem(m, e) PROVE AtItem(m, e)'
    BY <1>5, <2>3 DEF AtItem, Place, Agrees, vars, trees
  <2>4. ASSUME NEW m, NEW e, NEW f, InMatch(m, e, f) PROVE InMatch(m, e, f)'
    BY <1>5, <2>4 DEF InMatch, vars
  <2>5. ASSUME NEW m, NEW e, NEW f, InCopy(m, e, f) PROVE InCopy(m, e, f)'
    BY <1>5, <2>5 DEF InCopy, vars
  <2>6. ASSUME NEW m, NEW i, NEW e, In(m, i, e) PROVE In(m, i, e)'
    BY <2>3, <2>4, <2>5, <2>6 DEF In
  <2> QED BY <1>3, <2>1, <2>2, <2>3, <2>6 DEF Follows
<1> QED BY <1>4, <1>5

\* Init is at the first item.
LEMMA InitFollowing == Init => Following
<1> SUFFICES ASSUME Init, NEW items, items = strip.items, Deflated
             PROVE  Follows(items)
  BY DEF Following
<1>1. strip \in Strips
  BY DEF Init
<1>2. ItemsFollow(items, Meaning(items), ItemEnds(items))
  BY <1>1, ItemsKnown
<1>3. PICK M, E : M = Meaning(items) /\ E = ItemEnds(items)
  OBVIOUS
<1>4. M[0] = Nothing /\ E[0] = 0 /\ Len(items) \in Nat /\ E \in [0..Len(items) -> Nat]
  BY <1>2, <1>3 DEF ItemsFollow, MeaningOf, EndsOf
<1>5. AtItem(M[0], E[0])
  <2>1. Earlier \o <<>> = Earlier
    BY TypesAssumption
  <2>2. Nothing.mode = "header" /\ Nothing.final = FALSE /\ Nothing.bytes = <<>>
    BY DEF Nothing
  <2> QED BY <1>4, <2>1, <2>2 DEF Init, AtItem, Place
<1>6. WholeFields \in Int
  BY <1>1, FieldsType
<1>7. CASE at <= WholeFields
  <2>1. 0 \in 0..Len(items)
    BY <1>4
  <2> QED BY <1>3, <1>5, <1>7, <2>1 DEF Follows
<1>8. CASE ~(at <= WholeFields)
  <2>1. Needed(items) \in Nat
    BY <1>3, <1>4 DEF Needed
  <2>2. Lost(Needed(items))
    BY <1>6, <1>8, <2>1 DEF Lost, Init
  <2> QED BY <2>2 DEF Follows
<1> QED BY <1>7, <1>8

\* Whoever follows the items gives the right answer.
LEMMA FollowingAnswers ==
  ASSUME IInv, Following, Answered
  PROVE  InflatesWhatWasDeflated
<1> SUFFICES ASSUME pc = "done", Deflated
             PROVE  IF Needed(strip.items) <= WrittenWhole
                    THEN answer = "accepted" /\ out = Earlier \o Final(strip.items).bytes
                    ELSE answer = "failed"
  BY DEF InflatesWhatWasDeflated
<1>1. PICK items : items = strip.items
  OBVIOUS
<1>2. Follows(items) /\ strip \in Strips
  BY <1>1 DEF Following, IInv, Reader
<1>3. WholeFields = WrittenWhole /\ WholeFields \in Int
  BY <1>2, ZlibTaken, FieldsType
<1>4. PICK M, E : M = Meaning(items) /\ E = ItemEnds(items)
  OBVIOUS
<1>5. ItemsFollow(items, M, E)
  BY <1>1, <1>2, <1>4, ItemsKnown
<1>6. ASSUME NEW j \in 1..Len(items) PROVE ~In(M[j - 1], items[j], E[j - 1])
  <2>1. items[j] \in Items /\ Fits(M[j - 1], items[j])
    BY <1>5 DEF ItemsFollow
  <2>2. M[j - 1].mode \in {"header", "lengths", "symbols"}
    BY <2>1, FitsWhere
  <2> QED BY <2>2 DEF In, AtItem, Place, InMatch, InCopy
<1>7. CASE Lost(Needed(items))
  <2>1. answer = "failed"
    BY <1>7 DEF Lost, Answered, IInv, TypeOK
  <2>2. Needed(items) \in Nat
    <3>1. Len(items) \in 0..Len(items) /\ EndsOf(items, E)
      BY <1>5 DEF ItemsFollow
    <3> QED BY <1>4, <3>1 DEF Needed, EndsOf
  <2>3. ~(Needed(items) <= WrittenWhole)
    BY <1>3, <1>7, <2>2 DEF Lost
  <2> QED BY <1>1, <2>1, <2>3
<1>8. CASE at <= WholeFields /\ \E j \in 0..Len(items) : AtItem(M[j], E[j])
  <2>1. PICK j \in 0..Len(items) : AtItem(M[j], E[j])
    BY <1>8
  <2>2. j = Len(items)
    <3> SUFFICES ASSUME j # Len(items) PROVE FALSE
      OBVIOUS
    <3>1. j + 1 \in 1..Len(items) /\ (j + 1) - 1 = j
      BY <1>5 DEF ItemsFollow
    <3>2. ~In(M[j], items[j + 1], E[j])
      BY <1>6, <3>1
    <3> QED BY <2>1, <3>2 DEF In
  <2>3. M[j].mode = "done" /\ M[j] = Final(items) /\ E[j] = Needed(items)
    BY <1>4, <1>5, <2>2 DEF ItemsFollow, Final, Needed
  <2>4. answer = "accepted" /\ out = Earlier \o Final(items).bytes /\ at = Needed(items)
    BY <2>1, <2>3 DEF AtItem, Place
  <2> QED BY <1>1, <1>3, <1>8, <2>4
<1> QED BY <1>2, <1>4, <1>6, <1>7, <1>8 DEF Follows

\* Each of the steps that end answers.
LEMMA StepAnswered == Answered /\ [Next]_vars => Answered'
<1> SUFFICES ASSUME Answered, [Next]_vars PROVE Answered'
  OBVIOUS
<1>1. CASE BadHeader
  BY <1>1 DEF Answered, BadHeader, Fail
<1>2. CASE Stored
  BY <1>2 DEF Answered, Stored, EndBlock
<1>3. CASE FixedTrees
  BY <1>3 DEF Answered, FixedTrees
<1>4. CASE DynamicTrees
  BY <1>4 DEF Answered, DynamicTrees
<1>5. CASE ReadLength
  BY <1>5 DEF Answered, ReadLength, Fail
<1>6. CASE SplitLengths
  BY <1>6 DEF Answered, SplitLengths, Fail
<1>7. CASE ReadSymbol
  BY <1>7 DEF Answered, ReadSymbol, LiteralOrEnd, EndBlock, BeginMatch, BadSymbol, Fail
<1>8. CASE ReadMatch
  BY <1>8 DEF Answered, ReadMatch, Fail
<1>9. CASE CopyByte
  BY <1>9 DEF Answered, CopyByte
<1>10. CASE EndMatch
  BY <1>10 DEF Answered, EndMatch
<1>11. CASE UNCHANGED vars
  BY <1>11 DEF Answered, vars
<1> QED BY <1>1, <1>2, <1>3, <1>4, <1>5, <1>6, <1>7, <1>8, <1>9, <1>10, <1>11 DEF Next

\* For every strip that consists of items, the bytes that they stand for are added
\* to those of earlier strips and the strip is accepted, or it is refused where it
\* ends before its items do: DecodeDeflate inflates whatever was deflated.
THEOREM InflateReturnsWhatWasDeflated == Spec => []InflatesWhatWasDeflated
<1>1. Init => IInv /\ Answered /\ Following
  BY InitIInv, InitFollowing DEF Init, Answered
<1>2. IInv /\ Answered /\ Following /\ [Next]_vars => (IInv /\ Answered /\ Following)'
  BY StepIInv, StepAnswered, StepFollowing
<1>3. IInv /\ Answered /\ Following => InflatesWhatWasDeflated
  BY FollowingAnswers
<1> QED BY <1>1, <1>2, <1>3, PTL DEF Spec
=============================================================================
