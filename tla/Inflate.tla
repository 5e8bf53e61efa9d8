------------------------------- MODULE Inflate -------------------------------
(***************************************************************************)
(* DecodeDeflate of tiff_compression.cc: an optional zlib header, and then *)
(* stored, fixed and dynamic blocks.                                       *)
(*                                                                         *)
(* The strip is a sequence of fields, one for each value or symbol that is *)
(* read from it: `fields` from its first byte on, `after` from its third   *)
(* one on, and `first` are its first two bytes (or fewer).  Beyond the     *)
(* last field the bit reader gives zero bits and remembers that it did     *)
(* (eof); a strip that is cut off inside its last field holds whatever     *)
(* value the remaining bits make of it.  A Huffman code is the set of      *)
(* symbols it has codes for (module HuffmanTree has the codes); a symbol   *)
(* without a code stands for bits that are no code.                        *)
(***************************************************************************)
EXTENDS Integers, Sequences, FiniteSets

CONSTANTS
  Strips,      \* [first, fields, after, cut]: the strips to decode
  Earlier,     \* what is in the output buffer before: the strips decoded so far
  Literals,    \* number of literal symbols (256)
  LenBase, LenExtra,      \* length symbols: shortest length, extra bits
  DistBase, DistExtra,    \* distance symbols
  LongestMatch,           \* length no match exceeds (258)
  MaxLit,      \* literal and length symbols a dynamic block may have (286)
  FixedLit,    \* those of a fixed block, two too many included (288)
  RepeatBase, RepeatBits, \* symbols 16, 17 and 18 of a code-length code
  StoredBits   \* bits of the length of a stored block (16)

ASSUME TablesAssumption ==
  /\ Len(LenBase) = Len(LenExtra) /\ Len(DistBase) = Len(DistExtra)
  /\ MaxLit = Literals + 1 + Len(LenBase) /\ FixedLit >= MaxLit
  /\ \A k \in 1..Len(LenBase) : LenBase[k] + 2^LenExtra[k] - 1 <= LongestMatch

ASSUME TypesAssumption ==
  /\ Literals \in Nat \ {0} /\ FixedLit \in Nat /\ LongestMatch \in Nat \ {0} /\ Earlier \in Seq(Nat)
  /\ LenBase \in Seq(Nat) /\ DistBase \in Seq(Nat \ {0})
  /\ RepeatBase \in Seq(Nat) /\ {RepeatBits, LenExtra, DistExtra} \subseteq Seq(0..16)
  /\ Len(RepeatBase) = 3 /\ Len(RepeatBits) = 3 /\ StoredBits \in 0..16
  /\ \A s \in Strips : {s.first, s.fields, s.after} \subseteq Seq(Nat) /\ s.cut \in BOOLEAN

\* Bit fields have at most the 16 bits of a stored block's length.
ASSUME PowersAssumption == 2^0 = 1 /\ 2^1 = 2 /\ 2^2 = 4 /\ \A n \in 0..16 : 2^n \in Nat \ {0}

VARIABLES
  strip, at, eof,      \* the bit reader
  out,                 \* the decompressed bytes of all strips so far
  final,               \* final_block
  pc,                  \* "header", "lengths", "symbols", "match", "copy" or "done"
  lengths, hlit, hdist, clCodes,   \* BuildDynamicTrees
  lit, dist,           \* symbols with a code in the block
  length,              \* length symbol of the match being read, then bytes to copy
  distance,            \* how far back they are
  answer

trees == <<lengths, hlit, hdist, clCodes>>
vars == <<strip, at, eof, out, final, pc, trees, lit, dist, length, distance, answer>>

EndOfBlock == Literals

\* Symbols of a code-length code, in the order their lengths are stored: here
\* 0 and 1 are lengths, 2, 3 and 4 the symbols 16, 17 and 18.
ClOrder == <<2, 3, 4, 0, 1>>
RepeatLast == 2

Init ==
  /\ strip \in Strips /\ at = 0 /\ eof = FALSE
  /\ out = Earlier /\ final = FALSE /\ pc = "header"
  /\ lengths = <<>> /\ hlit = 0 /\ hdist = 0 /\ clCodes = {}
  /\ lit = {} /\ dist = {} /\ length = 0 /\ distance = 0 /\ answer = "none"

-----------------------------------------------------------------------------

\* Compression method 8 and a check in the first two bytes (RFC 1950).
ZlibHeader ==
  /\ Len(strip.first) >= 2
  /\ strip.first[1] % 16 = 8
  /\ (256 * strip.first[1] + strip.first[2]) % 31 = 0

Fields == IF ZlibHeader THEN strip.after ELSE strip.fields
WholeFields == IF strip.cut THEN Len(Fields) - 1 ELSE Len(Fields)

\* The kth field from here on, as count bits.
Bits(k, count) == IF at + k <= Len(Fields) THEN Fields[at + k] % 2^count ELSE 0

\* What the kth field may decode to: zero bits may be any symbol's code.
Symbols(k) == IF at + k <= Len(Fields) THEN {Fields[at + k]} ELSE 0..FixedLit

Consume(count) ==
  /\ at' = at + count
  /\ eof' = (eof \/ at + count > WholeFields)
  /\ UNCHANGED strip

Fail ==
  /\ pc' = "done" /\ answer' = "failed"
  /\ UNCHANGED <<out, final, trees, lit, dist, length, distance>>

\* The final bit is checked for the end of the strip, the block type is not.
BlockType == Bits(2, 2)

BadHeader ==
  /\ pc = "header" /\ Consume(2)
  /\ at + 1 > WholeFields \/ BlockType = 3
  /\ Fail

Begin(type) ==
  /\ pc = "header" /\ at + 1 <= WholeFields /\ BlockType = type
  /\ final' = (Bits(1, 1) = 1)

EndBlock(isFinal) ==
  IF isFinal THEN pc' = "done" /\ answer' = "accepted"
             ELSE pc' = "header" /\ UNCHANGED answer

LongestStored == 2^StoredBits - 1

\* Length, its complement (not looked at), and the bytes themselves.  Room is made
\* for as many bytes as the length announces before it is known that they are there.
Stored ==
  /\ Begin(0)
  /\ LET n == Bits(3, StoredBits)
         announced == at + 4 <= WholeFields
         whole == at + 4 + n <= WholeFields
     IN  /\ Consume(4 + n)
         /\ \/ /\ whole
               /\ out' = out \o SubSeq(Fields, at + 5, at + 4 + n)
               /\ EndBlock(final')
            \/ /\ ~whole
               /\ out' = IF announced THEN out \o [k \in 1..n |-> 0] ELSE out
               /\ pc' = "done" /\ answer' = "failed"
  /\ UNCHANGED <<trees, lit, dist, length, distance>>

FixedTrees ==
  /\ Begin(1) /\ Consume(2)
  /\ lit' = 0..(FixedLit - 1) /\ dist' = 0..(Len(DistBase) - 1)
  /\ pc' = "symbols"
  /\ UNCHANGED <<out, trees, length, distance, answer>>

\* The sizes of the two codes, and the code their lengths are coded with.
DynamicTrees ==
  /\ Begin(2)
  /\ LET hclen == Bits(5, 1) + 4 IN
     /\ Consume(5 + hclen)
     /\ hlit' = Bits(3, 2) + Literals + 1
     /\ hdist' = Bits(4, 2) + 1
     /\ clCodes' = {ClOrder[k] : k \in {k \in 1..hclen : Bits(5 + k, 1) # 0}}
     /\ lengths' = <<>>
     /\ IF hlit' > MaxLit \/ hdist' > Len(DistBase)
        THEN pc' = "done" /\ answer' = "failed"
        ELSE pc' = "lengths" /\ UNCHANGED answer
  /\ UNCHANGED <<out, lit, dist, length, distance>>

-----------------------------------------------------------------------------
(* The code lengths of a dynamic block: only zero and not zero differ.     *)

Repeated(sym, count) ==
  [k \in 1..count |-> IF sym = RepeatLast THEN lengths[Len(lengths)] ELSE 0]

ReadLength ==
  /\ pc = "lengths" /\ Len(lengths) < hlit + hdist
  /\ \E sym \in Symbols(1) :
       LET usable == at + 1 <= WholeFields /\ sym \in clCodes
                       /\ ~(sym = RepeatLast /\ lengths = <<>>)
           count == RepeatBase[sym - 1] + Bits(2, RepeatBits[sym - 1])
       IN  \/ /\ usable /\ sym < RepeatLast
              /\ Consume(1)
              /\ lengths' = Append(lengths, sym)
              /\ UNCHANGED <<out, final, pc, hlit, hdist, clCodes, lit, dist, length, distance, answer>>
           \/ /\ usable /\ sym >= RepeatLast
              /\ Consume(2)
              /\ lengths' = lengths \o Repeated(sym, count)
              /\ UNCHANGED <<out, final, pc, hlit, hdist, clCodes, lit, dist, length, distance, answer>>
           \/ ~usable /\ Consume(1) /\ Fail

\* The last repetition must end exactly with the last length.
TooManyAccepted(n) == TRUE   \* mutant: the excess is ignored
ExactlyAll(n) == n = hlit + hdist

SplitLengths ==
  /\ pc = "lengths" /\ Len(lengths) >= hlit + hdist
  /\ \/ /\ ExactlyAll(Len(lengths))
        /\ lit' = {s \in 0..(hlit - 1) : lengths[s + 1] # 0}
        /\ dist' = {s \in 0..(Len(lengths) - hlit - 1) : lengths[hlit + s + 1] # 0}
        /\ pc' = "symbols"
        /\ UNCHANGED <<out, final, trees, length, distance, answer>>
     \/ ~ExactlyAll(Len(lengths)) /\ Fail
  /\ UNCHANGED <<strip, at, eof>>

-----------------------------------------------------------------------------
(* InflateBlock                                                            *)

EofUnchecked(sym) == sym \in lit   \* mutant: br.eof() is not asked
Readable(sym) == at + 1 <= WholeFields /\ sym \in lit

LiteralOrEnd(sym) ==
  /\ Readable(sym) /\ sym <= EndOfBlock
  /\ \/ /\ sym < EndOfBlock
        /\ out' = Append(out, sym) /\ UNCHANGED <<pc, answer>>
     \/ /\ sym = EndOfBlock
        /\ EndBlock(final) /\ UNCHANGED out
  /\ UNCHANGED <<final, trees, lit, dist, length, distance>>

BeginMatch(sym) ==
  /\ Readable(sym) /\ sym \in (EndOfBlock + 1)..(MaxLit - 1)
  /\ length' = sym - EndOfBlock /\ pc' = "match"
  /\ UNCHANGED <<out, final, trees, lit, dist, distance, answer>>

BadSymbol(sym) == ~(Readable(sym) /\ sym < MaxLit) /\ Fail

ReadSymbol ==
  /\ pc = "symbols" /\ Consume(1)
  /\ \E sym \in Symbols(1) : LiteralOrEnd(sym) \/ BeginMatch(sym) \/ BadSymbol(sym)

\* Extra bits of the length, distance symbol and its extra bits; the end of the
\* strip is only noticed with the next symbol.
ReadMatch ==
  /\ pc = "match"
  /\ LET a == IF LenExtra[length] > 0 THEN 1 ELSE 0 IN
     \E d \in Symbols(a + 1) :
       \/ /\ d \in dist /\ d < Len(DistBase)
          /\ LET b == IF DistExtra[d + 1] > 0 THEN 1 ELSE 0
                 back == DistBase[d + 1] + Bits(a + 2, DistExtra[d + 1])
             IN  /\ Consume(a + 1 + b)
                 /\ \/ /\ back <= Len(out)
                       /\ pc' = "copy" /\ distance' = back
                       /\ length' = LenBase[length] + Bits(1, LenExtra[length])
                       /\ UNCHANGED <<out, final, trees, lit, dist, answer>>
                    \/ back > Len(out) /\ Fail
       \/ ~(d \in dist /\ d < Len(DistBase)) /\ Consume(a + 1) /\ Fail

CopiedLast == out[Len(out)]           \* mutant: as if every distance were 1
Copied == out[Len(out) - distance + 1]

\* Byte by byte, so that a match longer than its distance repeats itself.
CopyByte ==
  /\ pc = "copy" /\ length > 0
  /\ out' = Append(out, Copied) /\ length' = length - 1
  /\ UNCHANGED <<strip, at, eof, final, pc, trees, lit, dist, distance, answer>>

EndMatch ==
  /\ pc = "copy" /\ length = 0 /\ pc' = "symbols"
  /\ UNCHANGED <<strip, at, eof, out, final, trees, lit, dist, length, distance, answer>>

Next == BadHeader \/ Stored \/ FixedTrees \/ DynamicTrees
          \/ ReadLength \/ SplitLengths \/ ReadSymbol \/ ReadMatch
          \/ CopyByte \/ EndMatch

Spec == Init /\ [][Next]_vars

-----------------------------------------------------------------------------

TypeOK ==
  /\ at \in Nat /\ eof \in BOOLEAN /\ final \in BOOLEAN
  /\ out \in Seq(Nat) /\ Len(out) >= Len(Earlier)
  /\ pc \in {"header", "lengths", "symbols", "match", "copy", "done"}
  /\ lengths \in Seq({0, 1}) /\ clCodes \subseteq 0..4
  /\ hlit \in Nat /\ hdist \in Nat
  /\ pc # "done" => hlit <= MaxLit /\ hdist <= Len(DistBase)
  /\ lit \subseteq 0..(FixedLit - 1) /\ dist \subseteq 0..(Len(DistBase) - 1)
  /\ length \in Nat /\ distance \in Nat
  /\ pc = "match" => length \in 1..Len(LenBase)
  /\ pc = "copy" => distance \in 1..Len(out)
  /\ answer \in {"none", "accepted", "failed"}

\* A strip is never accepted on bits that are not there: the end of the input is
\* looked for only after some of the reads, and what is missed there must be
\* noticed before the last block ends (InflateBlock, BuildDynamicTrees, Inflate).
NothingBeyondTheEnd == answer = "accepted" => ~eof

\* A strip gives no more than the longest match for each of its fields: the loops
\* of InflateBlock and Inflate do not go on with the zeros that the bit reader
\* gives without end once its input is used up (while (true), 395).  A strip that
\* is refused leaves at most the room of one stored block on top of that: the
\* resize of Inflate (498) comes before the bytes are looked for.
OutputBounded ==
  Len(out) <= Len(Earlier) + LongestMatch * Len(Fields)
                + (IF answer = "failed" THEN LongestStored ELSE 0)
=============================================================================
