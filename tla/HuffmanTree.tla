----------------------------- MODULE HuffmanTree -----------------------------
(***************************************************************************)
(* HuffTree of tiff_compression.cc: the table Build makes of any list of   *)
(* code lengths, and Decode, one action per bit read.  Lengths that are    *)
(* no complete prefix code are not refused by the code.                    *)
(***************************************************************************)
EXTENDS Integers, Sequences, FiniteSets

CONSTANTS
  MaxBits,     \* longest code, 15 in the code
  Lengths      \* the lists of code lengths to build from

ASSUME LengthsAssumption ==
  MaxBits \in Nat \ {0} /\ \A l \in Lengths : l \in Seq(0..MaxBits)

VARIABLES
  lengths,     \* code length of each symbol, symbol s at position s + 1
  bits,        \* the bits Decode has read
  code, first, index,
  answer       \* the symbol, -1 when there is none, Pending before

huffVars == <<lengths, bits, code, first, index, answer>>

Pending == -2

Symbols == 0..(Len(lengths) - 1)

Count(len) == Cardinality({s \in Symbols : lengths[s + 1] = len})

\* Number of symbols with codes shorter than len, and the place of each symbol:
\* by length, then by value.
Offset(len) == Cardinality({s \in Symbols : lengths[s + 1] \in 1..(len - 1)})

PlaceReversed(s) ==    \* mutant: the symbols of a length in falling order
  Offset(lengths[s + 1]) + Cardinality({r \in Symbols : r > s /\ lengths[r + 1] = lengths[s + 1]})
Place(s) ==
  Offset(lengths[s + 1]) + Cardinality({r \in Symbols : r < s /\ lengths[r + 1] = lengths[s + 1]})

PlacedAll(s) == TRUE                  \* mutant: symbols without a code too
Placed(s) == lengths[s + 1] # 0

\* symbol: as long as lengths, 0 where no symbol was placed
Symbol(place) ==
  IF \E s \in Symbols : Placed(s) /\ Place(s) = place
  THEN CHOOSE s \in Symbols : Placed(s) /\ Place(s) = place ELSE 0

Init ==
  /\ lengths \in Lengths
  /\ bits = <<>> /\ code = 0 /\ first = 0 /\ index = 0 /\ answer = Pending

IsCodeOrNext(offset, n) == offset <= n      \* mutant: one code too many
IsCode(offset, n) == offset < n

NextFirst(n) == 2 * (first + n)

ReadBit(b) ==
  /\ answer = Pending /\ Len(bits) < MaxBits
  /\ bits' = Append(bits, b)
  /\ LET value == code + b
         n == Count(Len(bits) + 1)
     IN  \/ /\ IsCode(value - first, n)
            /\ answer' = Symbol(index + (value - first))
            /\ UNCHANGED <<code, first, index>>
         \/ /\ ~IsCode(value - first, n)
            /\ index' = index + n
            /\ first' = NextFirst(n)
            /\ code' = 2 * value
            /\ UNCHANGED answer
  /\ UNCHANGED lengths

NoCode ==
  /\ answer = Pending /\ Len(bits) = MaxBits
  /\ answer' = -1
  /\ UNCHANGED <<lengths, bits, code, first, index>>

Next == (\E b \in {0, 1} : ReadBit(b)) \/ NoCode

Spec == Init /\ [][Next]_huffVars

-----------------------------------------------------------------------------

TypeOK ==
  /\ lengths \in Seq(0..MaxBits) /\ bits \in Seq({0, 1})
  /\ code \in Nat /\ first \in Nat /\ index \in 0..Len(lengths)
  /\ answer \in {Pending, -1} \cup Symbols

\* Whatever the lengths are, more codes than there is room for included, the
\* symbol Decode returns was placed and has a code of the length just read: it
\* never looks before, after or into an unused part of the symbol array
\* (tiff_compression.cc:374).
SymbolHasLength ==
  answer \in Symbols => lengths[answer + 1] = Len(bits)

\* Canonical codes: those of a length follow each other from the first one on,
\* which is twice what follows the last one of the length before.
Start[len \in 1..MaxBits] ==
  IF len = 1 THEN 0 ELSE 2 * (Start[len - 1] + Count(len - 1))

Canonical(s) ==
  Start[lengths[s + 1]]
    + Cardinality({r \in Symbols : r < s /\ lengths[r + 1] = lengths[s + 1]})

Value(seq) ==
  LET v[n \in 0..Len(seq)] == IF n = 0 THEN 0 ELSE 2 * v[n - 1] + seq[n] IN v[Len(seq)]

HasCode(s, seq) ==
  seq # <<>> /\ lengths[s + 1] = Len(seq) /\ Canonical(s) = Value(seq)

\* Decode returns the one symbol whose canonical code the bits are, as soon as
\* they are one, and gives up only on bits that start with no code.  That holds
\* for lengths with more codes than there is room for too: those that do not
\* fit are never found, and take no bits from the others.
DecodesCanonicalCodes ==
  \A s \in Symbols :
    /\ HasCode(s, bits) <=> s = answer
    /\ \A n \in 1..(Len(bits) - 1) : ~HasCode(s, SubSeq(bits, 1, n))
=============================================================================
