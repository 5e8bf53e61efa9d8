--------------------------- MODULE LzwDecodeProofs ---------------------------
(***************************************************************************)
(* LzwDecode: the decoder's table stays usable and its code width is never *)
(* left behind, for any codes, alphabet and widths.  LzwStream: it gives   *)
(* back what an encoder was given, for any bytes and Clear codes.          *)
(*                                                                         *)
(* Between two Clear codes the decoder's table lags behind the encoder's   *)
(* by the entry it has not made yet, whose string is the one before and    *)
(* the byte that follows; once the encoder's table is full, the decoder's  *)
(* has all of it and entries of its own that no code stands for.           *)
(***************************************************************************)
EXTENDS LzwStream, SequenceTheorems, ArithmeticLemmas

\* The entries alone: what is needed of table, width and prev.
Usable ==
  /\ table \in Seq(Seq(Byte)) /\ Len(table) >= Alpha + 2
  /\ prev \in Nat \cup {-1}
  /\ StringsUsable

\* One step of either kind leaves the invariant true for the new values.
LEMMA InitialTableUsable ==
  /\ InitialTable \in Seq(Seq(Byte))
  /\ Len(InitialTable) = Alpha + 2
  /\ \A c \in 0..(Len(InitialTable) - 1) : c \notin {Clear, Eoi} => InitialTable[c + 1] # <<>>
<1> DEFINE n == Alpha + 2
<1>1. n \in Nat
  BY AlphaAssumption
<1>2. ASSUME NEW i \in 1..n PROVE InitialTable[i] \in Seq(Byte)
  <2>1. CASE i <= Alpha
    <3>1. i - 1 \in Byte
      BY <2>1, <1>2, AlphaAssumption DEF Byte
    <3> QED BY <3>1, <2>1, <1>2 DEF InitialTable
  <2>2. CASE ~(i <= Alpha)
    BY <2>2, <1>2 DEF InitialTable
  <2> QED BY <2>1, <2>2
<1>3. InitialTable \in [1..n -> Seq(Byte)]
  BY <1>2 DEF InitialTable
<1>4. InitialTable \in Seq(Seq(Byte)) /\ Len(InitialTable) = n
  BY <1>1, <1>3
<1>5. ASSUME NEW c \in 0..(n - 1), c \notin {Clear, Eoi}
      PROVE  InitialTable[c + 1] # <<>>
  <2>1. c + 1 \in 1..n /\ c + 1 <= Alpha
    BY <1>5, AlphaAssumption DEF Clear, Eoi
  <2>2. InitialTable[c + 1] = <<c>>
    BY <2>1, <1>5 DEF InitialTable
  <2> QED BY <2>2
<1> QED BY <1>4, <1>5

\* The string a decodable code stands for is a non-empty string of bytes.
LEMMA EntryUsable ==
  ASSUME Usable, NEW code \in Nat, code \notin {Clear, Eoi}, Decodable(code)
  PROVE  Entry(code) \in Seq(Byte) /\ Entry(code) # <<>>
<1>1. CASE code < Len(table)
  <2>1. String(code) \in Seq(Byte)
    BY <1>1 DEF Usable, String
  <2>2. String(code) # <<>>
    BY <1>1 DEF Usable, StringsUsable
  <2> QED BY <2>1, <2>2, <1>1 DEF Entry
<1>2. CASE ~(code < Len(table))
  <2>1. prev \in Nat /\ prev < Len(table) /\ prev \notin {Clear, Eoi}
    BY <1>2 DEF Usable, StringsUsable, Decodable
  <2>2. String(prev) \in Seq(Byte)
    BY <2>1 DEF Usable, String
  <2>3. String(prev) # <<>>
    BY <2>1 DEF Usable, StringsUsable
  <2>4. Head(String(prev)) \in Byte
    BY <2>2, <2>3
  <2> QED BY <1>2, <2>2, <2>4, AppendProperties DEF Entry
<1> QED BY <1>1, <1>2

\* The entry a code adds to the table is a string too.
LEMMA NewEntryUsable ==
  ASSUME Usable, NEW code \in Nat, code \notin {Clear, Eoi}, Decodable(code), prev >= 0
  PROVE  NewEntry(code) \in Seq(Byte) /\ NewEntry(code) # <<>>
<1>1. prev \in Nat /\ prev < Len(table) /\ prev \notin {Clear, Eoi}
  BY DEF Usable, StringsUsable
<1>2. String(prev) \in Seq(Byte)
  BY <1>1 DEF Usable, String
<1>3. Head(Entry(code)) \in Byte
  BY EntryUsable
<1> QED BY <1>2, <1>3, AppendProperties DEF NewEntry

\* Adding the new entry keeps every string of the table usable.
LEMMA TableGrows ==
  ASSUME Usable, NEW code \in Nat, code \notin {Clear, Eoi}, Decodable(code),
         prev >= 0, NEW t, t = Append(table, NewEntry(code))
  PROVE  /\ t \in Seq(Seq(Byte)) /\ Len(t) = Len(table) + 1
         /\ \A c \in 0..(Len(t) - 1) : c \notin {Clear, Eoi} => t[c + 1] # <<>>
<1>1. NewEntry(code) \in Seq(Byte) /\ NewEntry(code) # <<>>
  BY NewEntryUsable
<1>2. table \in Seq(Seq(Byte)) /\ Len(table) \in Nat
  BY DEF Usable
<1>3. /\ t \in Seq(Seq(Byte)) /\ Len(t) = Len(table) + 1
      /\ \A i \in 1..Len(table) : t[i] = table[i]
      /\ t[Len(table) + 1] = NewEntry(code)
  BY <1>1, <1>2, AppendProperties
<1>4. ASSUME NEW c \in 0..(Len(t) - 1), c \notin {Clear, Eoi}
      PROVE  t[c + 1] # <<>>
  <2>1. CASE c < Len(table)
    <3>1. c \in 0..(Len(table) - 1) /\ c + 1 \in 1..Len(table)
      BY <2>1, <1>2, <1>4
    <3>2. table[c + 1] # <<>>
      BY <3>1, <1>4 DEF Usable, StringsUsable, String
    <3> QED BY <3>1, <3>2, <1>3
  <2>2. CASE ~(c < Len(table))
    <3>1. c + 1 = Len(table) + 1
      BY <2>2, <1>2, <1>3, <1>4
    <3> QED BY <3>1, <1>1, <1>3
  <2> QED BY <2>1, <2>2
<1> QED BY <1>3, <1>4

\* The bounds on the strings of a table, whatever table it is.
Bounded(t) ==
  \A c \in 0..(Len(t) - 1) :
    /\ c < Alpha => Len(t[c + 1]) = 1
    /\ c > Eoi => Len(t[c + 1]) <= c - Alpha /\ Len(t[c + 1]) <= 2^MaxWidth - Alpha

LEMMA InitialTableBounded == Bounded(InitialTable)
<1> SUFFICES ASSUME NEW c \in 0..(Len(InitialTable) - 1)
             PROVE  /\ c < Alpha => Len(InitialTable[c + 1]) = 1
                    /\ ~(c > Eoi)
  BY DEF Bounded
<1>1. c \in 0..(Alpha + 1)
  BY InitialTableUsable, AlphaAssumption
<1>2. ~(c > Eoi)
  BY <1>1, AlphaAssumption DEF Eoi
<1>3. ASSUME c < Alpha PROVE Len(InitialTable[c + 1]) = 1
  <2>1. c + 1 \in 1..(Alpha + 2) /\ c + 1 <= Alpha
    BY <1>1, <1>3, AlphaAssumption
  <2>2. InitialTable[c + 1] = <<(c + 1) - 1>>
    BY <2>1 DEF InitialTable
  <2> QED BY <2>2
<1> QED BY <1>2, <1>3

\* The string before and one byte: the code before is smaller than the new one,
\* and one of the widest codes at most.
LEMMA NewEntryBounded ==
  ASSUME Usable, Bounded(table), NEW code \in Nat, code \notin {Clear, Eoi}, Decodable(code),
         prev >= 0, prev <= 2^MaxWidth - 1, NEW t, t = Append(table, NewEntry(code))
  PROVE  Bounded(t)
<1>1. prev \in Nat /\ prev < Len(table) /\ prev \notin {Clear, Eoi}
  BY DEF Usable, StringsUsable
<1>2. PICK max \in Nat : max = 2^MaxWidth /\ Alpha + 3 < max
  BY WidthAssumption, AlphaAssumption
<1>3. String(prev) \in Seq(Byte) /\ Head(Entry(code)) \in Byte
  BY <1>1, EntryUsable DEF Usable, String
<1>4. Len(NewEntry(code)) = Len(String(prev)) + 1
  BY <1>3, AppendProperties DEF NewEntry
<1>5. PICK n \in Nat : n = Len(table) /\ n >= Alpha + 2
  BY DEF Usable
<1>6. PICK l \in Nat : l = Len(String(prev))
  BY <1>3
<1>7. l + 1 <= n - Alpha /\ l + 1 <= max - Alpha
  <2>1. prev \in 0..(n - 1) /\ prev + 1 <= max
    BY <1>1, <1>2, <1>5
  <2>2. CASE prev < Alpha
    <3>1. l = 1
      BY <2>1, <2>2, <1>5, <1>6 DEF Bounded, String
    <3> QED BY <3>1, <1>2, <1>5, AlphaAssumption
  <2>3. CASE prev > Eoi
    <3>1. l <= prev - Alpha
      BY <2>1, <2>3, <1>5, <1>6 DEF Bounded, String
    <3> QED BY <3>1, <2>1, AlphaAssumption
  <2> QED BY <2>2, <2>3, <1>1, AlphaAssumption DEF Clear, Eoi
<1>8. /\ Len(t) = n + 1 /\ t[n + 1] = NewEntry(code)
      /\ \A i \in 1..n : t[i] = table[i]
  <2>1. NewEntry(code) \in Seq(Byte)
    BY NewEntryUsable
  <2> QED BY <2>1, <1>5, AppendProperties DEF Usable
<1> SUFFICES ASSUME NEW c \in 0..n
             PROVE  /\ c < Alpha => Len(t[c + 1]) = 1
                    /\ c > Eoi => Len(t[c + 1]) <= c - Alpha /\ Len(t[c + 1]) <= max - Alpha
  BY <1>2, <1>8 DEF Bounded
<1>9. CASE c < n
  <2>1. c \in 0..(n - 1) /\ t[c + 1] = table[c + 1]
    BY <1>8, <1>9
  <2>2. /\ c < Alpha => Len(table[c + 1]) = 1
        /\ c > Eoi => Len(table[c + 1]) <= c - Alpha /\ Len(table[c + 1]) <= max - Alpha
    BY <2>1, <1>2, <1>5 DEF Bounded
  <2> QED BY <2>1, <2>2
<1>10. CASE c = n
  <2>1. Len(t[c + 1]) = l + 1 /\ ~(c < Alpha)
    BY <1>4, <1>5, <1>6, <1>8, <1>10, AlphaAssumption
  <2> QED BY <2>1, <1>7, <1>10
<1>11. c < n \/ c = n
  OBVIOUS
<1> QED BY <1>9, <1>10, <1>11

-----------------------------------------------------------------------------

\* TypeOK, StringsUsable and EarlyChange need each other: the width bounds the
\* codes, usable strings keep the table well typed.  Bounded needs them all.
DecoderInvariant == TypeOK /\ StringsUsable /\ EarlyChange /\ Bounded(table)

LEMMA InitHolds == Init => DecoderInvariant
<1> SUFFICES ASSUME Init PROVE DecoderInvariant
  OBVIOUS
<1>1. TypeOK
  <2>1. Len(table) = Alpha + 2 /\ table \in Seq(Seq(Byte))
    BY InitialTableUsable DEF Init
  <2>2. width \in MinWidth..MaxWidth /\ 2^MaxWidth \in Nat
    BY WidthAssumption DEF Init
  <2> QED BY <2>1, <2>2, AlphaAssumption DEF Init, TypeOK
<1>2. StringsUsable
  BY InitialTableUsable DEF Init, StringsUsable, String
<1>3. EarlyChange
  BY InitialTableUsable, WidthAssumption, AlphaAssumption DEF Init, EarlyChange
<1>4. Bounded(table)
  BY InitialTableBounded DEF Init
<1> QED BY <1>1, <1>2, <1>3, <1>4 DEF DecoderInvariant

LEMMA ClearPreserves ==
  ASSUME DecoderInvariant, NEW code, ReadClear(code)
  PROVE  DecoderInvariant'
<1>1. /\ table' \in Seq(Seq(Byte)) /\ Len(table') = Alpha + 2
      /\ \A c \in 0..(Len(table') - 1) : c \notin {Clear, Eoi} => table'[c + 1] # <<>>
      /\ width' = MinWidth /\ prev' = -1
  BY InitialTableUsable DEF ReadClear
<1>2. TypeOK'
  <2>1. MinWidth \in MinWidth..MaxWidth /\ 2^MaxWidth \in Nat
    BY WidthAssumption
  <2> QED BY <1>1, <2>1, AlphaAssumption DEF DecoderInvariant, TypeOK, ReadClear
<1>3. StringsUsable'
  BY <1>1 DEF StringsUsable, String
<1>4. EarlyChange'
  BY <1>1, WidthAssumption, AlphaAssumption DEF EarlyChange
<1>5. Bounded(table')
  BY InitialTableBounded DEF ReadClear
<1> QED BY <1>2, <1>3, <1>4, <1>5 DEF DecoderInvariant

LEMMA StringPreserves ==
  ASSUME DecoderInvariant, NEW code \in 0..(2^MaxWidth - 1), ReadString(code)
  PROVE  DecoderInvariant'
<1>1. /\ Usable /\ width \in MinWidth..MaxWidth
      /\ code \notin {Clear, Eoi} /\ Decodable(code)
  BY DEF DecoderInvariant, TypeOK, Usable, ReadString, Ends
<1>2. /\ 2^width \in Nat \ {0} /\ 2^(width + 1) = 2 * 2^width
      /\ 2^width <= 2^MaxWidth /\ 2^MaxWidth \in Nat
  BY <1>1, WidthAssumption
<1>3. code \in Nat /\ code \in -1..(2^MaxWidth - 1)
  BY <1>2
<1>4. Len(table) \in Nat /\ Len(table) >= Alpha + 2 /\ table \in Seq(Seq(Byte))
  BY <1>1 DEF Usable
<1>5. /\ table' \in Seq(Seq(Byte))
      /\ Len(table') = IF prev >= 0 THEN Len(table) + 1 ELSE Len(table)
      /\ \A c \in 0..(Len(table') - 1) : c \notin {Clear, Eoi} => table'[c + 1] # <<>>
  <2>1. CASE prev >= 0
    BY <2>1, <1>1, <1>3, TableGrows DEF ReadString
  <2>2. CASE ~(prev >= 0)
    BY <2>2, <1>1, <1>4 DEF ReadString, Usable, StringsUsable, String
  <2> QED BY <2>1, <2>2
<1>6. code < Len(table')
  <2>1. CASE code < Len(table)
    BY <2>1, <1>3, <1>4, <1>5
  <2>2. CASE ~(code < Len(table))
    BY <2>2, <1>1, <1>3, <1>4, <1>5 DEF Decodable
  <2> QED BY <2>1, <2>2
<1>7. width' = IF Len(table') + 1 = 2^width /\ width < MaxWidth THEN width + 1 ELSE width
  BY DEF ReadString, Widens
<1>8. TypeOK'
  <2>1. out' \in Seq(Byte)
    BY <1>1, <1>3, EntryUsable, ConcatProperties DEF ReadString, DecoderInvariant, TypeOK
  <2>2. width' \in MinWidth..MaxWidth
    BY <1>1, <1>7, WidthAssumption
  <2>3. Len(table') >= Alpha + 2
    BY <1>4, <1>5, AlphaAssumption
  <2>4. prev' \in -1..(2^MaxWidth - 1) /\ status' = status
    BY <1>3 DEF ReadString
  <2> QED BY <1>5, <2>1, <2>2, <2>3, <2>4 DEF DecoderInvariant, TypeOK
<1>9. StringsUsable'
  <2>1. prev' = code
    BY DEF ReadString
  <2> QED BY <2>1, <1>1, <1>5, <1>6 DEF StringsUsable, String
<1>10. EarlyChange'
  <2> SUFFICES ASSUME width' < MaxWidth PROVE Len(table') + 1 < 2^width'
    BY DEF EarlyChange
  <2>1. width < MaxWidth
    BY <1>1, <1>7, WidthAssumption
  <2>2. Len(table) + 1 < 2^width
    BY <2>1 DEF DecoderInvariant, EarlyChange
  <2>3. Len(table') \in Nat /\ Len(table') <= Len(table) + 1
    BY <1>4, <1>5
  <2>4. CASE Len(table') + 1 = 2^width
    <3>1. width' = width + 1
      BY <2>1, <2>4, <1>7
    <3>2. 2^width' = 2 * 2^width
      BY <3>1, <1>2
    <3> QED BY <3>2, <2>4, <1>2
  <2>5. CASE Len(table') + 1 # 2^width
    <3>1. width' = width
      BY <2>5, <1>7
    <3>2. Len(table') + 1 < 2^width
      BY <2>2, <2>3, <2>5, <1>2, <1>4
    <3> QED BY <3>1, <3>2
  <2> QED BY <2>4, <2>5
<1>11. Bounded(table')
  <2>1. CASE prev >= 0
    <3>1. prev <= 2^MaxWidth - 1
      BY <1>2 DEF DecoderInvariant, TypeOK
    <3>2. table' = Append(table, NewEntry(code))
      BY <2>1 DEF ReadString
    <3> QED BY <2>1, <3>1, <3>2, <1>1, <1>3, NewEntryBounded DEF DecoderInvariant
  <2>2. CASE ~(prev >= 0)
    BY <2>2 DEF ReadString, DecoderInvariant
  <2> QED BY <2>1, <2>2
<1> QED BY <1>8, <1>9, <1>10, <1>11 DEF DecoderInvariant

\* A step that only ends the decoding.
LEMMA EndPreserves ==
  ASSUME DecoderInvariant, UNCHANGED <<table, width, prev, out>>,
         status' \in {"reading", "accepted", "failed"}
  PROVE  DecoderInvariant'
  BY DEF DecoderInvariant, TypeOK, StringsUsable, EarlyChange, String

\* Any code of at most the widest width, which need not be the current one.
LEMMA ReadPreserves ==
  ASSUME DecoderInvariant, NEW code \in 0..(2^MaxWidth - 1), Read(code)
  PROVE  DecoderInvariant'
<1>1. CASE ReadClear(code)
  BY <1>1, ClearPreserves
<1>2. CASE ReadEoi(code)
  BY <1>2, EndPreserves DEF ReadEoi
<1>3. CASE ReadString(code)
  BY <1>3, StringPreserves
<1>4. CASE ReadInvalid(code)
  BY <1>4, EndPreserves DEF ReadInvalid
<1> QED BY <1>1, <1>2, <1>3, <1>4 DEF Read

LEMMA CodesAreWide ==
  ASSUME DecoderInvariant
  PROVE  Codes \subseteq 0..(2^MaxWidth - 1)
<1>1. /\ 2^width \in Nat /\ 2^MaxWidth \in Nat /\ 2^width <= 2^MaxWidth
  BY WidthAssumption DEF DecoderInvariant, TypeOK
<1> QED BY <1>1 DEF Codes

LEMMA StepPreserves == DecoderInvariant /\ [Next]_lzwVars => DecoderInvariant'
<1> SUFFICES ASSUME DecoderInvariant, [Next]_lzwVars PROVE DecoderInvariant'
  OBVIOUS
<1>1. ASSUME NEW code \in Codes, Read(code) PROVE DecoderInvariant'
  BY <1>1, CodesAreWide, ReadPreserves
<1>2. CASE EndOfInput
  BY <1>2, EndPreserves DEF EndOfInput
<1>3. CASE UNCHANGED lzwVars
  BY <1>3, EndPreserves DEF lzwVars, DecoderInvariant, TypeOK
<1> QED BY <1>1, <1>2, <1>3 DEF Next

\* Type correctness of the LZW decoder for any stream of codes.
THEOREM LzwTypeCorrect == Spec => []TypeOK
<1>1. DecoderInvariant => TypeOK
  BY DEF DecoderInvariant
<1> QED BY InitHolds, StepPreserves, <1>1, PTL DEF Spec

\* Whatever codes a stream holds, DecodeLzw takes no first byte of an empty
\* string and no string outside its table.
THEOREM LzwStringsUsable == Spec => []StringsUsable
<1>1. DecoderInvariant => StringsUsable
  BY DEF DecoderInvariant
<1> QED BY InitHolds, StepPreserves, <1>1, PTL DEF Spec

\* The code width is never left behind by the table's growth.
THEOREM LzwEarlyChange == Spec => []EarlyChange
<1>1. DecoderInvariant => EarlyChange
  BY DEF DecoderInvariant
<1> QED BY InitHolds, StepPreserves, <1>1, PTL DEF Spec

\* No string of the table is longer than the widest codes allow, however long a
\* stream is never cleared.
THEOREM LzwStringsBounded == Spec => []StringsBounded
<1>1. DecoderInvariant => StringsBounded
  BY DEF DecoderInvariant, StringsBounded, Bounded, String
<1> QED BY InitHolds, StepPreserves, <1>1, PTL DEF Spec

-----------------------------------------------------------------------------
(***************************************************************************)
(* The encoder, LzwStream: stretches of the bytes it encodes.              *)
(***************************************************************************)

\* What is left of a sequence after its first n elements.
LEMMA RestShape ==
  ASSUME NEW T, NEW b \in Seq(T), NEW n \in 0..Len(b)
  PROVE  /\ SubSeq(b, n + 1, Len(b)) \in Seq(T)
         /\ Len(SubSeq(b, n + 1, Len(b))) = Len(b) - n
         /\ \A j \in 1..(Len(b) - n) : SubSeq(b, n + 1, Len(b))[j] = b[n + j]
<1>1. PICK l \in Nat : l = Len(b) /\ n \in Nat /\ n <= l
  OBVIOUS
<1>2. PICK u : u = SubSeq(b, n + 1, l)
  OBVIOUS
<1>3. u \in Seq(T) /\ Len(u) = l - n
  BY <1>1, <1>2
<1>4. \A j \in 1..(l - n) : u[j] = b[n + j]
  BY <1>1, <1>2
<1> QED BY <1>1, <1>2, <1>3, <1>4

\* A prefix, element by element.
LEMMA PrefixElements ==
  ASSUME NEW T, NEW s \in Seq(T), NEW t \in Seq(T)
  PROVE  IsPrefix(s, t) <=> Len(s) <= Len(t) /\ \A j \in 1..Len(s) : s[j] = t[j]
<1>1. PICK m \in Nat, n \in Nat : m = Len(s) /\ n = Len(t)
  OBVIOUS
<1>2. PICK p, q : p = SubSeq(s, 1, m) /\ q = SubSeq(t, 1, m)
  OBVIOUS
<1>3. ASSUME m <= n PROVE p = q <=> \A j \in 1..m : s[j] = t[j]
  <2>1. p \in Seq(T) /\ Len(p) = m /\ \A j \in 1..m : p[j] = s[j]
    BY <1>1, <1>2
  <2>2. q \in Seq(T) /\ Len(q) = m /\ \A j \in 1..m : q[j] = t[j]
    BY <1>1, <1>2, <1>3
  <2>3. p = q <=> \A j \in 1..m : p[j] = q[j]
    BY <2>1, <2>2
  <2> QED BY <2>1, <2>2, <2>3
<1> QED BY <1>1, <1>2, <1>3 DEF IsPrefix

\* Two sequences with the same elements are the same.
LEMMA SameElements ==
  ASSUME NEW T, NEW s \in Seq(T), NEW t \in Seq(T), Len(s) = Len(t),
         \A j \in 1..Len(s) : s[j] = t[j]
  PROVE  s = t
  OBVIOUS

\* One element more than a prefix.
LEMMA OneMore ==
  ASSUME NEW T, NEW s \in Seq(T), NEW u \in Seq(T), IsPrefix(s, u), Len(s) < Len(u)
  PROVE  SubSeq(u, 1, Len(s) + 1) = Append(s, u[Len(s) + 1])
<1>1. PICK k \in Nat : k = Len(s) /\ k + 1 \in 1..Len(u)
  OBVIOUS
<1>2. u[k + 1] \in T
  BY <1>1
<1>3. PICK p, q : p = SubSeq(u, 1, k + 1) /\ q = Append(s, u[k + 1])
  OBVIOUS
<1>4. p \in Seq(T) /\ Len(p) = k + 1 /\ \A j \in 1..(k + 1) : p[j] = u[j]
  BY <1>1, <1>3
<1>5. q \in Seq(T) /\ Len(q) = k + 1 /\ q[k + 1] = u[k + 1] /\ \A j \in 1..k : q[j] = s[j]
  BY <1>1, <1>2, <1>3, AppendProperties
<1>6. \A j \in 1..k : s[j] = u[j]
  BY <1>1, PrefixElements
<1>7. \A j \in 1..(k + 1) : p[j] = q[j]
  <2>1. \A j \in 1..(k + 1) : j \in 1..k \/ j = k + 1
    OBVIOUS
  <2> QED BY <2>1, <1>4, <1>5, <1>6
<1> QED BY <1>1, <1>3, <1>4, <1>5, <1>7, SameElements

\* A sequence is the stretch of another one it has the elements of.
LEMMA StretchIs ==
  ASSUME NEW T, NEW b \in Seq(T), NEW n \in Nat, NEW e \in Seq(T),
         n + Len(e) <= Len(b), \A j \in 1..Len(e) : e[j] = b[n + j]
  PROVE  e = SubSeq(b, n + 1, n + Len(e))
<1>1. PICK l \in Nat, k \in Nat : l = Len(b) /\ k = Len(e) /\ n + k <= l
  OBVIOUS
<1>2. PICK q : q = SubSeq(b, n + 1, n + k)
  OBVIOUS
<1>3. q \in Seq(T) /\ Len(q) = k
  BY <1>1, <1>2
<1>4. ASSUME NEW j \in 1..k PROVE q[j] = e[j]
  BY <1>1, <1>2, <1>4
<1> QED BY <1>1, <1>2, <1>3, <1>4, SameElements

\* What has been sent and a prefix of what has not.
LEMMA SentExtends ==
  ASSUME NEW T, NEW b \in Seq(T), NEW n \in 0..Len(b), NEW e \in Seq(T),
         IsPrefix(e, SubSeq(b, n + 1, Len(b)))
  PROVE  /\ n + Len(e) \in 0..Len(b)
         /\ SubSeq(b, 1, n) \o e = SubSeq(b, 1, n + Len(e))
<1>1. PICK l \in Nat, k \in Nat : l = Len(b) /\ k = Len(e) /\ n \in Nat /\ n <= l
  OBVIOUS
<1>2. k <= l - n /\ \A j \in 1..k : e[j] = b[n + j]
  <2>1. PICK u : u = SubSeq(b, n + 1, Len(b))
    OBVIOUS
  <2>2. u \in Seq(T) /\ Len(u) = l - n /\ IsPrefix(e, u)
    BY ONLY <1>1, <2>1, RestShape, b \in Seq(T), n \in 0..Len(b),
            IsPrefix(e, SubSeq(b, n + 1, Len(b)))
  <2>3. \A j \in 1..(l - n) : u[j] = b[n + j]
    BY ONLY <1>1, <2>1, RestShape, b \in Seq(T), n \in 0..Len(b)
  <2>4. k <= l - n /\ \A j \in 1..k : e[j] = u[j]
    BY ONLY <1>1, <2>2, PrefixElements, e \in Seq(T)
  <2> QED BY <1>1, <2>3, <2>4
<1>3. n + k \in 0..l /\ n + k \in n..l /\ n \in 0..l /\ 1 \in 1..(l + 1)
  BY <1>1, <1>2
<1>4. e = SubSeq(b, n + 1, n + k)
  <2>1. n + Len(e) <= Len(b) /\ \A j \in 1..Len(e) : e[j] = b[n + j]
    BY <1>1, <1>2, <1>3
  <2>2. e = SubSeq(b, n + 1, n + Len(e))
    BY ONLY <1>1, <2>1, b \in Seq(T), e \in Seq(T), StretchIs, Zenon
  <2> QED BY <1>1, <2>2
<1>5. SubSeq(b, 1, n) \o SubSeq(b, n + 1, n + k) = SubSeq(b, 1, n + k)
  <2>1. 1 \in 1..(Len(b) + 1) /\ n \in (1 - 1)..Len(b) /\ n + k \in n..Len(b)
    BY <1>1, <1>3
  <2> QED BY ONLY <2>1, b \in Seq(T), ConcatAdjacentSubSeq, Zenon
<1> QED BY <1>1, <1>3, <1>4, <1>5

\* Of values that are bounded, one is the largest.
LEMMA Largest ==
  ASSUME NEW M, M # {}, NEW k \in Nat, NEW f \in [M -> 0..k]
  PROVE  \E c \in M : \A d \in M : f[c] >= f[d]
<1>1. PICK R : R = {(k + 1) - f[c] : c \in M}
  OBVIOUS
<1>2. R \in SUBSET (1..(k + 1)) /\ R # {}
  BY <1>1
<1>3. PICK s \in R : \A t \in R : s <= t
  BY <1>2, Smallest, k + 1 \in Nat
<1>4. PICK c \in M : s = (k + 1) - f[c]
  BY <1>1, <1>3
<1>5. ASSUME NEW d \in M PROVE f[c] >= f[d]
  <2>1. s <= (k + 1) - f[d]
    BY <1>1, <1>3
  <2>2. f[c] \in 0..k /\ f[d] \in 0..k
    OBVIOUS
  <2> QED BY <2>1, <2>2, <1>4
<1> QED BY <1>4, <1>5

-----------------------------------------------------------------------------

\* The encoder's table keeps the literals, and never outgrows the widest codes.
EncoderTypeOK ==
  /\ input \in Inputs /\ sent \in 0..Len(Bytes) /\ damaged \in Nat
  /\ dict \in Seq(Seq(Byte)) /\ Len(dict) \in (Alpha + 2)..(2^MaxWidth)
  /\ \A i \in 1..(Alpha + 2) : dict[i] = InitialTable[i]

\* The entries of the table after a Clear.
LEMMA InitialEntries ==
  /\ \A c \in Byte : c + 1 \in 1..(Alpha + 2) /\ InitialTable[c + 1] = <<c>>
  /\ Clear + 1 \in 1..(Alpha + 2) /\ InitialTable[Clear + 1] = <<>>
  /\ Eoi + 1 \in 1..(Alpha + 2) /\ InitialTable[Eoi + 1] = <<>>
<1>1. ASSUME NEW c \in Byte PROVE c + 1 \in 1..(Alpha + 2) /\ InitialTable[c + 1] = <<c>>
  <2>1. c + 1 \in 1..(Alpha + 2) /\ c + 1 <= Alpha /\ (c + 1) - 1 = c
    BY AlphaAssumption DEF Byte
  <2> QED BY <2>1 DEF InitialTable
<1>2. /\ Clear + 1 \in 1..(Alpha + 2) /\ ~(Clear + 1 <= Alpha)
      /\ Eoi + 1 \in 1..(Alpha + 2) /\ ~(Eoi + 1 <= Alpha)
  BY AlphaAssumption DEF Clear, Eoi
<1>3. InitialTable[Clear + 1] = <<>> /\ InitialTable[Eoi + 1] = <<>>
  BY <1>2 DEF InitialTable
<1> QED BY <1>1, <1>2, <1>3

\* The bytes and what is left of them.
LEMMA UnsentShape ==
  ASSUME EncoderTypeOK
  PROVE  /\ Bytes \in Seq(Byte) /\ sent \in 0..Len(Bytes) /\ Len(Bytes) \in Nat
         /\ Unsent \in Seq(Byte) /\ Len(Unsent) = Len(Bytes) - sent
         /\ \A j \in 1..(Len(Bytes) - sent) : Unsent[j] = Bytes[sent + j]
<1>1. Bytes \in Seq(Byte) /\ sent \in 0..Len(Bytes) /\ Len(Bytes) \in Nat
  BY InputsAssumption DEF EncoderTypeOK, Bytes
<1>2. PICK u : u = Unsent
  OBVIOUS
<1>3. u \in Seq(Byte) /\ Len(u) = Len(Bytes) - sent
  BY ONLY <1>1, <1>2, RestShape DEF Unsent
<1>4. \A j \in 1..(Len(Bytes) - sent) : u[j] = Bytes[sent + j]
  BY ONLY <1>1, <1>2, RestShape DEF Unsent
<1> QED BY <1>1, <1>2, <1>3, <1>4

\* While bytes are unsent, the longest match is a string code of the table.
LEMMA MatchFound ==
  ASSUME EncoderTypeOK, sent < Len(Bytes)
  PROVE  /\ LongestMatch \in 0..(Len(dict) - 1) /\ LongestMatch \notin {Clear, Eoi}
         /\ dict[LongestMatch + 1] \in Seq(Byte) /\ dict[LongestMatch + 1] # <<>>
         /\ IsPrefix(dict[LongestMatch + 1], Unsent)
<1>1. Bytes \in Seq(Byte) /\ sent \in 0..Len(Bytes) /\ Len(Bytes) \in Nat
  BY UnsentShape
<1>2. PICK u \in Seq(Byte) : /\ u = Unsent /\ Len(u) = Len(Bytes) - sent
                             /\ \A j \in 1..(Len(Bytes) - sent) : u[j] = Bytes[sent + j]
  BY UnsentShape
<1>3. PICK M : M = {c \in 0..(Len(dict) - 1) : dict[c + 1] # <<>> /\ IsPrefix(dict[c + 1], u)}
  OBVIOUS
<1>4. LongestMatch = CHOOSE c \in M : \A d \in M : Len(dict[c + 1]) >= Len(dict[d + 1])
  BY <1>2, <1>3 DEF LongestMatch
<1>5. PICK n \in Nat : n = Len(dict) /\ n >= Alpha + 2
  BY AlphaAssumption DEF EncoderTypeOK
<1>6. \A c \in M : dict[c + 1] \in Seq(Byte) /\ Len(dict[c + 1]) \in 0..Len(u)
  <2> SUFFICES ASSUME NEW c \in M PROVE dict[c + 1] \in Seq(Byte) /\ Len(dict[c + 1]) \in 0..Len(u)
    OBVIOUS
  <2>1. c + 1 \in 1..n /\ IsPrefix(dict[c + 1], u)
    BY <1>3, <1>5
  <2>2. PICK e \in Seq(Byte) : e = dict[c + 1]
    BY <2>1, <1>5, ElementOfSeq DEF EncoderTypeOK
  <2>3. Len(e) <= Len(u)
    BY <2>1, <2>2, <1>2, PrefixElements
  <2> QED BY <2>2, <2>3
<1>7. M # {}
  <2>1. Len(u) \in Nat /\ 1 <= Len(u) /\ 1 \in 1..Len(u)
    BY <1>1, <1>2
  <2>2. PICK c \in Byte : c = u[1]
    BY <2>1, <1>2, ElementOfSeq
  <2>3. dict[c + 1] = <<c>>
    BY InitialEntries DEF EncoderTypeOK
  <2>4. c \in 0..(n - 1)
    BY <1>5, AlphaAssumption DEF Byte
  <2>5. PICK e : e = <<c>>
    OBVIOUS
  <2>6. e \in Seq(Byte) /\ Len(e) = 1 /\ e[1] = u[1] /\ e # <<>>
    BY <2>2, <2>5
  <2>7. \A j \in 1..Len(e) : e[j] = u[j]
    BY <2>6
  <2>8. IsPrefix(e, u)
    BY <2>1, <2>6, <2>7, <1>2, PrefixElements
  <2> QED BY <2>3, <2>4, <2>5, <2>6, <2>8, <1>3, <1>5
<1>8. PICK f \in [M -> 0..Len(u)] : \A c \in M : f[c] = Len(dict[c + 1])
  <2>1. [c \in M |-> Len(dict[c + 1])] \in [M -> 0..Len(u)]
    BY <1>6
  <2> QED BY <2>1
<1>9. \E c \in M : \A d \in M : Len(dict[c + 1]) >= Len(dict[d + 1])
  <2>1. PICK c \in M : \A d \in M : f[c] >= f[d]
    BY <1>2, <1>7, <1>8, Largest
  <2> QED BY <2>1, <1>8
<1>10. LongestMatch \in M
  BY <1>4, <1>9
<1>11. dict[Clear + 1] = <<>> /\ dict[Eoi + 1] = <<>>
  BY InitialEntries DEF EncoderTypeOK
<1>12. LongestMatch \in 0..(Len(dict) - 1) /\ dict[LongestMatch + 1] # <<>>
  BY <1>3, <1>10
<1>13. IsPrefix(dict[LongestMatch + 1], Unsent)
  BY <1>2, <1>3, <1>10
<1> QED BY <1>6, <1>10, <1>11, <1>12, <1>13

\* The table entry the decoder has not made yet is the encoder's last one: the
\* string before and the byte that follows it.
OneBehind ==
  /\ Len(dict) = Len(table) + 1
  /\ \A i \in 1..Len(table) : dict[i] = table[i]
  /\ sent < Len(Bytes) => dict[Len(dict)] = Append(String(prev), Bytes[sent + 1])

\* The encoder's table is full and the decoder's, which is not told, grows on.
PastFull ==
  /\ Full /\ Len(dict) <= Len(table)
  /\ \A i \in 1..Len(dict) : dict[i] = table[i]

InStep ==
  /\ status # "failed" /\ out = SubSeq(Bytes, 1, sent) /\ width = codeWidth
  /\ prev = -1 => table = InitialTable /\ dict = InitialTable
  /\ prev >= 0 => OneBehind \/ PastFull

StreamInvariant == DecoderInvariant /\ EncoderTypeOK /\ (damaged = 0 => InStep)

\* The smaller of two numbers.
LEMMA MinOfTwo ==
  ASSUME NEW a \in Nat, NEW b \in Nat
  PROVE  Min({a, b}) = IF a <= b THEN a ELSE b
  BY DEF Min

\* What the encoder adds to its table: the string it sends and the next byte.
LEMMA DictGrows ==
  ASSUME EncoderTypeOK, sent < Len(Bytes), NEW e, e = dict[LongestMatch + 1],
         NEW x, x = SubSeq(Unsent, 1, Min({Len(e) + 1, Len(Unsent)}))
  PROVE  /\ x \in Seq(Byte)
         /\ sent + Len(e) < Len(Bytes) => x = Append(e, Bytes[sent + Len(e) + 1])
<1>1. Bytes \in Seq(Byte) /\ sent \in 0..Len(Bytes) /\ Len(Bytes) \in Nat
  BY UnsentShape
<1>2. PICK u \in Seq(Byte) : /\ u = Unsent /\ Len(u) = Len(Bytes) - sent
                             /\ \A j \in 1..(Len(Bytes) - sent) : u[j] = Bytes[sent + j]
  BY UnsentShape
<1>3. e \in Seq(Byte) /\ e # <<>> /\ IsPrefix(e, u) /\ Len(e) \in Nat
  BY <1>2, MatchFound
<1>4. PICK m \in Nat : m = Min({Len(e) + 1, Len(u)}) /\ m <= Len(u)
                       /\ (Len(e) + 1 <= Len(u) => m = Len(e) + 1)
  <2>1. Len(e) + 1 \in Nat /\ Len(u) \in Nat
    BY <1>2, <1>3
  <2> QED BY <2>1, MinOfTwo
<1>5. x = SubSeq(u, 1, m)
  BY <1>2, <1>4
<1>6. x \in Seq(Byte)
  <2>1. \A i \in 1..m : u[i] \in Byte
    BY <1>2, <1>4, ElementOfSeq
  <2>2. SubSeq(u, 1, m) \in Seq(Byte)
    BY ONLY <2>1, m \in Int, 1 \in Int, SubSeqProperties
  <2> QED BY <2>2, <1>5
<1>7. ASSUME sent + Len(e) < Len(Bytes)
      PROVE  x = Append(e, Bytes[sent + Len(e) + 1])
  <2>1. Len(e) + 1 \in 1..(Len(Bytes) - sent) /\ Len(e) < Len(u) /\ Len(e) + 1 <= Len(u)
    BY <1>1, <1>2, <1>3, <1>7
  <2>2. SubSeq(u, 1, Len(e) + 1) = Append(e, u[Len(e) + 1])
    BY <2>1, <1>2, <1>3, OneMore
  <2>3. u[Len(e) + 1] = Bytes[sent + (Len(e) + 1)] /\ sent + (Len(e) + 1) = sent + Len(e) + 1
    BY <2>1, <1>1, <1>2, <1>3
  <2> QED BY <2>1, <2>2, <2>3, <1>4, <1>5
<1> QED BY <1>6, <1>7

\* The code the encoder sends stands for the same string on both sides, even
\* when the decoder has yet to add it, and what it adds then is what the encoder
\* has added before.
LEMMA SameString ==
  ASSUME StreamInvariant, InStep, sent < Len(Bytes), NEW code, code = LongestMatch
  PROVE  /\ Decodable(code) /\ Entry(code) = dict[code + 1]
         /\ prev >= 0 /\ OneBehind => NewEntry(code) = dict[Len(dict)]
<1>1. /\ EncoderTypeOK /\ Usable
      /\ prev \in Nat \cup {-1} /\ table \in Seq(Seq(Byte)) /\ Len(table) \in Nat
  BY WidthAssumption DEF StreamInvariant, DecoderInvariant, TypeOK, Usable
<1>2. /\ code \in 0..(Len(dict) - 1) /\ code \notin {Clear, Eoi}
      /\ dict[code + 1] \in Seq(Byte) /\ dict[code + 1] # <<>>
      /\ IsPrefix(dict[code + 1], Unsent)
  BY <1>1, MatchFound
<1>3. Bytes \in Seq(Byte) /\ sent \in 0..Len(Bytes) /\ Len(Bytes) \in Nat
  BY <1>1, InputsAssumption DEF EncoderTypeOK, Bytes
<1>4. Len(dict) \in Nat /\ code \in Nat /\ code + 1 \in 1..Len(dict)
  <2>1. Len(dict) \in Nat
    BY <1>1 DEF EncoderTypeOK
  <2> QED BY <2>1, <1>2
\* it starts with the next byte
<1>5. Head(dict[code + 1]) = Bytes[sent + 1]
  <2>1. PICK u, e : u = Unsent /\ e = dict[code + 1]
    OBVIOUS
  <2>2. u \in Seq(Byte) /\ Len(u) = Len(Bytes) - sent
    BY <1>1, <2>1, UnsentShape
  <2>3. \A j \in 1..(Len(Bytes) - sent) : u[j] = Bytes[sent + j]
    BY <1>1, <2>1, UnsentShape
  <2>4. e \in Seq(Byte) /\ e # <<>> /\ IsPrefix(e, u)
    BY <1>2, <2>1
  <2>5. 1 \in 1..Len(e) /\ 1 \in 1..(Len(Bytes) - sent)
    BY <1>3, <2>4
  <2>6. e[1] = u[1]
    BY <2>2, <2>4, <2>5, PrefixElements
  <2> QED BY <2>1, <2>3, <2>4, <2>5, <2>6
<1>6. CASE prev = -1
  <2>1. table = dict /\ ~(prev >= 0)
    BY <1>6 DEF InStep
  <2>2. code < Len(table) /\ String(code) = dict[code + 1]
    BY <2>1, <1>2, <1>4 DEF String
  <2> QED BY <2>1, <2>2 DEF Decodable, Entry
<1>7. CASE prev >= 0 /\ OneBehind
  <2>1. prev < Len(table) /\ prev \in Nat /\ prev \notin {Clear, Eoi}
    BY <1>1, <1>7 DEF Usable, StringsUsable
  <2>2. PICK p \in Seq(Byte) : p = String(prev) /\ p # <<>>
    <3>1. String(prev) # <<>>
      BY <1>1, <2>1 DEF Usable, StringsUsable
    <3>2. prev + 1 \in 1..Len(table)
      BY <1>1, <2>1
    <3> QED BY <1>1, <3>1, <3>2, ElementOfSeq DEF String
  <2>3. Bytes[sent + 1] \in Byte
    BY <1>3
  <2>4. /\ Len(dict) = Len(table) + 1
        /\ \A i \in 1..Len(table) : dict[i] = table[i]
        /\ dict[Len(dict)] = Append(p, Bytes[sent + 1])
    BY <1>7, <2>2 DEF OneBehind
  <2>5. CASE code < Len(table)
    <3>1. String(code) = dict[code + 1]
      <4>1. code + 1 \in 1..Len(table)
        BY <2>5, <1>1, <1>4
      <4> QED BY <4>1, <2>4 DEF String
    <3>2. Entry(code) = dict[code + 1] /\ Decodable(code)
      BY <3>1, <2>5 DEF Entry, Decodable
    <3> QED BY <3>2, <1>5, <2>2, <2>4 DEF NewEntry
  <2>6. CASE code = Len(table)
    <3>1. dict[code + 1] = Append(p, Bytes[sent + 1])
      BY <2>4, <2>6
    <3>2. Head(Append(p, Bytes[sent + 1])) = Head(p)
      BY <2>2, <2>3, HeadTailAppend
    <3>3. Head(p) = Bytes[sent + 1]
      BY <3>1, <3>2, <1>5
    <3>4. ~(code < Len(table)) /\ Entry(code) = Append(p, Head(p))
      BY <2>2, <2>6, <1>1 DEF Entry
    <3>5. Entry(code) = dict[code + 1] /\ Decodable(code)
      BY <3>1, <3>3, <3>4, <2>6, <1>7 DEF Decodable
    <3> QED BY <3>5, <1>5, <2>2, <2>4 DEF NewEntry
  <2>7. code < Len(table) \/ code = Len(table)
    BY <2>4, <1>1, <1>2, <1>4
  <2> QED BY <2>5, <2>6, <2>7
<1>8. CASE prev >= 0 /\ ~OneBehind
  <2>1. PastFull
    BY <1>8 DEF InStep
  <2>2. code < Len(table) /\ code + 1 \in 1..Len(dict)
    BY <2>1, <1>1, <1>2, <1>4 DEF PastFull
  <2>3. String(code) = dict[code + 1]
    BY <2>1, <2>2 DEF PastFull, String
  <2> QED BY <2>2, <2>3, <1>8 DEF Entry, Decodable
<1>9. prev = -1 \/ prev >= 0
  BY <1>1
<1> QED BY <1>6, <1>7, <1>8, <1>9

\* What a string code does on the encoder's side.
LEMMA EncoderAdds ==
  ASSUME EncoderTypeOK, SendString, NEW e, e = dict[LongestMatch + 1]
  PROVE  /\ sent' = sent + Len(e) /\ sent' \in 0..Len(Bytes)
         /\ out = SubSeq(Bytes, 1, sent) => out \o e = SubSeq(Bytes, 1, sent')
         /\ Full => dict' = dict
         /\ ~Full => /\ dict' \in Seq(Seq(Byte)) /\ Len(dict') = Len(dict) + 1
                     /\ \A i \in 1..Len(dict) : dict'[i] = dict[i]
                     /\ sent' < Len(Bytes) => dict'[Len(dict')] = Append(e, Bytes[sent' + 1])
<1>1. sent < Len(Bytes) /\ sent' = sent + Len(e)
  BY DEF SendString
<1>2. Bytes \in Seq(Byte) /\ sent \in 0..Len(Bytes) /\ Len(Bytes) \in Nat
  BY UnsentShape
<1>3. e \in Seq(Byte) /\ IsPrefix(e, SubSeq(Bytes, sent + 1, Len(Bytes)))
  BY <1>1, MatchFound DEF Unsent
<1>4. sent' \in 0..Len(Bytes) /\ SubSeq(Bytes, 1, sent) \o e = SubSeq(Bytes, 1, sent')
  BY <1>1, <1>2, <1>3, SentExtends
<1>5. PICK x : x = SubSeq(Unsent, 1, Min({Len(e) + 1, Len(Unsent)}))
  OBVIOUS
<1>6. /\ x \in Seq(Byte)
      /\ sent + Len(e) < Len(Bytes) => x = Append(e, Bytes[sent + Len(e) + 1])
  BY <1>1, <1>5, DictGrows
<1>7. Full => dict' = dict
  BY DEF SendString
<1>8. ~Full => dict' = Append(dict, x)
  BY <1>5 DEF SendString
<1>9. PICK d : d = Append(dict, x)
  OBVIOUS
<1>10. /\ d \in Seq(Seq(Byte)) /\ Len(d) = Len(dict) + 1
       /\ \A i \in 1..Len(dict) : d[i] = dict[i]
       /\ d[Len(dict) + 1] = x
  BY <1>6, <1>9, AppendProperties DEF EncoderTypeOK
<1>11. sent' < Len(Bytes) => x = Append(e, Bytes[sent' + 1])
  BY <1>1, <1>6
<1> QED BY <1>1, <1>4, <1>7, <1>8, <1>9, <1>10, <1>11

\* The encoder's state stays well typed, whatever the decoder makes of the code.
LEMMA EncoderAfterString == EncoderTypeOK /\ SendString => EncoderTypeOK'
<1> SUFFICES ASSUME EncoderTypeOK, SendString PROVE EncoderTypeOK'
  OBVIOUS
<1>1. input' = input /\ damaged' = damaged /\ Bytes' = Bytes
  BY DEF SendString, Bytes
<1>2. sent' \in 0..Len(Bytes)
  BY EncoderAdds
<1>3. 2^MaxWidth \in Nat /\ Alpha + 2 \in Nat
  BY WidthAssumption, AlphaAssumption
<1>4. PICK n \in Nat : n = Len(dict) /\ n >= Alpha + 2 /\ n <= 2^MaxWidth
  BY <1>3 DEF EncoderTypeOK
<1>5. /\ dict' \in Seq(Seq(Byte)) /\ Len(dict') \in (Alpha + 2)..(2^MaxWidth)
      /\ \A i \in 1..n : dict'[i] = dict[i]
  <2>1. CASE Full
    BY <2>1, <1>4, EncoderAdds DEF EncoderTypeOK
  <2>2. CASE ~Full
    <3>1. n # 2^MaxWidth
      BY <2>2, <1>4 DEF Full
    <3>2. /\ dict' \in Seq(Seq(Byte)) /\ Len(dict') = n + 1
          /\ \A i \in 1..n : dict'[i] = dict[i]
      BY <2>2, <1>4, EncoderAdds
    <3> QED BY <3>1, <3>2, <1>3, <1>4
  <2> QED BY <2>1, <2>2
<1>6. \A i \in 1..(Alpha + 2) : dict'[i] = InitialTable[i]
  BY <1>3, <1>4, <1>5 DEF EncoderTypeOK
<1> QED BY <1>1, <1>2, <1>5, <1>6 DEF EncoderTypeOK

\* A string code keeps the two tables in step.
LEMMA StringInStep ==
  ASSUME StreamInvariant, InStep, SendString
  PROVE  InStep'
<1>1. PICK code, e : code = LongestMatch /\ e = dict[code + 1]
  OBVIOUS
<1>2. EncoderTypeOK /\ DecoderInvariant /\ sent < Len(Bytes)
  BY DEF StreamInvariant, SendString
<1>3. code \in 0..(Len(dict) - 1) /\ code \notin {Clear, Eoi}
  BY <1>1, <1>2, MatchFound
<1>4. /\ Decodable(code) /\ Entry(code) = e
      /\ prev >= 0 /\ OneBehind => NewEntry(code) = dict[Len(dict)]
  BY <1>1, <1>2, SameString
<1>5. ReadString(code)
  BY <1>1, <1>3, <1>4 DEF SendString, Read, ReadClear, ReadEoi, ReadInvalid, Ends
<1>6. /\ table \in Seq(Seq(Byte)) /\ Len(table) \in Nat
      /\ prev \in Nat \cup {-1} /\ Usable
      /\ width \in MinWidth..MaxWidth
  BY <1>2, WidthAssumption DEF DecoderInvariant, TypeOK, Usable
<1>7. /\ Len(dict) \in Nat /\ code \in Nat /\ code + 1 \in 1..Len(dict)
      /\ dict \in Seq(Seq(Byte)) /\ dict' \in Seq(Seq(Byte)) /\ Len(dict') \in Nat
  <2>1. dict \in Seq(Seq(Byte)) /\ dict' \in Seq(Seq(Byte))
    BY <1>2, EncoderAfterString DEF EncoderTypeOK
  <2> QED BY <2>1, <1>3
<1>8. /\ out' = out \o e /\ prev' = code /\ status' = status /\ String(prev)' = table'[code + 1]
      /\ table' = IF prev >= 0 THEN Append(table, NewEntry(code)) ELSE table
      /\ width' = IF Len(table') + 1 = 2^width /\ width < MaxWidth THEN width + 1 ELSE width
  BY <1>4, <1>5 DEF ReadString, Widens, String
\* the decoder's table has now caught up with what the encoder's was
<1>9. /\ table' \in Seq(Seq(Byte)) /\ Len(table') \in Nat
      /\ Len(dict) <= Len(table') /\ (Len(dict) = Len(table') \/ Full)
      /\ \A i \in 1..Len(dict) : table'[i] = dict[i]
  <2>1. CASE prev = -1
    BY <2>1, <1>6, <1>7, <1>8 DEF InStep
  <2>2. CASE prev >= 0
    <3>1. PICK x : x = NewEntry(code) /\ table' = Append(table, x)
      BY <2>2, <1>8
    <3>2. x \in Seq(Byte)
      BY <3>1, <2>2, <1>3, <1>4, <1>6, <1>7, NewEntryUsable
    <3>3. /\ table' \in Seq(Seq(Byte)) /\ Len(table') = Len(table) + 1
          /\ \A i \in 1..Len(table) : table'[i] = table[i]
          /\ table'[Len(table) + 1] = x
      BY <3>1, <3>2, <1>6, AppendProperties
    <3>4. CASE OneBehind
      <4>1. /\ Len(dict) = Len(table) + 1 /\ x = dict[Len(dict)]
            /\ \A i \in 1..Len(table) : dict[i] = table[i]
        BY <3>1, <3>4, <2>2, <1>4 DEF OneBehind
      <4>2. ASSUME NEW i \in 1..Len(dict) PROVE table'[i] = dict[i]
        <5>1. i \in 1..Len(table) \/ i = Len(table) + 1
          BY <4>1, <1>6, <1>7
        <5> QED BY <5>1, <4>1, <3>3
      <4> QED BY <4>1, <4>2, <3>3, <1>6
    <3>5. CASE PastFull
      <4>1. Full /\ Len(dict) <= Len(table) /\ \A i \in 1..Len(dict) : dict[i] = table[i]
        BY <3>5 DEF PastFull
      <4>2. \A i \in 1..Len(dict) : i \in 1..Len(table)
        BY <4>1, <1>6, <1>7
      <4>3. \A i \in 1..Len(dict) : table'[i] = dict[i]
        BY <4>1, <4>2, <3>3
      <4> QED BY <4>1, <4>3, <3>3, <1>6, <1>7
    <3> QED BY <3>4, <3>5, <2>2 DEF InStep
  <2>3. prev = -1 \/ prev >= 0
    BY <1>6
  <2> QED BY <2>1, <2>2, <2>3
<1>10. /\ input' = input /\ Bytes' = Bytes /\ sent' \in 0..Len(Bytes) /\ Len(Bytes) \in Nat
  <2>1. input' = input /\ Bytes' = Bytes
    BY DEF SendString, Bytes
  <2>2. Len(Bytes) \in Nat
    BY <1>2, InputsAssumption DEF EncoderTypeOK, Bytes
  <2> QED BY <2>1, <2>2, <1>1, <1>2, EncoderAdds
<1>11. out' = SubSeq(Bytes', 1, sent')
  BY <1>1, <1>2, <1>8, <1>10, EncoderAdds DEF InStep
<1>12. ASSUME OneBehind' \/ PastFull', width' = codeWidth' PROVE InStep'
  <2>1. status' # "failed" /\ prev' # -1
    BY <1>7, <1>8 DEF InStep
  <2> QED BY <2>1, <1>11, <1>12 DEF InStep
<1>13. CASE Full
  <2>1. dict' = dict /\ Full' /\ Len(dict) = 2^MaxWidth
    BY <1>1, <1>2, <1>13, EncoderAdds DEF Full
  <2>2. PastFull'
    BY <2>1, <1>9 DEF PastFull
  <2>3. width = MaxWidth
    <3>1. 2^width \in Nat /\ 2^width <= 2^MaxWidth /\ 2^MaxWidth \in Nat
      BY <1>6, WidthAssumption
    <3>2. Len(table) + 1 >= 2^MaxWidth
      <4>1. CASE prev = -1
        BY <4>1, <2>1, <1>6 DEF InStep
      <4>2. CASE prev >= 0
        BY <4>2, <2>1, <1>6, <3>1 DEF InStep, OneBehind, PastFull
      <4> QED BY <4>1, <4>2, <1>6
    <3>3. width < MaxWidth => Len(table) + 1 < 2^width
      BY <1>2 DEF DecoderInvariant, EarlyChange
    <3>4. ~(width < MaxWidth)
      BY <3>1, <3>2, <3>3, <1>6
    <3> QED BY <3>4, <1>6, WidthAssumption
  <2>4. width' = width /\ codeWidth' = codeWidth
    <3>1. ~(width < MaxWidth) /\ codeWidth = width
      BY <2>3, <1>6 DEF InStep
    <3> QED BY <3>1, <1>8 DEF SendString
  <2>5. codeWidth = width
    BY DEF InStep
  <2> QED BY <2>2, <2>4, <2>5, <1>12
<1>14. CASE ~Full
  <2>1. /\ Len(dict') = Len(dict) + 1 /\ Len(dict) = Len(table')
        /\ \A i \in 1..Len(dict) : dict'[i] = dict[i]
        /\ sent' < Len(Bytes) => dict'[Len(dict')] = Append(e, Bytes[sent' + 1])
    BY <1>1, <1>2, <1>9, <1>14, EncoderAdds
  <2>2. String(prev)' = e
    BY <1>1, <1>7, <1>8, <1>9
  <2>3. OneBehind'
    BY <2>1, <2>2, <1>9, <1>10 DEF OneBehind
  <2>4. width' = codeWidth'
    <3>1. codeWidth' = IF Len(dict') = 2^codeWidth /\ codeWidth < MaxWidth
                       THEN codeWidth + 1 ELSE codeWidth
      BY DEF SendString
    <3>2. Len(table') + 1 = Len(dict') /\ width = codeWidth
      BY <2>1 DEF InStep
    <3> QED BY <3>1, <3>2, <1>8
  <2> QED BY <2>3, <2>4, <1>12
<1> QED BY <1>13, <1>14

\* Before the first code both sides are as after a Clear.
LEMMA StreamInitHolds == StreamInit => StreamInvariant
<1> SUFFICES ASSUME StreamInit PROVE StreamInvariant
  OBVIOUS
<1>1. DecoderInvariant
  BY InitHolds DEF StreamInit
<1>2. InStep
  <2>1. SubSeq(Bytes, 1, 0) = <<>>
    BY SubSeqEmpty
  <2>2. status # "failed" /\ ~(prev >= 0) /\ out = <<>> /\ sent = 0
    BY DEF StreamInit, Init
  <2> QED BY <2>1, <2>2 DEF StreamInit, Init, InStep
<1>3. EncoderTypeOK
  <2>1. Bytes \in Seq(Byte)
    BY InputsAssumption DEF StreamInit, Bytes
  <2>2. sent \in 0..Len(Bytes)
    BY <2>1 DEF StreamInit
  <2>3. Len(InitialTable) \in (Alpha + 2)..(2^MaxWidth)
    <3>1. 2^MinWidth \in Nat /\ 2^MinWidth <= 2^MaxWidth /\ 2^MaxWidth \in Nat
      BY WidthAssumption
    <3> QED BY <3>1, InitialTableUsable, WidthAssumption, AlphaAssumption
  <2> QED BY <2>2, <2>3, InitialTableUsable DEF StreamInit, EncoderTypeOK
<1> QED BY <1>1, <1>2, <1>3 DEF StreamInvariant

\* The codes the encoder sends, and those damage leaves, are codes of at most
\* the widest width: what they do to the decoder keeps its own invariant.
LEMMA DecoderUnderStream == StreamInvariant /\ StreamNext => DecoderInvariant'
<1> SUFFICES ASSUME StreamInvariant, StreamNext PROVE DecoderInvariant'
  OBVIOUS
<1>1. DecoderInvariant /\ EncoderTypeOK
  BY DEF StreamInvariant
<1>2. 2^MaxWidth \in Nat /\ Alpha + 3 < 2^MaxWidth
  BY WidthAssumption, AlphaAssumption
<1>3. CASE SendString
  <2>1. LongestMatch \in 0..(Len(dict) - 1)
    BY <1>1, <1>3, MatchFound DEF SendString
  <2>2. Len(dict) <= 2^MaxWidth /\ Len(dict) \in Nat
    BY <1>1, <1>2, AlphaAssumption DEF EncoderTypeOK
  <2>3. LongestMatch \in 0..(2^MaxWidth - 1)
    BY <2>1, <2>2, <1>2
  <2> QED BY <2>3, <1>1, <1>3, ReadPreserves DEF SendString
<1>4. CASE SendClear
  <2>1. Clear \in 0..(2^MaxWidth - 1)
    BY <1>2, AlphaAssumption DEF Clear
  <2> QED BY <2>1, <1>1, <1>4, ReadPreserves DEF SendClear
<1>5. CASE SendEoi
  <2>1. Eoi \in 0..(2^MaxWidth - 1)
    BY <1>2, AlphaAssumption DEF Eoi
  <2> QED BY <2>1, <1>1, <1>5, ReadPreserves DEF SendEoi
<1>6. CASE CutOff
  BY <1>1, <1>6, EndPreserves DEF CutOff, EndOfInput
<1>7. CASE Damage
  BY <1>1, <1>7, CodesAreWide, ReadPreserves DEF Damage
<1> QED BY <1>3, <1>4, <1>5, <1>6, <1>7 DEF StreamNext

\* The encoder's state stays well typed, whatever is read.
LEMMA EncoderUnderStream == EncoderTypeOK /\ StreamNext => EncoderTypeOK'
<1> SUFFICES ASSUME EncoderTypeOK, StreamNext PROVE EncoderTypeOK'
  OBVIOUS
<1>1. CASE SendString
  BY <1>1, EncoderAfterString
<1>2. CASE SendClear
  <2>1. Len(InitialTable) \in (Alpha + 2)..(2^MaxWidth)
    <3>1. 2^MinWidth \in Nat /\ 2^MinWidth <= 2^MaxWidth /\ 2^MaxWidth \in Nat
      BY WidthAssumption
    <3> QED BY <3>1, InitialTableUsable, WidthAssumption, AlphaAssumption
  <2> QED BY <2>1, <1>2, InitialTableUsable DEF SendClear, EncoderTypeOK, Bytes
<1>3. CASE SendEoi \/ CutOff
  BY <1>3 DEF SendEoi, CutOff, EncoderTypeOK, Bytes
<1>4. CASE Damage
  <2>1. damaged' \in Nat
    BY <1>4 DEF Damage, EncoderTypeOK
  <2> QED BY <2>1, <1>4 DEF Damage, EncoderTypeOK, Bytes
<1> QED BY <1>1, <1>2, <1>3, <1>4 DEF StreamNext

\* Without damage the two sides stay in step.
LEMMA StaysInStep ==
  ASSUME StreamInvariant, StreamNext, damaged' = 0
  PROVE  InStep'
<1>1. DecoderInvariant /\ EncoderTypeOK
  BY DEF StreamInvariant
<1>2. ~Damage
  BY <1>1 DEF Damage, EncoderTypeOK
<1>3. damaged = 0
  BY <1>2 DEF StreamNext, SendString, SendClear, SendEoi, CutOff
<1>4. InStep
  BY <1>3 DEF StreamInvariant
<1>5. CASE SendString
  BY <1>4, <1>5, StringInStep
<1>6. CASE SendClear
  <2>1. ReadClear(Clear)
    <3>1. Clear # Eoi
      BY AlphaAssumption DEF Clear, Eoi
    <3> QED BY <3>1, <1>6 DEF SendClear, Read, ReadEoi, ReadString, ReadInvalid, Ends
  <2>2. prev' = -1 /\ ~(prev' >= 0) /\ status' # "failed"
    BY <2>1 DEF ReadClear
  <2>3. Bytes' = Bytes /\ sent' = sent /\ out' = out
    BY <2>1, <1>6 DEF SendClear, ReadClear, Bytes
  <2>4. table' = InitialTable /\ dict' = InitialTable /\ width' = codeWidth'
    BY <2>1, <1>6 DEF SendClear, ReadClear
  <2> QED BY <2>2, <2>3, <2>4, <1>4 DEF InStep
<1>7. CASE SendEoi \/ CutOff
  <2>1. SendEoi => ReadEoi(Eoi)
    <3>1. Clear # Eoi
      BY AlphaAssumption DEF Clear, Eoi
    <3> QED BY <3>1 DEF SendEoi, Read, ReadClear, ReadString, ReadInvalid, Ends
  <2>2. status' = "accepted" /\ UNCHANGED <<table, width, prev, out>>
    BY <2>1, <1>7 DEF ReadEoi, CutOff, EndOfInput
  <2>3. UNCHANGED <<input, sent, dict, codeWidth>>
    BY <1>7 DEF SendEoi, CutOff
  <2>4. status' # "failed" /\ Bytes' = Bytes /\ String(prev)' = String(prev)
    BY <2>2, <2>3 DEF Bytes, String
  <2>5. OneBehind' <=> OneBehind
    BY <2>2, <2>3, <2>4 DEF OneBehind
  <2>6. PastFull' <=> PastFull
    BY <2>2, <2>3 DEF PastFull, Full
  <2> QED BY <2>2, <2>3, <2>4, <2>5, <2>6, <1>4 DEF InStep
<1> QED BY <1>2, <1>5, <1>6, <1>7 DEF StreamNext

\* The invariant of the stream is inductive.
LEMMA StreamStep == StreamInvariant /\ [StreamNext]_streamVars => StreamInvariant'
<1> SUFFICES ASSUME StreamInvariant, [StreamNext]_streamVars PROVE StreamInvariant'
  OBVIOUS
<1>1. CASE StreamNext
  <2>1. DecoderInvariant'
    BY <1>1, DecoderUnderStream
  <2>2. EncoderTypeOK'
    BY <1>1, EncoderUnderStream DEF StreamInvariant
  <2>3. damaged' = 0 => InStep'
    BY <1>1, StaysInStep
  <2> QED BY <2>1, <2>2, <2>3 DEF StreamInvariant
<1>2. CASE UNCHANGED streamVars
  <2>1. UNCHANGED <<table, width, prev, out, status, input, sent, dict, codeWidth, damaged>>
    BY <1>2 DEF streamVars, lzwVars
  <2>2. DecoderInvariant'
    BY <2>1, EndPreserves DEF StreamInvariant, DecoderInvariant, TypeOK
  <2>3. EncoderTypeOK'
    BY <2>1 DEF StreamInvariant, EncoderTypeOK, Bytes
  <2>4. Bytes' = Bytes /\ String(prev)' = String(prev)
    BY <2>1 DEF Bytes, String
  <2>5. (OneBehind' <=> OneBehind) /\ (PastFull' <=> PastFull)
    BY <2>1, <2>4 DEF OneBehind, PastFull, Full
  <2>6. InStep' <=> InStep
    BY <2>1, <2>4, <2>5 DEF InStep
  <2> QED BY <2>1, <2>2, <2>3, <2>6 DEF StreamInvariant
<1> QED BY <1>1, <1>2

\* The code widths of the two sides agree at every code, for every input, every
\* alphabet and all widths, wherever the encoder puts its Clear codes.
THEOREM LzwWidthsAgree == StreamSpec => []WidthsAgree
<1>1. StreamInvariant => WidthsAgree
  BY DEF StreamInvariant, InStep, WidthsAgree
<1> QED BY StreamInitHolds, StreamStep, <1>1, PTL DEF StreamSpec

\* DecodeLzw gives back what a proper encoder was given, as far as its codes
\* were read.
THEOREM LzwDecodesWhatWasSent == StreamSpec => []DecodesWhatWasSent
<1>1. StreamInvariant => DecodesWhatWasSent
  BY DEF StreamInvariant, InStep, DecodesWhatWasSent
<1> QED BY StreamInitHolds, StreamStep, <1>1, PTL DEF StreamSpec

\* No code was read that was never sent.
Undamaged == damaged = 0

\* A code of the encoder is one of the width it is written in, and the decoder
\* reads it in that width: without damage every step is one of the decoder's.
\* The invariant of the stream is inductive.
LEMMA StreamStepIsStep ==
  StreamInvariant /\ Undamaged /\ Undamaged' /\ [StreamNext]_streamVars => [Next]_lzwVars
<1> SUFFICES ASSUME StreamInvariant, damaged = 0, damaged' = 0, StreamNext PROVE Next
  BY DEF streamVars, lzwVars, Undamaged
<1>1. DecoderInvariant /\ EncoderTypeOK /\ InStep
  BY DEF StreamInvariant
<1>2. /\ width \in MinWidth..MaxWidth /\ 2^width \in Nat /\ 2^MaxWidth \in Nat
      /\ 2^MinWidth \in Nat /\ 2^MinWidth <= 2^MaxWidth
  BY <1>1, WidthAssumption DEF DecoderInvariant, TypeOK
<1>3. Len(table) \in Nat /\ Len(dict) \in Nat /\ Len(table) >= Alpha + 2 /\ Len(dict) <= 2^MaxWidth
  <2>1. table \in Seq(Seq(Byte)) /\ dict \in Seq(Seq(Byte))
    BY <1>1 DEF DecoderInvariant, TypeOK, EncoderTypeOK
  <2>2. Len(table) >= Alpha + 2 /\ Len(dict) <= 2^MaxWidth
    BY <1>1, <1>2, AlphaAssumption DEF DecoderInvariant, TypeOK, EncoderTypeOK
  <2> QED BY <2>1, <2>2
<1>4. Len(dict) <= 2^width /\ Alpha + 2 <= 2^width
  <2>1. CASE width < MaxWidth
    <3>1. Len(table) + 1 < 2^width
      BY <2>1, <1>1 DEF DecoderInvariant, EarlyChange
    <3>2. Len(dict) <= Len(table) + 1
      <4>1. CASE prev = -1
        BY <4>1, <1>1, <1>3 DEF InStep
      <4>2. CASE prev >= 0 /\ OneBehind
        BY <4>2, <1>3 DEF OneBehind
      <4>3. CASE prev >= 0 /\ PastFull
        BY <4>3, <1>3 DEF PastFull
      <4>4. prev = -1 \/ prev >= 0
        BY <1>1, <1>2 DEF DecoderInvariant, TypeOK
      <4> QED BY <4>1, <4>2, <4>3, <4>4, <1>1 DEF InStep
    <3> QED BY <3>1, <3>2, <1>2, <1>3, AlphaAssumption
  <2>2. CASE ~(width < MaxWidth)
    <3>1. width = MaxWidth
      BY <2>2, <1>2, WidthAssumption
    <3>2. Alpha + 2 <= 2^MaxWidth
      BY <1>2, AlphaAssumption, WidthAssumption
    <3> QED BY <3>1, <3>2, <1>3
  <2> QED BY <2>1, <2>2
<1>5. CASE SendString
  <2>1. LongestMatch \in 0..(Len(dict) - 1)
    BY <1>1, <1>5, MatchFound DEF SendString
  <2>2. LongestMatch \in Codes
    BY <2>1, <1>2, <1>3, <1>4 DEF Codes
  <2> QED BY <2>2, <1>5 DEF SendString, Next
<1>6. Clear \in Codes /\ Eoi \in Codes
  BY <1>2, <1>4, AlphaAssumption DEF Clear, Eoi, Codes
<1>7. CASE SendClear \/ SendEoi
  BY <1>6, <1>7 DEF SendClear, SendEoi, Next
<1>8. CASE CutOff
  BY <1>8 DEF CutOff, Next
<1>9. ~Damage
  BY <1>1 DEF Damage
<1> QED BY <1>5, <1>7, <1>8, <1>9 DEF StreamNext

\* Read without damage, an encoder's stream is one of the streams of codes of
\* LzwDecode: the codes it sends fit the width the decoder reads them in.
THEOREM LzwStreamImplementsDecode == StreamSpec /\ []Undamaged => Spec
<1>1. StreamInit => Init
  BY DEF StreamInit
<1> QED BY <1>1, StreamInitHolds, StreamStep, StreamStepIsStep, PTL DEF StreamSpec, Spec
=============================================================================
