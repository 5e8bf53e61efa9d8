------------------------------ MODULE LzwDecode ------------------------------
(***************************************************************************)
(* DecodeLzw of tiff_compression.cc: one action per code read.  The codes  *)
(* are arbitrary: any bits are some codes of the current width, and the    *)
(* stream may end anywhere.  Alphabet, first and last code width are       *)
(* constants (256, 9 and 12 in the code).                                  *)
(***************************************************************************)
EXTENDS Integers, Sequences

CONSTANTS
  Alpha,       \* number of literal codes
  MinWidth,    \* code width after a Clear
  MaxWidth     \* widest code

ASSUME AlphaAssumption == Alpha \in Nat \ {0}

ASSUME WidthAssumption ==
  /\ MinWidth \in Nat \ {0} /\ MaxWidth \in Nat /\ MinWidth <= MaxWidth
  /\ Alpha + 3 < 2^MinWidth
  /\ \A w \in MinWidth..MaxWidth : 2^w \in Nat \ {0} /\ 2^(w + 1) = 2 * 2^w /\ 2^w <= 2^MaxWidth

VARIABLES
  table,       \* what each code stands for, code c at position c + 1
  width,       \* code_width
  prev,        \* the code before, -1 after a Clear
  out,         \* bytes produced
  status       \* "reading", "accepted" or "failed"

lzwVars == <<table, width, prev, out, status>>

Byte == 0..(Alpha - 1)
Clear == Alpha                     \* kClear
Eoi == Alpha + 1                   \* kEoi
Codes == 0..(2^width - 1)          \* LzwBitReader::Read

\* reset_table: the literals, and two codes that stand for nothing
InitialTable ==
  [i \in 1..(Alpha + 2) |-> IF i <= Alpha THEN <<i - 1>> ELSE <<>>]

String(code) == table[code + 1]

Init ==
  /\ table = InitialTable /\ width = MinWidth /\ prev = -1
  /\ out = <<>> /\ status = "reading"

-----------------------------------------------------------------------------

ReadClear(code) ==
  /\ status = "reading" /\ code = Clear
  /\ table' = InitialTable /\ width' = MinWidth /\ prev' = -1
  /\ UNCHANGED <<out, status>>

NeverEnds(code) == FALSE   \* mutant: the end code is taken for a string
Ends(code) == code = Eoi

ReadEoi(code) ==
  /\ status = "reading" /\ Ends(code)
  /\ status' = "accepted"
  /\ UNCHANGED <<table, width, prev, out>>

\* A code of the table, or the one about to be added to it.
Decodable(code) == code < Len(table) \/ (code = Len(table) /\ prev >= 0)

Entry(code) ==
  IF code < Len(table) THEN String(code)
  ELSE Append(String(prev), Head(String(prev)))

WidensLate(n) == n = 2^width /\ width < MaxWidth   \* mutant: no early change
WidensPast(n) == n + 1 = 2^width                   \* mutant: no last width
Widens(n) == n + 1 = 2^width /\ width < MaxWidth

\* mutant: the two strings of a new entry change places
SwappedEntry(code) == Append(Entry(code), Head(String(prev)))
NewEntry(code) == Append(String(prev), Head(Entry(code)))

ReadString(code) ==
  /\ status = "reading" /\ code # Clear /\ ~Ends(code) /\ Decodable(code)
  /\ out' = out \o Entry(code)
  /\ table' = IF prev >= 0 THEN Append(table, NewEntry(code)) ELSE table
  /\ prev' = code
  /\ width' = IF Widens(Len(table')) THEN width + 1 ELSE width
  /\ UNCHANGED status

ReadInvalid(code) ==
  /\ status = "reading" /\ code # Clear /\ ~Ends(code) /\ ~Decodable(code)
  /\ status' = "failed"
  /\ UNCHANGED <<table, width, prev, out>>

Read(code) ==
  ReadClear(code) \/ ReadEoi(code) \/ ReadString(code) \/ ReadInvalid(code)

\* Too few bits for another code: what was decoded is accepted.
EndOfInput ==
  /\ status = "reading" /\ status' = "accepted"
  /\ UNCHANGED <<table, width, prev, out>>

Next == (\E code \in Codes : Read(code)) \/ EndOfInput

Spec == Init /\ [][Next]_lzwVars

-----------------------------------------------------------------------------

TypeOK ==
  /\ table \in Seq(Seq(Byte)) /\ Len(table) >= Alpha + 2
  /\ width \in MinWidth..MaxWidth
  /\ prev \in -1..(2^MaxWidth - 1)
  /\ out \in Seq(Byte)
  /\ status \in {"reading", "accepted", "failed"}

\* Whatever the codes are, the decoder never takes the first byte of an empty
\* vector and never indexes past its table: every code but Clear and Eoi stands
\* for a string of at least one byte, and the code before is such a code of the
\* current table (table[prev][0] and entry[0], tiff_compression.cc:264-273).
StringsUsable ==
  /\ \A c \in 0..(Len(table) - 1) : c \notin {Clear, Eoi} => String(c) # <<>>
  /\ prev >= 0 => prev < Len(table) /\ prev \notin {Clear, Eoi}

\* While codes may still widen, the code about to be added fits the current
\* width with one to spare: the early change is never missed, which would leave
\* the width behind for good since it is only tested for equality (279).
EarlyChange == width < MaxWidth => Len(table) + 1 < 2^width

\* A stream that is never cleared adds a string to the table with every code,
\* beyond what a code can name (276); still no string is longer than the widest
\* codes allow, so that a code adds a bounded number of bytes to the output.
StringsBounded ==
  \A c \in 0..(Len(table) - 1) :
    /\ c < Alpha => Len(String(c)) = 1
    /\ c > Eoi => Len(String(c)) <= c - Alpha /\ Len(String(c)) <= 2^MaxWidth - Alpha
=============================================================================
