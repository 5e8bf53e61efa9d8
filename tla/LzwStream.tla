------------------------------ MODULE LzwStream ------------------------------
(***************************************************************************)
(* DecodeLzw reading what a TIFF 6.0 encoder writes.  The encoder is not   *)
(* part of the repository: it is the counterpart the decoder is written    *)
(* for ("MSB-first bit packing, 9-12 bit codes, early change"), with the   *)
(* liberties encoders take: Clear codes where they please, and none when   *)
(* the table is full, which then stays as it is while the decoder's grows. *)
(* The stream may be cut off, and codes that were never sent may appear in *)
(* it.                                                                     *)
(*                                                                         *)
(* The decoder reads a code as soon as it is written: the encoder never    *)
(* sees the decoder, so any later reading gives the same result.           *)
(***************************************************************************)
EXTENDS LzwDecode, SequencesExt, FiniteSetsExt

CONSTANTS
  Inputs,      \* [bytes, damage]: what is encoded, codes that may be damaged
  MaxClears    \* bound on the Clear codes the encoder need not send

ASSUME InputsAssumption ==
  /\ \A i \in Inputs : i.bytes \in Seq(Byte) /\ i.damage \in Nat
  /\ MaxClears \in Nat

VARIABLES
  input,       \* the element of Inputs
  sent,        \* how many of them the codes written stand for
  dict,        \* the encoder's table
  codeWidth,   \* the encoder's code width
  clears,      \* Clear codes that were not needed
  damaged      \* codes read so far that were never sent

streamVars == <<lzwVars, input, sent, dict, codeWidth, clears, damaged>>

StreamInit ==
  /\ Init
  /\ input \in Inputs /\ sent = 0 /\ clears = 0 /\ damaged = 0
  /\ dict = InitialTable /\ codeWidth = MinWidth

Bytes == input.bytes
Unsent == SubSeq(Bytes, sent + 1, Len(Bytes))

\* The code of the longest string of the table the unsent bytes start with.
LongestMatch ==
  LET Matches == {c \in 0..(Len(dict) - 1) :
                    dict[c + 1] # <<>> /\ IsPrefix(dict[c + 1], Unsent)}
  IN  CHOOSE c \in Matches : \A d \in Matches : Len(dict[c + 1]) >= Len(dict[d + 1])

Full == Len(dict) = 2^MaxWidth

\* Every string code written counts towards the width, the last one too.
SendString ==
  /\ sent < Len(Bytes)
  /\ LET n == Len(dict[LongestMatch + 1]) IN
     /\ Read(LongestMatch)
     /\ sent' = sent + n
     /\ dict' = IF Full THEN dict
                ELSE Append(dict, SubSeq(Unsent, 1, Min({n + 1, Len(Unsent)})))
     /\ codeWidth' = IF Len(dict') = 2^codeWidth /\ codeWidth < MaxWidth
                     THEN codeWidth + 1 ELSE codeWidth
  /\ UNCHANGED <<input, clears, damaged>>

SendClear ==
  /\ Full \/ clears < MaxClears
  /\ clears' = IF Full THEN clears ELSE clears + 1
  /\ Read(Clear)
  /\ dict' = InitialTable /\ codeWidth' = MinWidth
  /\ UNCHANGED <<input, sent, damaged>>

SendEoi ==
  /\ sent = Len(Bytes) /\ Read(Eoi)
  /\ UNCHANGED <<input, sent, dict, codeWidth, clears, damaged>>

CutOff ==
  /\ EndOfInput
  /\ UNCHANGED <<input, sent, dict, codeWidth, clears, damaged>>

Damage ==
  /\ damaged < input.damage /\ damaged' = damaged + 1
  /\ \E anything \in Codes : Read(anything)
  /\ UNCHANGED <<input, sent, dict, codeWidth, clears>>

StreamNext == SendString \/ SendClear \/ SendEoi \/ CutOff \/ Damage

StreamSpec == StreamInit /\ [][StreamNext]_streamVars

-----------------------------------------------------------------------------

\* The decoder's code width is the encoder's at every code, though its table is
\* always one entry behind: otherwise every code after it would be misread.
WidthsAgree == status = "reading" /\ damaged = 0 => width = codeWidth

\* What has been decoded is what the codes read so far stand for, and nothing a
\* proper encoder writes is refused, wherever the stream is cut off.
DecodesWhatWasSent ==
  damaged = 0 => status # "failed" /\ out = SubSeq(Bytes, 1, sent)
=============================================================================
