----------------------------- MODULE DeflateStrips -----------------------------
(***************************************************************************)
(* What DecodeDeflate should make of a strip, from the format (RFC 1951):  *)
(* an encoder writes items, block headers, code lengths, literals, matches *)
(* and ends of blocks, each as a few fields.  Meaning says what the first  *)
(* k items are: whether they may follow each other, which symbols have a   *)
(* code, and which bytes they stand for.                                   *)
(*                                                                         *)
(* The items of a strip are given with it, and whether a zlib header was   *)
(* written before them.  The decoder looks at neither.                     *)
(***************************************************************************)
EXTENDS Inflate

Kinds == {"stored", "fixed", "dynamic", "length", "repeat", "literal", "match", "end"}
Items == [kind : Kinds, fields : Seq(Nat)]

ASSUME ItemsAssumption == \A s \in Strips : s.items \in Seq(Items) /\ s.zlib \in BOOLEAN

-----------------------------------------------------------------------------
(* A match: its length symbol, the extra bits of it if it has any, its     *)
(* distance symbol, and the extra bits of that.                            *)

FieldFor(extra) == IF extra > 0 THEN 1 ELSE 0

LengthSymbol(f) == f[1] - EndOfBlock
DistanceAt(f) == 2 + FieldFor(LenExtra[LengthSymbol(f)])
DistanceSymbol(f) == f[DistanceAt(f)]

MatchLength(f) ==
  LenBase[LengthSymbol(f)] + (IF LenExtra[LengthSymbol(f)] > 0 THEN f[2] ELSE 0)
MatchDistance(f) ==
  DistBase[DistanceSymbol(f) + 1] + (IF DistExtra[DistanceSymbol(f) + 1] > 0 THEN f[Len(f)] ELSE 0)

LengthWritten(f) ==
  LET extra == LenExtra[LengthSymbol(f)]
  IN  LengthSymbol(f) \in 1..Len(LenBase) /\ (extra > 0 => f[2] < 2^extra)
DistanceWritten(f) ==
  LET extra == DistExtra[DistanceSymbol(f) + 1]
  IN  /\ Len(f) >= DistanceAt(f) /\ DistanceSymbol(f) < Len(DistBase)
      /\ Len(f) = DistanceAt(f) + FieldFor(extra) /\ (extra > 0 => f[Len(f)] < 2^extra)

\* n bytes, from those back bytes before the end on, which repeat themselves.
Repetition(bytes, back, n) ==
  [k \in 1..n |-> bytes[Len(bytes) - back + 1 + ((k - 1) % back)]]

-----------------------------------------------------------------------------
(* Items one after the other.                                              *)

Nothing ==
  [mode |-> "header", final |-> FALSE, hlit |-> 0, hdist |-> 0, clCodes |-> {},
   lengths |-> <<>>, lit |-> {}, dist |-> {}, bytes |-> <<>>]

RepeatCount(f) == RepeatBase[f[1] - 1] + f[2]
LengthsLeft(m) == m.hlit + m.hdist - Len(m.lengths)

\* Item i may follow items that mean m.
Fits(m, i) ==
  LET f == i.fields IN
  CASE i.kind = "stored" ->
         /\ m.mode = "header" /\ Len(f) >= 4 /\ f[1] \in 0..1 /\ f[2] = 0
         /\ f[3] = Len(f) - 4 /\ f[3] < 2^StoredBits
    [] i.kind = "fixed" ->
         m.mode = "header" /\ Len(f) = 2 /\ f[1] \in 0..1 /\ f[2] = 1
    [] i.kind = "dynamic" ->
         /\ m.mode = "header" /\ Len(f) \in 9..10 /\ f[1] \in 0..1 /\ f[2] = 2
         /\ f[3] \in 0..3 /\ f[4] \in 0..3 /\ f[5] = Len(f) - 9
         /\ f[3] + Literals + 1 <= MaxLit /\ f[4] + 1 <= Len(DistBase)
         /\ \A k \in 6..Len(f) : f[k] \in 0..1
    [] i.kind = "length" ->
         m.mode = "lengths" /\ Len(f) = 1 /\ f[1] \in m.clCodes \cap {0, 1}
    [] i.kind = "repeat" ->
         /\ m.mode = "lengths" /\ Len(f) = 2 /\ f[1] \in m.clCodes \ {0, 1}
         /\ f[1] = RepeatLast => m.lengths # <<>>
         /\ f[2] < 2^RepeatBits[f[1] - 1] /\ RepeatCount(f) <= LengthsLeft(m)
    [] i.kind = "literal" ->
         m.mode = "symbols" /\ Len(f) = 1 /\ f[1] \in m.lit /\ f[1] < EndOfBlock
    [] i.kind = "match" ->
         /\ m.mode = "symbols" /\ Len(f) >= 2 /\ f[1] \in m.lit
         /\ LengthWritten(f) /\ DistanceWritten(f)
         /\ DistanceSymbol(f) \in m.dist /\ MatchDistance(f) <= Len(m.bytes)
    [] OTHER ->
         m.mode = "symbols" /\ f = <<EndOfBlock>> /\ EndOfBlock \in m.lit

AfterBlock(last) == IF last THEN "done" ELSE "header"

WithLengths(m, new) ==
  LET all == m.lengths \o new IN
  IF Len(new) < LengthsLeft(m) THEN [m EXCEPT !.lengths = all]
  ELSE [m EXCEPT !.mode = "symbols", !.lengths = all,
                 !.lit = {s \in 0..(m.hlit - 1) : all[s + 1] # 0},
                 !.dist = {s \in 0..(m.hdist - 1) : all[m.hlit + s + 1] # 0}]

\* What items mean that are followed by i.
After(m, i) ==
  LET f == i.fields IN
  CASE ~Fits(m, i) -> [m EXCEPT !.mode = "wrong"]
    [] Fits(m, i) /\ i.kind = "stored" ->
         [m EXCEPT !.mode = AfterBlock(f[1] = 1), !.final = (f[1] = 1),
                   !.bytes = @ \o SubSeq(f, 5, Len(f))]
    [] Fits(m, i) /\ i.kind = "fixed" ->
         [m EXCEPT !.mode = "symbols", !.final = (f[1] = 1),
                   !.lit = 0..(FixedLit - 1), !.dist = 0..(Len(DistBase) - 1)]
    [] Fits(m, i) /\ i.kind = "dynamic" ->
         [m EXCEPT !.mode = "lengths", !.final = (f[1] = 1), !.lengths = <<>>,
                   !.hlit = f[3] + Literals + 1, !.hdist = f[4] + 1,
                   !.clCodes = {ClOrder[k] : k \in {k \in 1..(Len(f) - 5) : f[5 + k] = 1}}]
    [] Fits(m, i) /\ i.kind = "length" -> WithLengths(m, f)
    [] Fits(m, i) /\ i.kind = "repeat" ->
         LET value == IF f[1] = RepeatLast THEN m.lengths[Len(m.lengths)] ELSE 0
         IN  WithLengths(m, [k \in 1..RepeatCount(f) |-> value])
    [] Fits(m, i) /\ i.kind = "literal" -> [m EXCEPT !.bytes = @ \o f]
    [] Fits(m, i) /\ i.kind = "match" ->
         [m EXCEPT !.bytes = @ \o Repetition(@, MatchDistance(f), MatchLength(f))]
    [] OTHER -> [m EXCEPT !.mode = AfterBlock(m.final)]

Meaning(items) ==
  LET m[k \in 0..Len(items)] == IF k = 0 THEN Nothing ELSE After(m[k - 1], items[k])
  IN  m

\* The fields that the first k items take.
ItemEnds(items) ==
  LET e[k \in 0..Len(items)] == IF k = 0 THEN 0 ELSE e[k - 1] + Len(items[k].fields)
  IN  e

-----------------------------------------------------------------------------
(* A strip with items.                                                     *)

Final(items) == Meaning(items)[Len(items)]
Needed(items) == ItemEnds(items)[Len(items)]

Written == IF strip.zlib THEN strip.after ELSE strip.fields
WrittenWhole == IF strip.cut THEN Len(Written) - 1 ELSE Len(Written)

\* As far as the strip goes, its fields are those of its items.
HasItems(items) ==
  \A k \in 1..Len(items) :
    LET before == ItemEnds(items)[k - 1] IN
    \A x \in 1..Len(items[k].fields) :
      before + x <= WrittenWhole => Written[before + x] = items[k].fields[x]

Checked == (256 * strip.first[1] + strip.first[2]) % 31 = 0

\* The first two bytes are a zlib header, or the first one begins with the final
\* bit and type of a block; the bits that pad a stored block do not look like one.
StartWritten(items) ==
  IF strip.zlib THEN Len(strip.first) >= 2 /\ strip.first[1] % 16 = 8 /\ Checked
  ELSE LET f == items[1].fields IN
       strip.first # <<>> =>
         /\ strip.first[1] % 8 = f[1] + 2 * f[2]
         /\ f[2] = 0 /\ Len(strip.first) >= 2 => strip.first[1] < 8 \/ ~Checked

Deflated == Final(strip.items).mode = "done" /\ HasItems(strip.items) /\ StartWritten(strip.items)

\* A deflated strip is accepted and what it stands for is added to the bytes of
\* the strips before it, across blocks of any type and overlapping matches, with
\* or without a zlib header; cut off anywhere, even inside a field, it is refused.
InflatesWhatWasDeflated ==
  pc = "done" /\ Deflated =>
    IF Needed(strip.items) <= WrittenWhole
    THEN answer = "accepted" /\ out = Earlier \o Final(strip.items).bytes
    ELSE answer = "failed"
=============================================================================
