-------------------------- MODULE TiffDecodeProofs --------------------------
(***************************************************************************)
(* Proofs about TiffDecode, for any streams, any number of workers, any    *)
(* division of the pixels among them and any width of the integers.        *)
(***************************************************************************)
EXTENDS TiffDecode, ArithmeticLemmas

\* A product of two 32-bit numbers does not wrap around.
LEMMA Mul64Exact ==
  ASSUME NEW a \in U32, NEW b \in U32
  PROVE  Mul64(a, b) = a * b
  BY MaxU32Assumption, SMT DEF Mul64, MaxU64, U32

\* Neither does one that passes the overflow guard.
LEMMA Mul64Guarded ==
  ASSUME NEW a \in Nat \ {0}, NEW b \in Nat, b <= MaxU64 \div a
  PROVE  Mul64(a, b) = a * b
  BY MaxU32Assumption, SMT DEF Mul64, MaxU64

(***************************************************************************)
(* The inductive invariant.                                                *)
(***************************************************************************)

\* The geometry has been accepted: the code's later divisions are defined.
GeometryChecked ==
  /\ Width # 0 /\ Length # 0 /\ RowsPerStrip # 0
  /\ IsRgb \/ IsGray
  /\ Len(Offsets) = Len(Counts)

Converting == pc = "decode" \/ answer = "decoded"

\* Where the call is determines what has been checked.
Progress ==
  /\ pc = "done" <=> answer # "none"
  /\ pc \in {"layout", "strips"} \/ Converting => GeometryChecked
  /\ pc = "strips" \/ Converting => Len(Offsets) = StripCount
  /\ pc \in {"header", "entries", "layout"} => strip = 1
  /\ pc = "strips" => \A s \in 1..(strip - 1) : StripFits(s)
  /\ Converting => \A s \in 1..Len(Offsets) : StripFits(s)
  /\ ~Converting => todo = 0 /\ job = [w \in Workers |-> Idle]

\* The ranges given out are ordered parts of what has been given out.
RangesOrdered ==
  /\ \A w \in Workers : /\ job[w].i <= job[w].rowEnd
                        /\ job[w].rowEnd <= job[w].end
                        /\ job[w].end <= todo
  /\ \A v, w \in Workers : v # w =>
       job[v].end <= job[w].i \/ job[w].end <= job[v].i
  /\ Converting => todo <= PixelCount

\* A segment stays in one row and its pointer is at its next pixel.
SegmentInRow(w) ==
  job[w].i < job[w].rowEnd =>
    /\ job[w].rowEnd <= Width * (job[w].i \div Width) + Width
    /\ job[w].src = SourceOf(job[w].i \div Width, job[w].i % Width)

Pending(p) == p >= todo \/ \E w \in Workers : job[w].i <= p /\ p < job[w].end

\* A pixel is blank until its worker has passed it, and then right.
Expected(p) ==
  IF Pending(p) THEN Blank ELSE Pixel(SourceOf(p \div Width, p % Width))

OutputSoFar ==
  /\ Converting => out = [p \in 0..(PixelCount - 1) |-> Expected(p)]
  /\ ~Converting => out = <<>>

\* Once the call has returned nobody holds a range.
AllDone ==
  answer = "decoded" =>
    todo = PixelCount /\ \A w \in Workers : job[w].i = job[w].end

IInv ==
  /\ CallOK
  /\ Progress
  /\ RangesOrdered
  /\ Converting => \A w \in Workers : SegmentInRow(w)
  /\ OutputSoFar
  /\ AllDone

(***************************************************************************)
(* The geometry: where the samples of a pixel are.                         *)
(***************************************************************************)

LEMMA GeometryTypes ==
  ASSUME CallOK, GeometryChecked
  PROVE  /\ Width \in U32 /\ Width \in Nat \ {0}
         /\ Length \in U32 /\ Length \in Nat \ {0}
         /\ RowsPerStrip \in Nat \ {0}
         /\ Samples \in {1, 3}
         /\ RowBytes \in Nat /\ RowBytes = Width * Samples
         /\ Offsets \in Seq(U32) /\ Counts \in Seq(U32)
         /\ file.size \in Nat
<1>1. /\ Width \in U32 /\ Length \in U32 /\ RowsPerStrip \in U32
      /\ Offsets \in Seq(U32) /\ Counts \in Seq(U32)
  BY DEF CallOK, Width, Length, RowsPerStrip, Offsets, Counts, ScalarTags, ArrayTags
<1>2. Samples \in {1, 3}
  BY DEF GeometryChecked, IsRgb, IsGray
<1>3. file.size \in Nat
  BY FilesAssumption DEF CallOK, TiffFiles
<1>4. /\ Width \in Nat \ {0} /\ Length \in Nat \ {0} /\ RowsPerStrip \in Nat \ {0}
  BY <1>1, MaxU32Assumption DEF GeometryChecked, U32
<1>5. RowBytes \in Nat /\ RowBytes = Width * Samples
  BY <1>2, <1>4 DEF RowBytes
<1> QED  BY <1>1, <1>2, <1>3, <1>4, <1>5

LEMMA PixelCountExact ==
  ASSUME CallOK, GeometryChecked
  PROVE  PixelCount = Length * Width /\ PixelCount \in Nat
  BY GeometryTypes, Mul64Exact, SMT DEF PixelCount

\* The samples of a pixel of the image are in its strip, and in the stream.
LEMMA SourceInStrip ==
  ASSUME CallOK, GeometryChecked, Len(Offsets) = StripCount,
         \A s \in 1..Len(Offsets) : StripFits(s),
         NEW p \in Nat, p < PixelCount
  PROVE  LET s == ((p \div Width) \div RowsPerStrip) + 1
             a == SourceOf(p \div Width, p % Width)
         IN  /\ s \in DOMAIN Offsets
             /\ a \in Nat /\ Offsets[s] <= a
             /\ a + Samples <= Offsets[s] + Counts[s]
             /\ a + Samples <= file.size
<1> DEFINE row == p \div Width
           column == p % Width
           s == (row \div RowsPerStrip) + 1
           k == row % RowsPerStrip
<1>1. /\ Width \in Nat \ {0} /\ Length \in Nat \ {0} /\ RowsPerStrip \in Nat \ {0}
      /\ Samples \in {1, 3} /\ RowBytes = Width * Samples /\ RowBytes \in Nat
      /\ Offsets \in Seq(U32) /\ Counts \in Seq(U32) /\ file.size \in Nat
  BY GeometryTypes
<1>2. p < Length * Width
  BY PixelCountExact
<1>3. /\ row \in Nat /\ row < Length
      /\ column \in Nat /\ column < Width
  BY <1>1, <1>2, DivMod, RowInGrid
<1>4. /\ s \in 1..StripCount
      /\ k < RowsPerStrip /\ k < Length - (s - 1) * RowsPerStrip
  <2> HIDE DEF row
  <2> QED  BY <1>1, <1>3, StripOfRow DEF StripCount
<1>5. k \in Nat /\ row \div RowsPerStrip \in Nat
  <2> HIDE DEF row
  <2> QED  BY <1>1, <1>3, DivMod
<1> HIDE DEF row, column, k
<1>6. s \in 1..Len(Offsets) /\ s \in DOMAIN Offsets /\ s \in DOMAIN Counts /\ s \in Nat
  <2>1. s \in Nat
    BY <1>5
  <2>2. s \in 1..Len(Offsets) /\ Len(Counts) = Len(Offsets)
    BY <1>4 DEF GeometryChecked
  <2> HIDE DEF s
  <2> QED  BY <1>1, <2>1, <2>2
<1>7. Offsets[s] \in Nat /\ Counts[s] \in Nat
  <2> HIDE DEF s
  <2> QED  BY <1>1, <1>6, MaxU32Assumption DEF U32
<1>8. RowsIn(s) \in Nat \ {0} /\ k + 1 <= RowsIn(s)
  <2>1. (s - 1) * RowsPerStrip \in Nat
    BY <1>1, <1>5, SMT
  <2> HIDE DEF s
  <2> QED  BY <1>1, <1>4, <1>5, <2>1 DEF RowsIn
<1>9. /\ Offsets[s] + Counts[s] <= file.size
      /\ RowsIn(s) * RowBytes <= Counts[s]
  <2>1. StripFits(s)
    BY <1>6
  <2> HIDE DEF s
  <2> QED  BY <1>1, <1>8, <2>1, Mul64Guarded DEF StripFits
<1>10. (k + 1) * RowBytes <= RowsIn(s) * RowBytes
  <2> SUFFICES ASSUME NEW r \in Nat, k + 1 <= r
               PROVE  (k + 1) * RowBytes <= r * RowBytes
    BY <1>8
  <2>1. PICK j \in Nat : j = k + 1
    BY <1>5
  <2> QED  BY <1>1, <2>1, MulMono
<1>11. column * Samples + Samples <= RowBytes /\ column * Samples \in Nat
  BY <1>1, <1>3
<1>12. k * RowBytes \in Nat /\ (k + 1) * RowBytes = k * RowBytes + RowBytes
  BY <1>1, <1>5
<1>13. SourceOf(row, column) = Offsets[s] + k * RowBytes + column * Samples
  BY DEF SourceOf, k
<1>14. RowsIn(s) * RowBytes \in Nat
  <2> HIDE DEF s
  <2> QED  BY <1>1, <1>8
<1>15. /\ SourceOf(row, column) \in Nat /\ Offsets[s] <= SourceOf(row, column)
       /\ SourceOf(row, column) + Samples <= Offsets[s] + Counts[s]
       /\ SourceOf(row, column) + Samples <= file.size
  <2> DEFINE a == k * RowBytes
             b == column * Samples
             c == RowsIn(s) * RowBytes
  <2>1. /\ a \in Nat /\ b \in Nat /\ c \in Nat
        /\ a + RowBytes <= c /\ b + Samples <= RowBytes
    BY <1>10, <1>11, <1>12, <1>14
  <2>2. SourceOf(row, column) = Offsets[s] + a + b
    BY <1>13
  <2>3. c <= Counts[s]
    BY <1>9
  <2>4. RowBytes \in Nat /\ Samples \in Nat /\ file.size \in Nat
    BY <1>1
  <2>5. Offsets[s] + Counts[s] <= file.size
    BY <1>9
  <2> HIDE DEF a, b, c, s
  <2>6. PICK o \in Nat, n \in Nat, z \in Nat : o = Offsets[s] /\ n = Counts[s] /\ z = file.size
    BY <1>7, <2>4
  <2>7. a + b + Samples <= n
    BY <2>1, <2>3, <2>4, <2>6
  <2>8. o + n <= z
    BY <2>5, <2>6
  <2>9. /\ o + a + b \in Nat /\ o <= o + a + b
        /\ o + a + b + Samples <= o + n
    BY <2>1, <2>4, <2>7
  <2>10. o + a + b + Samples <= z
    BY <2>1, <2>4, <2>8, <2>9
  <2> QED  BY <2>2, <2>4, <2>6, <2>9, <2>10
<1> QED  BY <1>6, <1>15 DEF row, column

\* Moving one pixel to the right moves the pointer by one pixel.
LEMMA SourceOfNext ==
  ASSUME CallOK, GeometryChecked, Len(Offsets) = StripCount,
         \A s \in 1..Len(Offsets) : StripFits(s),
         NEW p \in Nat, p + 1 < PixelCount,
         p + 1 < Width * (p \div Width) + Width
  PROVE  /\ (p + 1) \div Width = p \div Width
         /\ SourceOf((p + 1) \div Width, (p + 1) % Width)
              = SourceOf(p \div Width, p % Width) + Samples
<1> DEFINE row == p \div Width
           column == p % Width
           s == (row \div RowsPerStrip) + 1
<1>1. /\ Width \in Nat \ {0} /\ RowsPerStrip \in Nat \ {0} /\ Length \in Nat \ {0}
      /\ Samples \in {1, 3} /\ RowBytes \in Nat
      /\ Offsets \in Seq(U32)
  BY GeometryTypes
<1>2. /\ row \in Nat /\ column \in Nat
      /\ (p + 1) \div Width = row /\ (p + 1) % Width = column + 1
  BY <1>1, DivMod, NextInRow
<1>3. Offsets[s] \in Nat
  <2>1. p < PixelCount
    BY PixelCountExact
  <2>2. s \in DOMAIN Offsets
    BY <2>1, SourceInStrip
  <2> HIDE DEF s
  <2> QED  BY <1>1, <2>2, MaxU32Assumption DEF U32
<1> HIDE DEF column, row
<1>4. (row % RowsPerStrip) * RowBytes \in Nat
  BY <1>1, <1>2, DivMod
<1>5. (column + 1) * Samples = column * Samples + Samples /\ column * Samples \in Nat
  BY <1>1, <1>2
<1>6. SourceOf(row, column + 1) = SourceOf(row, column) + Samples
  <2> DEFINE a == (row % RowsPerStrip) * RowBytes
             b == column * Samples
             c == (column + 1) * Samples
  <2>1. /\ SourceOf(row, column) = Offsets[s] + a + b
        /\ SourceOf(row, column + 1) = Offsets[s] + a + c
    BY DEF SourceOf
  <2>2. a \in Nat /\ b \in Nat /\ c = b + Samples /\ Samples \in Nat
    BY <1>1, <1>4, <1>5
  <2> HIDE DEF a, b, c, s
  <2> QED  BY <1>3, <2>1, <2>2
<1> QED  BY <1>2, <1>6 DEF row, column

(***************************************************************************)
(* The steps that read and check the stream.                               *)
(***************************************************************************)

LEMMA InitInv ==
  ASSUME Init PROVE IInv
<1>1. file.entries \in Seq(Entries)
  BY FilesAssumption DEF Init, TiffFiles
<1>2. Defaults \in [ScalarTags -> U32]
  BY MaxU32Assumption DEF Defaults, U32
<1>3. CallOK
  BY <1>1, <1>2 DEF Init, CallOK, Idle, Jobs, ArrayTags, Offsets
<1>4. Progress
  BY DEF Init, Progress, Converting
<1>5. RangesOrdered
  BY DEF Init, RangesOrdered, Idle, Converting
<1> QED  BY <1>3, <1>4, <1>5 DEF Init, IInv, OutputSoFar, AllDone, Converting

\* Before the conversion no range has been given out; a step that leaves the
\* ranges alone and does not start the conversion only has Progress and the
\* types to keep.
LEMMA BeforeConversion ==
  ASSUME IInv, pc \in {"header", "entries", "layout", "strips"},
         UNCHANGED <<out, todo, job>>, ~Converting',
         CallOK', Progress'
  PROVE  IInv'
<1>1. todo = 0 /\ job = [w \in Workers |-> Idle] /\ ~Converting
  BY DEF IInv, Progress, Converting
<1>2. RangesOrdered'
  BY <1>1 DEF RangesOrdered, Idle
<1> QED  BY <1>1, <1>2 DEF IInv, OutputSoFar, AllDone, Converting

\* A refusal keeps the invariant.
LEMMA RejectInv ==
  ASSUME IInv, pc \in {"header", "entries", "layout", "strips"}, Reject,
         UNCHANGED <<args, out, todo, job>>
  PROVE  IInv'
<1>1. CallOK'
  BY DEF IInv, CallOK, Reject, args, Offsets
<1>2. Progress' /\ ~Converting'
  BY DEF IInv, Progress, Reject, Converting
<1> QED  BY <1>1, <1>2, BeforeConversion

LEMMA CheckHeaderInv ==
  ASSUME IInv, CheckHeader PROVE IInv'
<1> USE DEF CheckHeader
<1>1. CASE Reject
  BY <1>1, RejectInv
<1>2. CASE pc' = "entries" /\ UNCHANGED <<entry, scalars, arrays, strip, answer>>
  <2>1. CallOK'
    BY <1>2 DEF IInv, CallOK, args, Offsets
  <2>2. Progress' /\ ~Converting'
    BY <1>2 DEF IInv, Progress, Converting
  <2> QED  BY <1>2, <2>1, <2>2, BeforeConversion
<1> QED  BY <1>1, <1>2

LEMMA ReadEntryInv ==
  ASSUME IInv, ReadEntry PROVE IInv'
<1> DEFINE e == file.entries[entry]
<1>1. /\ pc = "entries" /\ entry <= Len(file.entries)
      /\ UNCHANGED <<args, out, todo, job>>
  BY DEF ReadEntry
<1>2. /\ entry \in 1..Len(file.entries) /\ entry + 1 \in 1..(Len(file.entries) + 1)
      /\ e \in Entries
  <2>1. file.entries \in Seq(Entries)
    BY FilesAssumption DEF IInv, CallOK, TiffFiles
  <2>2. Len(file.entries) \in Nat /\ entry \in 1..Len(file.entries)
    BY <1>1, <2>1 DEF IInv, CallOK
  <2> QED  BY <2>1, <2>2
<1>3. e.vals \in Seq(U32)
  BY <1>2 DEF Entries
<1>4. CASE Reject
  BY <1>1, <1>4, RejectInv
<1>5. CASE /\ entry' = entry + 1 /\ UNCHANGED <<pc, strip, answer>>
           /\ scalars' \in [ScalarTags -> U32] /\ arrays' \in [ArrayTags -> Seq(U32)]
  <2>1. strip = 1
    BY <1>1 DEF IInv, Progress
  <2>2. Offsets' \in Seq(U32)
    BY <1>5 DEF Offsets, ArrayTags
  <2>3. CallOK'
    BY <1>1, <1>2, <1>5, <2>1, <2>2 DEF IInv, CallOK, args
  <2>4. Progress' /\ ~Converting'
    BY <1>1, <1>5 DEF IInv, Progress, Converting
  <2> QED  BY <1>1, <2>3, <2>4, BeforeConversion
<1>6. CASE /\ e.tag \in ScalarTags /\ Readable(e) /\ Len(e.vals) = 1
           /\ scalars' = [scalars EXCEPT ![e.tag] = e.vals[1]]
           /\ entry' = entry + 1
           /\ UNCHANGED <<pc, arrays, strip, answer>>
  <2>1. e.vals[1] \in U32
    BY <1>3, <1>6
  <2> QED  BY <1>5, <1>6, <2>1 DEF IInv, CallOK
<1>7. CASE /\ e.tag \in ArrayTags /\ Readable(e)
           /\ arrays' = [arrays EXCEPT ![e.tag] = e.vals]
           /\ entry' = entry + 1
           /\ UNCHANGED <<pc, scalars, strip, answer>>
  BY <1>3, <1>5, <1>7 DEF IInv, CallOK
<1>8. CASE /\ e.tag \notin ScalarTags \cup ArrayTags
           /\ entry' = entry + 1
           /\ UNCHANGED <<pc, scalars, arrays, strip, answer>>
  BY <1>5, <1>8 DEF IInv, CallOK
<1> QED  BY <1>4, <1>6, <1>7, <1>8 DEF ReadEntry

LEMMA CheckFieldsInv ==
  ASSUME IInv, CheckFields PROVE IInv'
<1>1. pc = "entries" /\ UNCHANGED <<args, out, todo, job>>
  BY DEF CheckFields
<1>2. CASE Reject
  BY <1>1, <1>2, RejectInv
<1>3. CASE /\ Supported /\ scalars' = Completed /\ pc' = "layout"
           /\ UNCHANGED <<entry, arrays, strip, answer>>
  <2>1. /\ scalars \in [ScalarTags -> U32] /\ Length \in U32 /\ 1 \in U32
    BY MaxU32Assumption DEF IInv, CallOK, Length, ScalarTags, U32
  <2>2. Completed \in [ScalarTags -> U32]
    BY <2>1, MaxU32Assumption DEF Completed, ScalarTags, U32
  <2>3. CallOK'
    BY <1>1, <1>3, <2>2 DEF IInv, CallOK, args, Offsets
  <2>4. /\ Width' = Width /\ Length' = Length /\ Samples' = Samples
        /\ Offsets' = Offsets /\ Counts' = Counts
        /\ RowsPerStrip' = Completed["RowsPerStrip"]
        /\ scalars'["Photometric"] = Completed["Photometric"]
    BY <1>3, <2>1 DEF Width, Length, Samples, Offsets, Counts, RowsPerStrip,
                      Completed, ScalarTags
  <2>5. GeometryChecked'
    BY <1>3, <2>4 DEF Supported, GeometryChecked, IsRgb, IsGray
  <2>6. Progress' /\ ~Converting'
    BY <1>1, <1>3, <2>5 DEF IInv, Progress, Converting
  <2> QED  BY <1>1, <2>3, <2>6, BeforeConversion
<1> QED  BY <1>2, <1>3 DEF CheckFields

\* What the checks establish depends on nothing the later steps change.
LEMMA LayoutUnchanged ==
  ASSUME UNCHANGED <<file, scalars, arrays>>
  PROVE  /\ GeometryChecked' = GeometryChecked
         /\ Offsets' = Offsets /\ StripCount' = StripCount
         /\ PixelCount' = PixelCount
         /\ \A s : StripFits(s)' = StripFits(s)
  BY DEF GeometryChecked, Width, Length, RowsPerStrip, Samples, IsRgb, IsGray,
         Offsets, Counts, StripCount, PixelCount, StripFits, RowsIn, RowBytes

LEMMA CheckStripCountInv ==
  ASSUME IInv, CheckStripCount PROVE IInv'
<1>1. pc = "layout" /\ UNCHANGED <<args, out, todo, job>>
  BY DEF CheckStripCount
<1>2. CASE Reject
  BY <1>1, <1>2, RejectInv
<1>3. CASE /\ Len(Offsets) = StripCount /\ pc' = "strips"
           /\ UNCHANGED <<entry, scalars, arrays, strip, answer>>
  <2>1. CallOK'
    BY <1>1, <1>3 DEF IInv, CallOK, args, Offsets
  <2>2. GeometryChecked' /\ Offsets' = Offsets /\ StripCount' = StripCount
    BY <1>1, <1>3, LayoutUnchanged DEF IInv, Progress, args
  <2>3. strip' = 1
    BY <1>1, <1>3 DEF IInv, Progress
  <2>4. Progress' /\ ~Converting'
    BY <1>1, <1>3, <2>2, <2>3 DEF IInv, Progress, Converting
  <2> QED  BY <1>1, <2>1, <2>4, BeforeConversion
<1> QED  BY <1>2, <1>3 DEF CheckStripCount

LEMMA CheckStripInv ==
  ASSUME IInv, CheckStrip PROVE IInv'
<1>1. pc = "strips" /\ strip <= Len(Offsets) /\ UNCHANGED <<args, out, todo, job>>
  BY DEF CheckStrip
<1>2. CASE Reject
  BY <1>1, <1>2, RejectInv
<1>3. CASE /\ StripFits(strip) /\ strip' = strip + 1
           /\ UNCHANGED <<pc, entry, scalars, arrays, answer>>
  <2>1. Len(Offsets) \in Nat /\ strip \in 1..Len(Offsets)
    BY <1>1 DEF IInv, CallOK, Offsets, ArrayTags
  <2>2. CallOK'
    BY <1>1, <1>3, <2>1 DEF IInv, CallOK, args, Offsets
  <2>3. /\ GeometryChecked' /\ Offsets' = Offsets /\ StripCount' = StripCount
        /\ \A s : StripFits(s)' = StripFits(s)
    BY <1>1, <1>3, LayoutUnchanged DEF IInv, Progress, args
  <2>4. \A s \in 1..(strip' - 1) : StripFits(s)'
    BY <1>1, <1>3, <2>1, <2>3 DEF IInv, Progress
  <2>5. Progress' /\ ~Converting'
    BY <1>1, <1>3, <2>3, <2>4 DEF IInv, Progress, Converting
  <2> QED  BY <1>1, <2>2, <2>5, BeforeConversion
<1> QED  BY <1>2, <1>3 DEF CheckStrip

LEMMA AllocateInv ==
  ASSUME IInv, Allocate PROVE IInv'
<1>1. /\ pc = "strips" /\ strip = Len(Offsets) + 1
      /\ UNCHANGED <<args, todo, job>>
  BY DEF Allocate
<1>2. /\ todo = 0 /\ job = [w \in Workers |-> Idle]
      /\ GeometryChecked /\ Len(Offsets) = StripCount
      /\ \A s \in 1..(strip - 1) : StripFits(s)
      /\ CallOK
  BY <1>1 DEF IInv, Progress, Converting
<1>3. CASE Reject /\ UNCHANGED out
  BY <1>1, <1>3, RejectInv
<1>4. CASE /\ pc' = "done" /\ answer' = "thrown"
           /\ UNCHANGED <<entry, scalars, arrays, strip, out>>
  <2>1. CallOK'
    BY <1>1, <1>4 DEF IInv, CallOK, args, Offsets
  <2>2. Progress' /\ ~Converting'
    BY <1>1, <1>2, <1>4 DEF Progress, Converting, Idle
  <2> QED  BY <1>1, <1>4, <2>1, <2>2, BeforeConversion
<1>5. CASE /\ out' = [p \in 0..(PixelCount - 1) |-> Blank] /\ pc' = "decode"
           /\ UNCHANGED <<entry, scalars, arrays, strip, answer>>
  <2>1. CallOK'
    BY <1>1, <1>5 DEF IInv, CallOK, args, Offsets
  <2>2. /\ GeometryChecked' /\ Offsets' = Offsets /\ StripCount' = StripCount
        /\ PixelCount' = PixelCount
        /\ \A s : StripFits(s)' = StripFits(s)
    BY <1>1, <1>2, <1>5, LayoutUnchanged DEF args
  <2>3. \A s \in 1..Len(Offsets) : StripFits(s)'
    <3>1. Len(Offsets) \in Nat
      BY <1>2, GeometryTypes
    <3> QED  BY <1>1, <1>2, <2>2, <3>1
  <2>4. answer' = "none"
    BY <1>1, <1>5 DEF IInv, Progress
  <2>5. Progress'
    BY <1>2, <1>5, <2>2, <2>3, <2>4 DEF Progress, Converting
  <2>6. PixelCount' \in Nat
    BY <1>2, <2>2, PixelCountExact
  <2>7. RangesOrdered'
    BY <1>1, <1>2, <2>6 DEF RangesOrdered, Idle
  <2>8. \A w \in Workers : SegmentInRow(w)'
    BY <1>1, <1>2 DEF SegmentInRow, Idle
  <2>9. OutputSoFar'
    <3>1. \A p \in 0..(PixelCount - 1) : Expected(p)' = Blank
      BY <1>1, <1>2, <2>6, <2>2 DEF Expected, Pending
    <3> QED  BY <1>5, <2>2, <3>1 DEF OutputSoFar, Converting
  <2> QED  BY <2>1, <2>4, <2>5, <2>7, <2>8, <2>9 DEF IInv, AllDone
<1> QED  BY <1>3, <1>4, <1>5 DEF Allocate

(***************************************************************************)
(* The steps of the conversion.                                            *)
(***************************************************************************)

\* What is known of the layout while pixels are converted, before and after a
\* step that changes only `out`, `todo`, `job`, `pc` and `answer`.
LEMMA ConversionFacts ==
  ASSUME IInv, Converting
  PROVE  /\ CallOK /\ GeometryChecked /\ Len(Offsets) = StripCount
         /\ \A s \in 1..Len(Offsets) : StripFits(s)
         /\ PixelCount \in Nat /\ todo \in Nat /\ todo <= PixelCount
         /\ Width \in Nat \ {0} /\ Samples \in Nat
  <1>1. /\ CallOK /\ GeometryChecked /\ Len(Offsets) = StripCount
        /\ \A s \in 1..Len(Offsets) : StripFits(s)
        /\ todo \in Nat /\ todo <= PixelCount
    BY DEF IInv, Progress, RangesOrdered, CallOK
  <1> QED  BY <1>1, PixelCountExact, GeometryTypes

LEMMA JobTypes ==
  ASSUME CallOK, NEW w \in Workers
  PROVE  /\ job[w] \in Jobs
         /\ job[w].i \in Nat /\ job[w].end \in Nat
         /\ job[w].rowEnd \in Nat /\ job[w].src \in Nat
  BY DEF CallOK, Jobs

LEMMA SourceUnchanged ==
  ASSUME UNCHANGED <<file, format, scalars, arrays>>
  PROVE  /\ Width' = Width
         /\ \A row, column : SourceOf(row, column)' = SourceOf(row, column)
         /\ \A a : Pixel(a)' = Pixel(a)
  BY DEF Width, SourceOf, Offsets, RowsPerStrip, RowBytes, Samples, Pixel, IsRgb

\* A step of the conversion keeps what was established before it.
LEMMA ProgressKept ==
  ASSUME IInv, pc = "decode", UNCHANGED <<args, pc, parsed, strip, answer>>
  PROVE  Progress' /\ answer' = "none" /\ pc' = "decode"
<1>1. /\ GeometryChecked' = GeometryChecked
      /\ Offsets' = Offsets /\ StripCount' = StripCount
      /\ \A s : StripFits(s)' = StripFits(s)
  BY LayoutUnchanged DEF args, parsed
<1>2. answer = "none"
  BY DEF IInv, Progress
<1>3. /\ GeometryChecked /\ Len(Offsets) = StripCount
      /\ \A s \in 1..Len(Offsets) : StripFits(s)
  BY DEF IInv, Progress, Converting
<1> QED  BY <1>1, <1>2, <1>3 DEF Progress, Converting

LEMMA ClaimInv ==
  ASSUME IInv, NEW u \in Workers, Claim(u) PROVE IInv'
<1>1. PICK end \in (todo + 1)..PixelCount :
        /\ job' = [job EXCEPT ![u] = [i |-> todo, end |-> end,
                                      rowEnd |-> todo, src |-> 0]]
        /\ todo' = end
  BY DEF Claim
<1>2. /\ pc = "decode" /\ Converting /\ job[u].i = job[u].end
      /\ UNCHANGED <<args, pc, parsed, strip, out, answer>>
  BY DEF Claim, Converting
<1>3. /\ CallOK /\ PixelCount \in Nat /\ todo \in Nat /\ end \in Nat
      /\ todo < end /\ end <= PixelCount
  BY <1>1, <1>2, ConversionFacts
<1>4. Progress' /\ answer' = "none" /\ pc' = "decode"
  BY <1>2, ProgressKept
<1>5. /\ job'[u] = [i |-> todo, end |-> end, rowEnd |-> todo, src |-> 0]
      /\ \A w \in Workers : w # u => job'[w] = job[w]
  BY <1>1, <1>3 DEF CallOK
<1>6. CallOK'
  <2>1. job' \in [Workers -> Jobs]
    BY <1>1, <1>3 DEF CallOK, Jobs
  <2> QED  BY <1>1, <1>2, <1>3, <2>1 DEF CallOK, args, parsed, Offsets
<1>7. /\ PixelCount' = PixelCount /\ Width' = Width
      /\ \A row, column : SourceOf(row, column)' = SourceOf(row, column)
      /\ \A a : Pixel(a)' = Pixel(a)
  BY <1>2, LayoutUnchanged, SourceUnchanged DEF args, parsed
<1>8. RangesOrdered'
  <2>1. \A w \in Workers : job'[w].i <= job'[w].rowEnd /\ job'[w].rowEnd <= job'[w].end
                           /\ job'[w].end <= todo'
    <3> SUFFICES ASSUME NEW w \in Workers
                 PROVE  job'[w].i <= job'[w].rowEnd /\ job'[w].rowEnd <= job'[w].end
                        /\ job'[w].end <= todo'
      OBVIOUS
    <3>1. CASE w = u
      BY <1>1, <1>3, <1>5, <3>1
    <3>2. CASE w # u
      BY <1>1, <1>3, <1>5, <3>2, JobTypes DEF IInv, RangesOrdered
    <3> QED  BY <3>1, <3>2
  <2>2. \A w \in Workers : w # u => job'[w].end <= job'[u].i
    BY <1>5 DEF IInv, RangesOrdered
  <2>3. \A v, w \in Workers : v # w =>
          job'[v].end <= job'[w].i \/ job'[w].end <= job'[v].i
    BY <1>5, <2>2 DEF IInv, RangesOrdered
  <2>4. todo' <= PixelCount'
    BY <1>1, <1>3, <1>7
  <2> QED  BY <2>1, <2>3, <2>4 DEF RangesOrdered
<1>9. \A w \in Workers : SegmentInRow(w)'
  <2> SUFFICES ASSUME NEW w \in Workers PROVE SegmentInRow(w)'
    OBVIOUS
  <2>1. CASE w = u
    BY <1>3, <1>5, <2>1 DEF SegmentInRow
  <2>2. CASE w # u
    BY <1>2, <1>5, <1>7, <2>2 DEF SegmentInRow, IInv
  <2> QED  BY <2>1, <2>2
<1>10. \A p \in 0..(PixelCount - 1) : Expected(p)' = Expected(p)
  <2> SUFFICES ASSUME NEW p \in 0..(PixelCount - 1) PROVE Pending(p)' <=> Pending(p)
    BY <1>7 DEF Expected, Blank
  <2>1. CASE p >= todo /\ p < end
    <3>1. job'[u].i <= p /\ p < job'[u].end
      BY <1>3, <1>5, <2>1
    <3> QED  BY <2>1, <3>1 DEF Pending
  <2>2. CASE p >= end
    BY <1>1, <1>3, <2>2 DEF Pending
  <2>3. CASE p < todo
    <3>1. ~(p >= todo) /\ ~(p >= todo')
      BY <1>1, <1>3, <2>3
    <3>2. ~(job'[u].i <= p)
      BY <1>3, <1>5, <2>3
    <3>3. ~(job[u].i <= p /\ p < job[u].end)
      BY <1>2, <1>3, JobTypes
    <3> QED  BY <1>5, <3>1, <3>2, <3>3 DEF Pending
  <2> QED  BY <1>3, <2>1, <2>2, <2>3
<1>11. OutputSoFar'
  BY <1>2, <1>4, <1>7, <1>10 DEF IInv, OutputSoFar, Converting
<1> QED  BY <1>4, <1>6, <1>8, <1>9, <1>11 DEF IInv, AllDone

LEMMA BeginSegmentInv ==
  ASSUME IInv, NEW u \in Workers, BeginSegment(u) PROVE IInv'
<1> DEFINE i == job[u].i
           row == i \div Width
           column == i % Width
           length == SegmentLength(job[u].end - i, column)
<1>1. /\ pc = "decode" /\ Converting /\ i = job[u].rowEnd /\ i < job[u].end
      /\ job' = [job EXCEPT ![u].rowEnd = i + length, ![u].src = SourceOf(row, column)]
      /\ UNCHANGED <<args, pc, parsed, strip, out, todo, answer>>
  BY DEF BeginSegment, Converting
<1>2. /\ CallOK /\ PixelCount \in Nat /\ todo \in Nat /\ todo <= PixelCount
      /\ GeometryChecked /\ Len(Offsets) = StripCount
      /\ \A s \in 1..Len(Offsets) : StripFits(s)
      /\ Width \in Nat \ {0}
      /\ i \in Nat /\ job[u].end \in Nat /\ job[u].end <= todo
  BY <1>1, ConversionFacts, JobTypes DEF IInv, RangesOrdered
<1>3. i < PixelCount
  BY <1>1, <1>2
<1>4. /\ row \in Nat /\ column \in Nat /\ column < Width
      /\ i = Width * row + column
  BY <1>2, DivMod
<1>5. SourceOf(row, column) \in Nat
  BY <1>2, <1>3, SourceInStrip
<1>6. /\ length \in Nat /\ i + length <= job[u].end /\ i + length \in Nat
      /\ i <= i + length /\ length <= Width - column
  <2>1. PICK n \in Nat \ {0} : n = job[u].end - i /\ job[u].end = i + n
    BY <1>1, <1>2
  <2>2. PICK m \in Nat \ {0} : m = Width - column
    BY <1>2, <1>4
  <2>3. length = IF n <= m THEN n ELSE m
    BY <2>1, <2>2 DEF SegmentLength
  <2> HIDE DEF row, column, i, length
  <2>4. length \in Nat /\ length <= n /\ length <= m
    BY <2>3
  <2> QED  BY <1>2, <2>1, <2>2, <2>4, SMTT(40)
<1>7. i + length <= Width * row + Width
  <2>1. PICK base \in Nat : base = Width * row
    BY <1>2, <1>4
  <2> HIDE DEF length, row, column, i
  <2> QED  BY <1>2, <1>4, <1>6, <2>1
<1> HIDE DEF length, row, column
<1>8. /\ job'[u].i = i /\ job'[u].end = job[u].end
      /\ job'[u].rowEnd = i + length /\ job'[u].src = SourceOf(row, column)
      /\ \A w \in Workers : w # u => job'[w] = job[w]
      /\ job' \in [Workers -> Jobs]
  BY <1>1, <1>2, <1>5, <1>6 DEF CallOK, Jobs
<1>9. \A w \in Workers : job'[w].i = job[w].i /\ job'[w].end = job[w].end
  BY <1>8
<1>10. Progress' /\ answer' = "none" /\ pc' = "decode"
  BY <1>1, ProgressKept
<1>11. CallOK'
  BY <1>1, <1>2, <1>8 DEF CallOK, args, parsed, Offsets
<1>12. /\ PixelCount' = PixelCount /\ Width' = Width
       /\ \A r, c : SourceOf(r, c)' = SourceOf(r, c)
       /\ \A a : Pixel(a)' = Pixel(a)
  BY <1>1, LayoutUnchanged, SourceUnchanged DEF args, parsed
<1>13. RangesOrdered'
  <2>1. \A w \in Workers : job'[w].i <= job'[w].rowEnd /\ job'[w].rowEnd <= job'[w].end
                           /\ job'[w].end <= todo'
    BY <1>1, <1>2, <1>6, <1>8 DEF IInv, RangesOrdered
  <2> QED  BY <1>1, <1>2, <1>9, <1>12, <2>1 DEF IInv, RangesOrdered
<1>14. \A w \in Workers : SegmentInRow(w)'
  <2> SUFFICES ASSUME NEW w \in Workers PROVE SegmentInRow(w)'
    OBVIOUS
  <2>1. CASE w = u
    BY <1>7, <1>8, <1>12, <2>1 DEF SegmentInRow, row, column
  <2>2. CASE w # u
    BY <1>1, <1>8, <1>12, <2>2 DEF SegmentInRow, IInv
  <2> QED  BY <2>1, <2>2
<1>15. \A p : Expected(p)' = Expected(p)
  <2>1. \A p : Pending(p)' <=> Pending(p)
    BY <1>1, <1>9 DEF Pending
  <2> QED  BY <1>12, <2>1 DEF Expected, Blank
<1>16. OutputSoFar'
  BY <1>1, <1>10, <1>12, <1>15 DEF IInv, OutputSoFar, Converting
<1> QED  BY <1>10, <1>11, <1>13, <1>14, <1>16 DEF IInv, AllDone

LEMMA WritePixelInv ==
  ASSUME IInv, NEW u \in Workers, WritePixel(u) PROVE IInv'
<1>1. /\ pc = "decode" /\ Converting /\ job[u].i < job[u].rowEnd
      /\ out' = [out EXCEPT ![job[u].i] = Pixel(job[u].src)]
      /\ job' = [job EXCEPT ![u].i = job[u].i + 1, ![u].src = job[u].src + Samples]
      /\ UNCHANGED <<args, pc, parsed, strip, todo, answer>>
  BY DEF WritePixel, Converting
<1>2. /\ CallOK /\ PixelCount \in Nat /\ todo \in Nat /\ todo <= PixelCount
      /\ GeometryChecked /\ Len(Offsets) = StripCount
      /\ \A s \in 1..Len(Offsets) : StripFits(s)
      /\ Width \in Nat \ {0} /\ Samples \in Nat
  BY <1>1, ConversionFacts
<1>a. PICK i \in Nat : i = job[u].i
  BY <1>2, JobTypes
<1>3. /\ job[u].end \in Nat /\ job[u].rowEnd \in Nat /\ job[u].src \in Nat
      /\ job[u].rowEnd <= job[u].end /\ job[u].end <= todo /\ i < job[u].rowEnd
  BY <1>1, <1>2, <1>a, JobTypes DEF IInv, RangesOrdered
<1>4. /\ i < PixelCount /\ i < job[u].end /\ i + 1 <= job[u].rowEnd
      /\ i + 1 \in Nat /\ job[u].src + Samples \in Nat
  <2>1. PICK end \in Nat, rowEnd \in Nat, count \in Nat :
          end = job[u].end /\ rowEnd = job[u].rowEnd /\ count = PixelCount
    BY <1>2, <1>3
  <2>2. rowEnd <= end /\ end <= todo /\ i < rowEnd /\ todo <= count /\ todo \in Nat
    BY <1>2, <1>3, <2>1
  <2>3. i < count /\ i < end /\ i + 1 <= rowEnd /\ i + 1 \in Nat
    BY <2>2
  <2> QED
    BY <1>2, <1>3, <2>1, <2>3, SMTT(40)
<1>5. /\ job[u].rowEnd <= Width * (i \div Width) + Width
      /\ job[u].src = SourceOf(i \div Width, i % Width)
  BY <1>1, <1>a DEF IInv, SegmentInRow
<1>6. /\ job'[u].i = i + 1 /\ job'[u].end = job[u].end
      /\ job'[u].rowEnd = job[u].rowEnd /\ job'[u].src = job[u].src + Samples
      /\ \A w \in Workers : w # u => job'[w] = job[w]
      /\ job' \in [Workers -> Jobs]
  BY <1>1, <1>2, <1>3, <1>4, <1>a DEF CallOK, Jobs
<1>7. Progress' /\ answer' = "none" /\ pc' = "decode"
  BY <1>1, ProgressKept
<1>8. CallOK'
  BY <1>1, <1>2, <1>6 DEF CallOK, args, parsed, Offsets
<1>9. /\ PixelCount' = PixelCount /\ Width' = Width
      /\ \A r, c : SourceOf(r, c)' = SourceOf(r, c)
      /\ \A a : Pixel(a)' = Pixel(a)
  BY <1>1, LayoutUnchanged, SourceUnchanged DEF args, parsed
<1>10. RangesOrdered'
  <2>1. \A w \in Workers : job'[w].i <= job'[w].rowEnd /\ job'[w].rowEnd <= job'[w].end
                           /\ job'[w].end <= todo'
    BY <1>1, <1>3, <1>4, <1>6, <1>a DEF IInv, RangesOrdered
  <2>2. \A w \in Workers : w # u =>
          job'[u].end <= job'[w].i \/ job'[w].end <= job'[u].i
    <3> SUFFICES ASSUME NEW w \in Workers, w # u
                 PROVE  job[u].end <= job[w].i \/ job[w].end <= i + 1
      BY <1>6
    <3>1. job[u].end <= job[w].i \/ job[w].end <= i
      BY <1>a DEF IInv, RangesOrdered
    <3>2. job[w].end \in Nat
      BY <1>2, JobTypes
    <3> QED  BY <1>3, <3>1, <3>2
  <2>3. \A v, w \in Workers : v # w =>
          job'[v].end <= job'[w].i \/ job'[w].end <= job'[v].i
    BY <1>6, <2>2 DEF IInv, RangesOrdered
  <2> QED  BY <1>1, <1>2, <1>9, <2>1, <2>3 DEF RangesOrdered
<1>11. \A w \in Workers : SegmentInRow(w)'
  <2> SUFFICES ASSUME NEW w \in Workers PROVE SegmentInRow(w)'
    OBVIOUS
  <2>1. CASE w # u
    BY <1>1, <1>6, <1>9, <2>1 DEF SegmentInRow, IInv
  <2>2. ASSUME w = u, i + 1 < job[u].rowEnd
        PROVE  /\ job'[u].rowEnd <= Width * ((i + 1) \div Width) + Width
               /\ job'[u].src = SourceOf((i + 1) \div Width, (i + 1) % Width)
    <3>1. i \div Width \in Nat
      BY <1>2, DivMod
    <3>2. Width * (i \div Width) + Width \in Nat
      BY <1>2, <3>1
    <3>a. i + 1 < PixelCount
      BY <1>2, <1>3, <2>2
    <3>b. i + 1 < Width * (i \div Width) + Width
      BY <1>3, <1>5, <2>2, <3>2
    <3>3. /\ (i + 1) \div Width = i \div Width
          /\ SourceOf((i + 1) \div Width, (i + 1) % Width)
               = SourceOf(i \div Width, i % Width) + Samples
      BY <1>2, <3>a, <3>b, SourceOfNext
    <3> QED  BY <1>5, <1>6, <3>3
  <2>3. CASE w = u
    BY <1>6, <1>9, <2>2, <2>3 DEF SegmentInRow
  <2> QED  BY <2>1, <2>3
<1>12. Expected(i)' = Pixel(job[u].src)
  <2>1. ~(i >= todo')
    BY <1>1, <1>2, <1>3, <1>4
  <2>2. \A w \in Workers : ~(job'[w].i <= i /\ i < job'[w].end)
    <3> SUFFICES ASSUME NEW w \in Workers PROVE ~(job'[w].i <= i /\ i < job'[w].end)
      OBVIOUS
    <3>1. CASE w = u
      BY <1>3, <1>6, <3>1
    <3>2. CASE w # u
      <4>1. job[u].end <= job[w].i \/ job[w].end <= i
        BY <1>a, <3>2 DEF IInv, RangesOrdered
      <4>2. job[w].end \in Nat /\ job[w].i \in Nat
        BY <1>2, JobTypes
      <4> QED  BY <1>3, <1>4, <1>6, <3>2, <4>1, <4>2
    <3> QED  BY <3>1, <3>2
  <2>3. ~Pending(i)'
    BY <2>1, <2>2 DEF Pending
  <2> QED  BY <1>5, <1>9, <2>3 DEF Expected
<1>13. \A p \in 0..(PixelCount - 1) : p # i => Expected(p)' = Expected(p)
  <2> SUFFICES ASSUME NEW p \in 0..(PixelCount - 1), p # i
               PROVE  Pending(p)' <=> Pending(p)
    BY <1>9 DEF Expected, Blank
  <2>1. (job'[u].i <= p /\ p < job'[u].end) <=> (job[u].i <= p /\ p < job[u].end)
    BY <1>3, <1>6, <1>a
  <2> QED  BY <1>1, <1>6, <2>1 DEF Pending
<1>14. OutputSoFar'
  <2>1. out = [p \in 0..(PixelCount - 1) |-> Expected(p)]
    BY <1>1 DEF IInv, OutputSoFar
  <2>2. out' = [out EXCEPT ![i] = Pixel(job[u].src)]
    BY <1>1, <1>a
  <2>3. out' = [p \in 0..(PixelCount - 1) |-> Expected(p)]'
    BY <2>2, <1>9, <1>12, <1>13, <2>1
  <2> QED  BY <1>7, <2>3 DEF OutputSoFar, Converting
<1> QED  BY <1>7, <1>8, <1>10, <1>11, <1>14 DEF IInv, AllDone

LEMMA ReturnInv ==
  ASSUME IInv, Return PROVE IInv'
<1>1. /\ pc = "decode" /\ Converting /\ todo = PixelCount
      /\ \A w \in Workers : job[w].i = job[w].end
      /\ pc' = "done" /\ answer' = "decoded" /\ Converting'
      /\ UNCHANGED <<args, parsed, strip, out, todo, job>>
  BY DEF Return, Converting
<1>2. CallOK'
  BY <1>1 DEF IInv, CallOK, args, parsed, Offsets
<1>3. /\ GeometryChecked' = GeometryChecked
      /\ Offsets' = Offsets /\ StripCount' = StripCount /\ PixelCount' = PixelCount
      /\ \A s : StripFits(s)' = StripFits(s)
  BY <1>1, LayoutUnchanged DEF args, parsed
<1>4. Progress'
  BY <1>1, <1>3, ConversionFacts DEF Progress
<1>5. RangesOrdered'
  BY <1>1, <1>3 DEF IInv, RangesOrdered
<1>6. /\ Width' = Width
      /\ \A r, c : SourceOf(r, c)' = SourceOf(r, c)
      /\ \A a : Pixel(a)' = Pixel(a)
  BY <1>1, SourceUnchanged DEF args, parsed
<1>7. \A w \in Workers : SegmentInRow(w)'
  BY <1>1, <1>6 DEF IInv, SegmentInRow
<1>8. OutputSoFar'
  <2>1. \A p : Expected(p)' = Expected(p)
    BY <1>1, <1>6 DEF Expected, Pending, Blank
  <2> QED  BY <1>1, <1>3, <2>1 DEF IInv, OutputSoFar
<1>9. AllDone'
  BY <1>1, <1>3 DEF AllDone
<1> QED  BY <1>2, <1>4, <1>5, <1>7, <1>8, <1>9 DEF IInv

(***************************************************************************)
(* The theorems.                                                           *)
(***************************************************************************)

\* A step that changes nothing.
LEMMA StutterInv ==
  ASSUME IInv, UNCHANGED vars PROVE IInv'
<1>1. UNCHANGED <<file, format, pc, entry, scalars, arrays, strip, out, todo, job, answer>>
  BY DEF vars
<1>2. CallOK'
  BY <1>1 DEF IInv, CallOK, Offsets
<1>3. /\ GeometryChecked' = GeometryChecked
      /\ Offsets' = Offsets /\ StripCount' = StripCount /\ PixelCount' = PixelCount
      /\ \A s : StripFits(s)' = StripFits(s)
      /\ Width' = Width
      /\ \A row, column : SourceOf(row, column)' = SourceOf(row, column)
      /\ \A a : Pixel(a)' = Pixel(a)
  BY <1>1, LayoutUnchanged, SourceUnchanged
<1>4. Converting' <=> Converting
  BY <1>1 DEF Converting
<1>5. Progress'
  BY <1>1, <1>3, <1>4 DEF IInv, Progress
<1>6. RangesOrdered'
  BY <1>1, <1>3, <1>4 DEF IInv, RangesOrdered
<1>7. Converting' => \A w \in Workers : SegmentInRow(w)'
  BY <1>1, <1>3, <1>4 DEF IInv, SegmentInRow
<1>8. OutputSoFar'
  <2>1. \A p : Expected(p)' = Expected(p)
    BY <1>1, <1>3 DEF Expected, Pending, Blank
  <2> QED  BY <1>1, <1>3, <1>4, <2>1 DEF IInv, OutputSoFar
<1>9. AllDone'
  BY <1>1, <1>3 DEF IInv, AllDone
<1> QED  BY <1>2, <1>5, <1>6, <1>7, <1>8, <1>9 DEF IInv

\* The decoder keeps its invariant, however the pixels are divided among the
\* workers and however their steps interleave.
THEOREM DecoderInvariant == Spec => []IInv
<1>1. Init => IInv
  BY InitInv
<1>2. IInv /\ [Next]_vars => IInv'
  <2> SUFFICES ASSUME IInv, [Next]_vars PROVE IInv'
    OBVIOUS
  <2>1. CASE Main
    BY <2>1, CheckHeaderInv, ReadEntryInv, CheckFieldsInv, CheckStripCountInv,
       CheckStripInv, AllocateInv, ReturnInv DEF Main
  <2>2. ASSUME NEW w \in Workers, Work(w) PROVE IInv'
    BY <2>2, ClaimInv, BeginSegmentInv, WritePixelInv DEF Work
  <2>3. CASE UNCHANGED vars
    BY <2>3, StutterInv
  <2> QED  BY <2>1, <2>2, <2>3 DEF Next
<1> QED  BY <1>1, <1>2, PTL DEF Spec

\* The channels of a pixel are addresses.
LEMMA PixelType ==
  ASSUME NEW a \in Nat
  PROVE  Pixel(a) \in Seq(Seq(Nat))
<1>1. a + 1 \in Nat /\ a + 2 \in Nat
  OBVIOUS
<1>2. /\ <<a>> \in Seq(Nat) /\ <<a + 1>> \in Seq(Nat) /\ <<a + 2>> \in Seq(Nat)
      /\ <<a, a + 1, a + 2>> \in Seq(Nat)
  BY <1>1
<1>3. ASSUME NEW T, NEW x \in T, NEW y \in T, NEW z \in T
      PROVE  <<x>> \in Seq(T) /\ <<x, y, z>> \in Seq(T)
  OBVIOUS
<1> QED  BY <1>2, <1>3 DEF Pixel

LEMMA PixelsTyped ==
  ASSUME IInv PROVE PixelsOK
<1>1. CASE Converting
  <2>1. /\ CallOK /\ GeometryChecked /\ Len(Offsets) = StripCount
        /\ \A s \in 1..Len(Offsets) : StripFits(s)
        /\ PixelCount \in Nat /\ Width \in Nat \ {0}
    BY <1>1, ConversionFacts
  <2>2. ASSUME NEW p \in 0..(PixelCount - 1) PROVE Expected(p) \in Seq(Seq(Nat))
    <3>1. SourceOf(p \div Width, p % Width) \in Nat
      <4>1. p \in Nat /\ p < PixelCount
        BY <2>1
      <4> QED  BY <2>1, <4>1, SourceInStrip
    <3>2. Blank \in Seq(Seq(Nat))
      BY DEF Blank
    <3> QED  BY <3>1, <3>2, PixelType DEF Expected
  <2>3. out = [p \in 0..(PixelCount - 1) |-> Expected(p)]
    BY <1>1 DEF IInv, OutputSoFar
  <2> QED  BY <1>1, <2>2, <2>3 DEF PixelsOK, Converting
<1>2. CASE ~Converting
  BY <1>2 DEF PixelsOK, Converting, IInv, OutputSoFar
<1> QED  BY <1>1, <1>2

\* Every variable keeps its type: in particular no source pointer is computed
\* from an undefined strip table entry (TryDecodeTiff).
THEOREM TypeCorrect == Spec => []TypeOK
<1>1. IInv => TypeOK
  BY PixelsTyped DEF IInv, TypeOK
<1> QED  BY <1>1, DecoderInvariant, PTL

\* No read of the conversion loop leaves the strip of its row or the stream,
\* for any stream (legacy_image_codecs.cc, the strip checks and ParallelFor).
THEOREM ReadsInside == Spec => []ReadsStayInStrip
<1>1. IInv => ReadsStayInStrip
  <2> SUFFICES ASSUME IInv, NEW w \in Workers, job[w].i < job[w].rowEnd
               PROVE  LET s == (job[w].i \div Width) \div RowsPerStrip + 1
                      IN  /\ s \in DOMAIN Offsets
                          /\ Offsets[s] <= job[w].src
                          /\ job[w].src + Samples <= Offsets[s] + Counts[s]
                          /\ job[w].src + Samples <= file.size
    BY DEF ReadsStayInStrip
  <2>1. Converting
    <3>1. job = [v \in Workers |-> Idle] => ~(job[w].i < job[w].rowEnd)
      BY DEF Idle
    <3> QED  BY <3>1 DEF IInv, Progress
  <2>2. /\ CallOK /\ GeometryChecked /\ Len(Offsets) = StripCount
        /\ \A s \in 1..Len(Offsets) : StripFits(s)
        /\ PixelCount \in Nat /\ todo \in Nat /\ todo <= PixelCount
    BY <2>1, ConversionFacts
  <2>3. /\ job[w].i \in Nat /\ job[w].end \in Nat /\ job[w].rowEnd \in Nat
        /\ job[w].rowEnd <= job[w].end /\ job[w].end <= todo
    BY <2>2, JobTypes DEF IInv, RangesOrdered
  <2>4. job[w].i < PixelCount
    BY <2>2, <2>3
  <2>5. job[w].src = SourceOf(job[w].i \div Width, job[w].i % Width)
    BY <2>1 DEF IInv, SegmentInRow
  <2> QED  BY <2>2, <2>3, <2>4, <2>5, SourceInStrip
<1> QED  BY <1>1, DecoderInvariant, PTL

\* No two workers have the same pixel before them, and what they have before
\* them is still blank: the writes to the output never race.
THEOREM WritesDisjoint == Spec => []NoWriteRace
<1>1. IInv => NoWriteRace
  <2> SUFFICES ASSUME IInv, pc = "decode", NEW w \in Workers
               PROVE  /\ \A p \in Ahead(w) : p < todo /\ out[p] = Blank
                      /\ \A v \in Workers \ {w} : Ahead(v) \cap Ahead(w) = {}
    BY DEF NoWriteRace
  <2>1. /\ CallOK /\ PixelCount \in Nat /\ todo \in Nat
        /\ \A v \in Workers : /\ job[v].i \in Nat /\ job[v].end \in Nat
                              /\ job[v].rowEnd \in Nat
                              /\ job[v].rowEnd <= job[v].end /\ job[v].end <= todo
    BY ConversionFacts, JobTypes DEF Converting, IInv, RangesOrdered
  <2>2. \A v \in Workers : \A p \in Ahead(v) :
          /\ p \in 0..(PixelCount - 1) /\ job[v].i <= p /\ p < job[v].end
    BY <2>1 DEF Ahead
  <2>3. \A p \in Ahead(w) : p < todo /\ out[p] = Blank
    <3> SUFFICES ASSUME NEW p \in Ahead(w) PROVE p < todo /\ out[p] = Blank
      OBVIOUS
    <3>1. p \in 0..(PixelCount - 1) /\ p < todo /\ Pending(p)
      BY <2>1, <2>2 DEF Pending
    <3> QED  BY <3>1 DEF IInv, OutputSoFar, Converting, Expected
  <2>4. \A v \in Workers \ {w} : Ahead(v) \cap Ahead(w) = {}
    <3> SUFFICES ASSUME NEW v \in Workers, v # w, NEW p \in Ahead(v), p \in Ahead(w)
                 PROVE  FALSE
      OBVIOUS
    <3>1. /\ p \in Nat /\ job[v].i <= p /\ p < job[v].end
          /\ job[w].i <= p /\ p < job[w].end
      BY <2>1, <2>2
    <3>2. job[v].end <= job[w].i \/ job[w].end <= job[v].i
      BY DEF IInv, RangesOrdered
    <3> QED  BY <2>1, <3>1, <3>2
  <2> QED  BY <2>3, <2>4
<1> QED  BY <1>1, DecoderInvariant, PTL

\* A picture that is returned is whole and right, pixel by pixel, whichever
\* worker made which part of it (TryDecodeTiff's result).
THEOREM WholePicture == Spec => []PictureComplete
<1>1. IInv => PictureComplete
  <2> SUFFICES ASSUME IInv, answer = "decoded"
               PROVE  out = [p \in 0..(PixelCount - 1) |->
                               Pixel(SourceOf(p \div Width, p % Width))]
    BY DEF PictureComplete
  <2>1. Converting /\ todo = PixelCount /\ \A w \in Workers : job[w].i = job[w].end
    BY DEF Converting, IInv, AllDone
  <2>2. CallOK /\ PixelCount \in Nat
    BY <2>1, ConversionFacts
  <2>3. \A p \in 0..(PixelCount - 1) : ~Pending(p)
    BY <2>1, <2>2, JobTypes DEF Pending
  <2>4. out = [p \in 0..(PixelCount - 1) |-> Expected(p)]
    BY <2>1 DEF IInv, OutputSoFar
  <2> QED  BY <2>3, <2>4 DEF Expected
<1> QED  BY <1>1, DecoderInvariant, PTL

(***************************************************************************)
(* The abstract decoder: RasterDecode defines the picture from the format, *)
(* the last entry of a tag, the rows of a strip as a set, the bytes of all *)
(* strips as one sequence.  What follows shows that the decoder's tables,  *)
(* divisions and addresses compute the same.                               *)
(***************************************************************************)

\* The operators of the format that the refined module has from TiffFile and the
\* library are the ones used here.
LEMMA SameFormat ==
  /\ Raster!MaxU64 = MaxU64
  /\ Raster!ScalarTags = ScalarTags /\ Raster!ArrayTags = ArrayTags
  /\ \A f, e : Raster!ValuesInside(f, e) = ValuesInside(f, e)
  /\ \A f : Raster!DirectoryInside(f) = DirectoryInside(f)
  /\ \A S : Raster!Cardinality(S) = Cardinality(S)
<1>1. Raster!MaxU64 = MaxU64
  BY DEF Raster!MaxU64, MaxU64
<1>2. Raster!ScalarTags = ScalarTags /\ Raster!ArrayTags = ArrayTags
  BY DEF Raster!ScalarTags, ScalarTags, Raster!ArrayTags, ArrayTags
<1>3. \A f, e : Raster!ValuesInside(f, e) = ValuesInside(f, e)
  BY DEF Raster!ValuesInside, ValuesInside, Raster!Inline, Inline,
         Raster!ValueBytes, ValueBytes, Raster!TypeSize, TypeSize
<1>4. \A f : Raster!DirectoryInside(f) = DirectoryInside(f)
  BY DEF Raster!DirectoryInside, DirectoryInside
<1>5. \A S : Raster!Cardinality(S) = Cardinality(S)
  BY DEF Raster!Cardinality, Cardinality
<1> QED  BY <1>1, <1>2, <1>3, <1>4, <1>5

(***************************************************************************)
(* Reading the directory.                                                  *)
(***************************************************************************)

\* Of the first n entries, k is the last one with this tag.
LastOf(f, n, tag, k) ==
  /\ k \in 1..n /\ f.entries[k].tag = tag
  /\ \A j \in 1..n : f.entries[j].tag = tag => j <= k

\* None of the first n entries has this tag.
NoneOf(f, n, tag) == \A j \in 1..n : f.entries[j].tag # tag

\* What the first n entries give a scalar or an array.
ScalarRead(f, n, tag, value) ==
  \/ NoneOf(f, n, tag) /\ value = Defaults[tag]
  \/ \E k \in 1..n : /\ LastOf(f, n, tag, k)
                     /\ Len(f.entries[k].vals) = 1
                     /\ value = f.entries[k].vals[1]

\* The same for a tag with several values.
ArrayRead(f, n, tag, value) ==
  \/ NoneOf(f, n, tag) /\ value = <<>>
  \/ \E k \in 1..n : LastOf(f, n, tag, k) /\ value = f.entries[k].vals

\* The tables hold what the first n entries give.
Parsed(n) ==
  /\ \A tag \in ScalarTags : ScalarRead(file, n, tag, scalars[tag])
  /\ \A tag \in ArrayTags : ArrayRead(file, n, tag, arrays[tag])

\* The entries that were read could be.
EntryFine(f, e) ==
  e.tag \in ScalarTags \cup ArrayTags =>
    /\ e.type \in {"BYTE", "SHORT", "LONG"}
    /\ ValuesInside(f, e)
    /\ e.tag \in ScalarTags => Len(e.vals) = 1

\* The header and the directory can be read.
HeaderFine(f) == f.size >= 8 /\ f.magic /\ DirectoryInside(f)

\* The values of a tag are those of its last entry.
LEMMA ValuesLast ==
  ASSUME NEW f, f.entries \in Seq(Entries), NEW tag, NEW default
  PROVE  /\ NoneOf(f, Len(f.entries), tag) => Raster!Values(f, tag, default) = default
         /\ \A k \in 1..Len(f.entries) : LastOf(f, Len(f.entries), tag, k) =>
              Raster!Values(f, tag, default) = f.entries[k].vals
<1> DEFINE found == {k \in DOMAIN f.entries : f.entries[k].tag = tag}
<1>1. Raster!Values(f, tag, default)
        = IF found = {} THEN default ELSE f.entries[Raster!Max(found)].vals
  BY DEF Raster!Values
<1>2. DOMAIN f.entries = 1..Len(f.entries) /\ Len(f.entries) \in Nat
  OBVIOUS
<1>3. NoneOf(f, Len(f.entries), tag) => found = {}
  BY <1>2 DEF NoneOf
<1>4. ASSUME NEW k \in 1..Len(f.entries), LastOf(f, Len(f.entries), tag, k)
      PROVE  found # {} /\ Raster!Max(found) = k
  <2>1. k \in found /\ \A j \in found : k >= j
    BY <1>2, <1>4 DEF LastOf
  <2>2. found \subseteq Int
    BY <1>2
  <2>3. Raster!Max(found) = CHOOSE x \in found : \A y \in found : x >= y
    BY DEF Raster!Max
  <2> HIDE DEF found
  <2>4. Raster!Max(found) \in found /\ \A y \in found : Raster!Max(found) >= y
    BY <2>1, <2>3
  <2>5. Raster!Max(found) >= k /\ k >= Raster!Max(found) /\ Raster!Max(found) \in Int /\ k \in Int
    BY <2>1, <2>2, <2>4
  <2> QED  BY <2>1, <2>5
<1> HIDE DEF found
<1> QED  BY <1>1, <1>3, <1>4

\* The value of a scalar tag is that of its last entry.
LEMMA ScalarLast ==
  ASSUME NEW f, f.entries \in Seq(Entries), NEW tag, NEW default
  PROVE  /\ NoneOf(f, Len(f.entries), tag) => Raster!Scalar(f, tag, default) = default
         /\ \A k \in 1..Len(f.entries) :
              LastOf(f, Len(f.entries), tag, k) /\ Len(f.entries[k].vals) = 1 =>
              Raster!Scalar(f, tag, default) = f.entries[k].vals[1]
<1>1. Raster!Scalar(f, tag, default) = Head(Raster!Values(f, tag, <<default>>))
  BY DEF Raster!Scalar
<1>2. ASSUME NEW k \in 1..Len(f.entries), LastOf(f, Len(f.entries), tag, k),
             Len(f.entries[k].vals) = 1
      PROVE  Raster!Scalar(f, tag, default) = f.entries[k].vals[1]
  <2>1. Raster!Values(f, tag, <<default>>) = f.entries[k].vals
    BY <1>2, ValuesLast
  <2>2. f.entries[k].vals \in Seq(U32)
    <3>1. f.entries[k] \in Entries
      BY <1>2, ElementOf
    <3> QED  BY <3>1 DEF Entries
  <2> QED  BY <1>1, <1>2, <2>1, <2>2
<1>3. ASSUME NoneOf(f, Len(f.entries), tag) PROVE Raster!Scalar(f, tag, default) = default
  <2>1. Raster!Values(f, tag, <<default>>) = <<default>>
    BY <1>3, ValuesLast
  <2> QED  BY <1>1, <2>1
<1> QED  BY <1>2, <1>3

\* One more entry: it is the last one with its tag.
LEMMA LastNext ==
  ASSUME NEW f, NEW n \in Nat, NEW tag
  PROVE  /\ f.entries[n + 1].tag # tag =>
              /\ NoneOf(f, n, tag) => NoneOf(f, n + 1, tag)
              /\ \A k \in 1..n : LastOf(f, n, tag, k) => LastOf(f, n + 1, tag, k)
         /\ f.entries[n + 1].tag = tag => LastOf(f, n + 1, tag, n + 1)
<1>1. \A j \in 1..(n + 1) : j \in 1..n \/ j = n + 1
  OBVIOUS
<1>2. n + 1 \in 1..(n + 1) /\ \A j \in 1..(n + 1) : j <= n + 1
  OBVIOUS
<1>3. \A k \in 1..n : k \in 1..(n + 1)
  OBVIOUS
<1> QED  BY <1>1, <1>2, <1>3 DEF NoneOf, LastOf

\* An entry's values replace those that earlier entries gave.
LEMMA ScalarNext ==
  ASSUME NEW f, NEW n \in Nat, NEW tag, NEW old, NEW new, ScalarRead(f, n, tag, old),
         f.entries[n + 1].tag = tag =>
           Len(f.entries[n + 1].vals) = 1 /\ new = f.entries[n + 1].vals[1],
         f.entries[n + 1].tag # tag => new = old
  PROVE  ScalarRead(f, n + 1, tag, new)
<1>1. n + 1 \in 1..(n + 1) /\ \A k \in 1..n : k \in 1..(n + 1)
  OBVIOUS
<1> QED  BY <1>1, LastNext, Zenon DEF ScalarRead

\* The same for the tags with several values.
LEMMA ArrayNext ==
  ASSUME NEW f, NEW n \in Nat, NEW tag, NEW old, NEW new, ArrayRead(f, n, tag, old),
         f.entries[n + 1].tag = tag => new = f.entries[n + 1].vals,
         f.entries[n + 1].tag # tag => new = old
  PROVE  ArrayRead(f, n + 1, tag, new)
<1>1. n + 1 \in 1..(n + 1) /\ \A k \in 1..n : k \in 1..(n + 1)
  OBVIOUS
<1> QED  BY <1>1, LastNext, Zenon DEF ArrayRead

\* Reading one more entry keeps what was read to be that of the entries so far.
LEMMA ParsedNext ==
  ASSUME CallOK, pc = "entries", ReadEntry, ~Reject,
         NEW n \in Nat, entry = n + 1, Parsed(n),
         \A k \in 1..n : EntryFine(file, file.entries[k])
  PROVE  /\ pc' = "entries" /\ UNCHANGED <<file, format, strip, answer>>
         /\ entry' = n + 2
         /\ Parsed(n + 1)'
         /\ \A k \in 1..(n + 1) : EntryFine(file, file.entries[k])
<1>2. PICK e : e = file.entries[n + 1]
  OBVIOUS
<1>3. /\ pc' = "entries"
      /\ UNCHANGED <<file, format, strip, answer>>
      /\ \/ /\ e.tag \in ScalarTags /\ Readable(e) /\ Len(e.vals) = 1
            /\ scalars' = [scalars EXCEPT ![e.tag] = e.vals[1]]
            /\ arrays' = arrays
         \/ /\ e.tag \in ArrayTags /\ Readable(e)
            /\ arrays' = [arrays EXCEPT ![e.tag] = e.vals]
            /\ scalars' = scalars
         \/ /\ e.tag \notin ScalarTags \cup ArrayTags
            /\ arrays' = arrays /\ scalars' = scalars
  BY <1>2 DEF ReadEntry, args
<1>4. \A tag \in ScalarTags : tag \notin ArrayTags
  BY DEF ScalarTags, ArrayTags
<1>5. EntryFine(file, e)
  BY <1>3, <1>4 DEF EntryFine, Readable
<1>6. \A k \in 1..(n + 1) : EntryFine(file, file.entries[k])
  <2>1. \A k \in 1..(n + 1) : k \in 1..n \/ k = n + 1
    OBVIOUS
  <2> QED  BY <2>1, <1>2, <1>5
<1>7. scalars \in [ScalarTags -> U32] /\ arrays \in [ArrayTags -> Seq(U32)]
  BY DEF CallOK
<1>8. ASSUME NEW tag \in ScalarTags PROVE ScalarRead(file, n + 1, tag, scalars'[tag])
  <2>1. IF e.tag = tag THEN Len(e.vals) = 1 /\ scalars'[tag] = e.vals[1]
                       ELSE scalars'[tag] = scalars[tag]
    <3>1. CASE e.tag \in ScalarTags /\ Len(e.vals) = 1
                 /\ scalars' = [scalars EXCEPT ![e.tag] = e.vals[1]]
      BY <3>1, <1>7
    <3>2. CASE e.tag \notin ScalarTags /\ scalars' = scalars
      BY <3>2
    <3> QED  BY <1>3, <1>4, <3>1, <3>2
  <2>2. ScalarRead(file, n, tag, scalars[tag])
    BY DEF Parsed
  <2>3. /\ file.entries[n + 1].tag = tag =>
             Len(file.entries[n + 1].vals) = 1 /\ scalars'[tag] = file.entries[n + 1].vals[1]
        /\ file.entries[n + 1].tag # tag => scalars'[tag] = scalars[tag]
    BY <1>2, <2>1
  <2> QED  BY <2>2, <2>3, ScalarNext
<1>9. ASSUME NEW tag \in ArrayTags PROVE ArrayRead(file, n + 1, tag, arrays'[tag])
  <2>1. IF e.tag = tag THEN arrays'[tag] = e.vals ELSE arrays'[tag] = arrays[tag]
    <3>1. CASE e.tag \in ArrayTags /\ arrays' = [arrays EXCEPT ![e.tag] = e.vals]
      BY <3>1, <1>7
    <3>2. CASE e.tag \notin ArrayTags /\ arrays' = arrays
      BY <3>2
    <3> QED  BY <1>3, <1>4, <3>1, <3>2
  <2>2. ArrayRead(file, n, tag, arrays[tag])
    BY DEF Parsed
  <2>3. /\ file.entries[n + 1].tag = tag => arrays'[tag] = file.entries[n + 1].vals
        /\ file.entries[n + 1].tag # tag => arrays'[tag] = arrays[tag]
    BY <1>2, <2>1
  <2> QED  BY <2>2, <2>3, ArrayNext
<1>10. entry' = n + 2
  <2>1. entry' = entry + 1
    BY DEF ReadEntry
  <2> QED  BY <2>1
<1>11. file' = file
  BY <1>3
<1>12. Parsed(n + 1)'
  BY <1>8, <1>9, <1>11 DEF Parsed
<1> QED  BY <1>3, <1>6, <1>10, <1>12

(***************************************************************************)
(* The bytes of the strips, one after the other.                           *)
(***************************************************************************)

\* Flattening is determined by its first part and by how each part follows.
LEMMA Flattened ==
  ASSUME NEW seqs, NEW n \in Nat \ {0}, Len(seqs) = n, NEW W, Chain(seqs, n, W)
  PROVE  Raster!FlattenSeq(seqs) = W[n]
<1>1. Raster!FlattenSeq(seqs) = (CHOOSE flatten : Chain(seqs, n, flatten))[n]
  BY DEF Raster!FlattenSeq, Chain
<1> QED  BY <1>1, ChainIs

\* Where the xth byte of the image is, in strips of Z bytes at these offsets.
Place(o, Z, x) == o[((x - 1) \div Z) + 1] + ((x - 1) % Z)

\* The first n of them.
Places(o, Z, n) == [x \in 1..n |-> Place(o, Z, x)]

\* The b addresses from a on.
From(a, b) == [k \in 1..b |-> a + k - 1]

\* A strip of b bytes follows i whole ones.
Follows(o, Z, i, b) ==
  Places(o, Z, i * Z) \o From(o[i + 1], b) = Places(o, Z, i * Z + b)

\* A strip of up to Z bytes after i whole ones.
LEMMA Joined ==
  ASSUME NEW o, NEW Z \in Nat \ {0}, NEW i \in Nat, NEW b \in 0..Z,
         \A j \in 1..(i + 1) : o[j] \in Nat
  PROVE  Follows(o, Z, i, b)
<1>1. PICK m \in Nat : m = i * Z
  OBVIOUS
<1>2. ASSUME NEW x \in 1..m PROVE Place(o, Z, x) \in Nat
  <2>1. x - 1 \in Nat /\ x - 1 < i * Z
    BY <1>1
  <2>2. PICK y \in Nat : y = x - 1
    BY <2>1
  <2>3. y \div Z \in Nat /\ y % Z \in Nat /\ y \div Z < i
    BY <2>1, <2>2, DivMod, RowInGrid
  <2>4. (y \div Z) + 1 \in 1..(i + 1)
    BY <2>3
  <2> QED  BY <2>2, <2>3, <2>4 DEF Place
<1>3. ASSUME NEW k \in 1..b PROVE Place(o, Z, m + k) = o[i + 1] + k - 1
  <2>1. PICK y \in Nat : y = m + k - 1
    BY <1>1
  <2>2. Z * i <= y /\ y < Z * i + Z
    BY <1>1, <2>1
  <2>3. (y \div Z) = i /\ (y % Z) = y - Z * i
    BY <2>2, DivUnique
  <2>4. y - Z * i = k - 1
    BY <1>1, <2>1
  <2>5. Place(o, Z, m + k) = o[i + 1] + (k - 1)
    BY <2>1, <2>3, <2>4 DEF Place
  <2>6. o[i + 1] \in Nat
    OBVIOUS
  <2> QED  BY <2>5, <2>6
<1> DEFINE s == [x \in 1..m |-> Place(o, Z, x)]
           t == [k \in 1..b |-> o[i + 1] + k - 1]
           u == [x \in 1..(m + b) |-> Place(o, Z, x)]
<1>4. s \in Seq(Nat) /\ Len(s) = m
  BY <1>2
<1>5. t \in Seq(Nat) /\ Len(t) = b
  <2>1. o[i + 1] \in Nat /\ b \in Nat
    OBVIOUS
  <2> QED  BY <2>1
<1>6. \A x \in 1..(m + b) : x \in 1..m \/ (x - m \in 1..b /\ x = m + (x - m))
  OBVIOUS
<1>7. ASSUME NEW x \in 1..(m + b)
      PROVE  Place(o, Z, x) = IF x <= m THEN s[x] ELSE t[x - m]
  <2>1. CASE x <= m
    BY <2>1
  <2>2. CASE ~(x <= m)
    <3>1. PICK k \in 1..b : k = x - m /\ x = m + k
      BY <1>6, <2>2
    <3>2. t[k] = o[i + 1] + k - 1
      OBVIOUS
    <3> HIDE DEF t
    <3> QED  BY <1>3, <2>2, <3>1, <3>2
  <2> QED  BY <2>1, <2>2
<1> HIDE DEF s, t
<1>8. s \o t = [x \in 1..(m + b) |-> IF x <= m THEN s[x] ELSE t[x - m]]
  <2>1. s \o t = [x \in 1..(Len(s) + Len(t)) |->
                     IF x <= Len(s) THEN s[x] ELSE t[x - Len(s)]]
    BY <1>4, <1>5, ConcatShape, Zenon
  <2> QED  BY <1>4, <1>5, <2>1, Zenon
<1>9. s \o t = u
  BY <1>7, <1>8
<1> QED  BY <1>1, <1>9 DEF s, t, Places, From, Follows

\* Strips of which all but the last are whole.
LEMMA Concatenated ==
  ASSUME NEW n \in Nat \ {0}, NEW Z \in Nat \ {0}, NEW o, NEW B,
         \A i \in 1..n : o[i] \in Nat,
         \A i \in 1..(n - 1) : B[i] = Z, B[n] \in 0..Z
  PROVE  Raster!FlattenSeq([i \in 1..n |-> From(o[i], B[i])])
           = Places(o, Z, (n - 1) * Z + B[n])
<1> DEFINE strips == [i \in 1..n |-> From(o[i], B[i])]
           all(i) == Places(o, Z, (i - 1) * Z + B[i])
           W == [i \in 1..n |-> all(i)]
<1>1. ASSUME NEW i \in 1..n
      PROVE  Places(o, Z, (i - 1) * Z) \o strips[i] = all(i)
  <2>1. i - 1 \in Nat /\ (i - 1) + 1 = i /\ B[i] \in 0..Z
    <3>1. i - 1 \in Nat /\ (i - 1) + 1 = i /\ (i \in 1..(n - 1) \/ i = n) /\ Z \in 0..Z
      OBVIOUS
    <3> HIDE DEF strips, all, W
    <3> QED  BY <3>1
  <2>2. PICK j \in Nat : j = i - 1
    BY <2>1
  <2>3. \A h \in 1..(j + 1) : o[h] \in Nat
    BY <2>2
  <2>4. Places(o, Z, j * Z) \o From(o[j + 1], B[i]) = Places(o, Z, j * Z + B[i])
    <3>1. B[i] \in 0..Z
      BY <2>1
    <3> HIDE DEF strips, all, W
    <3>2. Follows(o, Z, j, B[i])
      BY <2>3, <3>1, Joined
    <3> QED  BY <3>2 DEF Follows
  <2>5. o[i] = o[j + 1] /\ i - 1 = j
    BY <2>1, <2>2
  <2>6. strips[i] = From(o[j + 1], B[i])
    BY <2>5
  <2> HIDE DEF strips
  <2> QED  BY <2>4, <2>5, <2>6
<1>2. ASSUME NEW i \in 1..n, i # 1 PROVE W[i] = W[i - 1] \o strips[i]
  <2>1. i - 1 \in 1..(n - 1) /\ i - 1 \in 1..n
    BY <1>2
  <2>2. ((i - 1) - 1) * Z + B[i - 1] = (i - 1) * Z
    <3>1. PICK j \in Nat : j = (i - 1) - 1 /\ i - 1 = j + 1
      BY <2>1
    <3> QED  BY <2>1, <3>1
  <2>3. all(i - 1) = Places(o, Z, (i - 1) * Z)
    BY <2>2
  <2> HIDE DEF strips, all
  <2> QED  BY <1>1, <2>1, <2>3
<1>3. W[1] = strips[1]
  <2>1. B[1] \in 0..Z /\ 1 \in 1..n /\ (1 - 1) * Z = 0 /\ o[1] \in Nat
    OBVIOUS
  <2>2. ASSUME NEW k \in 1..B[1] PROVE Place(o, Z, k) = o[1] + k - 1
    <3>1. PICK y \in Nat : y = k - 1
      BY <2>1
    <3>2. Z * 0 <= y /\ y < Z * 0 + Z
      BY <2>1, <3>1
    <3>3. (y \div Z) = 0 /\ (y % Z) = y - Z * 0
      BY <3>2, DivUnique
    <3> QED  BY <2>1, <3>1, <3>3 DEF Place
  <2>3. (1 - 1) * Z + B[1] = B[1]
    BY <2>1
  <2>4. W[1] = Places(o, Z, B[1])
    BY <2>1, <2>3
  <2> QED  BY <2>1, <2>2, <2>4 DEF Places, From
<1>4. Len(strips) = n
  OBVIOUS
<1>45. n \in 1..n
  OBVIOUS
<1> HIDE DEF strips
<1>5. Chain(strips, n, W)
  <2>1. W = [i \in 1..n |-> W[i]]
    OBVIOUS
  <2>2. \A i \in 1..n : W[i] = IF i = 1 THEN strips[i] ELSE W[i - 1] \o strips[i]
    BY <1>2, <1>3
  <2> HIDE DEF W
  <2> QED  BY <2>1, <2>2 DEF Chain
<1>6. W[n] = all(n)
  BY <1>45
<1> HIDE DEF W
<1>7. Raster!FlattenSeq(strips) = W[n]
  BY <1>4, <1>5, Flattened, Zenon
<1> QED  BY <1>6, <1>7 DEF strips

\* Sample k of pixel p is in strip (p \div width) \div R, at this place.
SampleAt(width, S, R, p, k) ==
  /\ ((p * S + k - 1) \div (R * (width * S))) = ((p \div width) \div R)
  /\ ((p * S + k - 1) % (R * (width * S)))
       = ((p \div width) % R) * (width * S) + (p % width) * S + (k - 1)

\* Where the samples of pixel p are among the bytes of the image: rows of width
\* pixels of S bytes, strips of R rows.
LEMMA SampleInStrip ==
  ASSUME NEW width \in Nat \ {0}, NEW S \in Nat \ {0}, NEW R \in Nat \ {0},
         NEW p \in Nat, NEW k \in 1..S
  PROVE  SampleAt(width, S, R, p, k)
<1>1. PICK row \in Nat, column \in Nat :
        /\ row = (p \div width) /\ column = (p % width)
        /\ p = width * row + column /\ column < width
  BY DivMod
<1>2. PICK q \in Nat, r \in Nat :
        /\ q = (row \div R) /\ r = (row % R)
        /\ row = R * q + r /\ r < R
  BY DivMod
<1>3. PICK wide \in Nat \ {0} : wide = width * S
  OBVIOUS
<1>4. PICK y \in Nat : y = p * S + k - 1 /\ y = p * S + (k - 1)
  OBVIOUS
<1>5. PICK c \in Nat : c = column * S + (k - 1)
  OBVIOUS
<1>6. c < wide
  <2>1. (column + 1) * S <= width * S
    BY <1>1, MulMono
  <2>2. (column + 1) * S = column * S + S
    OBVIOUS
  <2> QED  BY <1>3, <1>5, <2>1, <2>2
<1>7. y = row * wide + c
  <2>1. p * S = (width * row) * S + column * S
    BY <1>1
  <2>2. (width * row) * S = row * wide
    BY <1>3
  <2> QED  BY <1>4, <1>5, <2>1, <2>2
<1>8. PICK Z \in Nat \ {0} : Z = R * wide
  OBVIOUS
<1>9. row * wide = Z * q + r * wide
  <2>1. row * wide = (R * q) * wide + r * wide
    BY <1>2
  <2>2. (R * q) * wide = Z * q
    BY <1>8
  <2> QED  BY <2>1, <2>2
<1>10. r * wide \in Nat /\ r * wide + wide <= Z
  <2>1. (r + 1) * wide <= R * wide
    BY <1>2, MulMono
  <2>2. (r + 1) * wide = r * wide + wide
    OBVIOUS
  <2> QED  BY <1>8, <2>1, <2>2
<1>11. PICK d \in Nat : d = r * wide + c /\ d < Z
  BY <1>6, <1>10
<1>12. Z * q \in Nat /\ y = Z * q + d
  BY <1>7, <1>9, <1>10, <1>11
<1>13. (y \div Z) = q /\ (y % Z) = y - Z * q
  <2>1. PICK e \in Nat : e = Z * q
    BY <1>12
  <2>2. e <= y /\ y < e + Z
    BY <1>11, <1>12, <2>1
  <2>3. Z * q <= y /\ y < Z * q + Z
    BY <2>1, <2>2
  <2> QED  BY <2>3, DivUnique
<1>14. (y % Z) = d
  BY <1>12, <1>13
<1>15. d = r * wide + column * S + (k - 1)
  BY <1>5, <1>10, <1>11
<1> QED  BY <1>1, <1>2, <1>3, <1>4, <1>8, <1>13, <1>14, <1>15 DEF SampleAt

\* The channels of a pixel, from its samples.
LEMMA ConvertPixel ==
  ASSUME format \in Formats, IsRgb \/ IsGray, NEW a \in Nat
  PROVE  Raster!Convert([k \in 1..Samples |-> a + (k - 1)], format) = Pixel(a)
<1>1. CASE IsGray
  <2>1. Samples = 1 /\ ~IsRgb
    BY <1>1 DEF IsGray, IsRgb
  <2>2. [k \in 1..1 |-> a + (k - 1)] = <<a>>
    OBVIOUS
  <2>3. Len(<<a>>) = 1
    OBVIOUS
  <2> QED  BY <2>1, <2>2, <2>3 DEF Raster!Convert, Pixel, Formats
<1>2. CASE IsRgb
  <2>1. Samples = 3
    BY <1>2 DEF IsRgb
  <2>2. [k \in 1..3 |-> a + (k - 1)] = <<a, a + 1, a + 2>>
    OBVIOUS
  <2>9. PICK s : s = <<a, a + 1, a + 2>>
    OBVIOUS
  <2>3. Len(s) = 3 /\ s[1] = a /\ s[2] = a + 1 /\ s[3] = a + 2
    BY <2>9
  <2>4. /\ [k \in 1..3 |-> <<s[k]>>] = << <<a>>, <<a + 1>>, <<a + 2>> >>
        /\ [k \in 1..3 |-> <<s[4 - k]>>] = << <<a + 2>>, <<a + 1>>, <<a>> >>
    BY <2>3
  <2>5. Raster!Convert(s, format) = Pixel(a)
    BY <1>2, <2>3, <2>4, <2>9 DEF Raster!Convert, Pixel, Formats
  <2> QED  BY <2>1, <2>2, <2>9, <2>5
<1> QED  BY <1>1, <1>2

(***************************************************************************)
(* The tags.                                                               *)
(***************************************************************************)

\* The parts of the format's definition of a baseline image.
TagsFine(f) ==
  LET g == Raster!Geometry(f) IN
  /\ Raster!Scalar(f, "Compression", 1) = 1 /\ Raster!Scalar(f, "PlanarConfig", 1) = 1
  /\ g.width > 0 /\ g.length > 0 /\ g.rows > 0
  /\ \/ g.samples = 1 /\ g.photometric \in {1, MaxU32} /\ g.bits = <<8>>
     \/ g.samples = 3 /\ g.photometric \in {2, MaxU32} /\ g.bits = <<8, 8, 8>>
  /\ Len(g.offsets) = Len(g.counts)

\* The strips that the format asks for: they partition the rows and are all there.
StripsFine(f) ==
  LET g == Raster!Geometry(f) IN
  /\ \A s \in DOMAIN g.offsets :
       /\ Raster!Rows(g, s) # {}
       /\ Raster!StripBytes(g, s) <= g.counts[s]
       /\ g.offsets[s] + g.counts[s] <= f.size
  /\ UNION {Raster!Rows(g, s) : s \in DOMAIN g.offsets} = 0..(g.length - 1)

\* The format's definition is made of these parts.
LEMMA BaselineParts ==
  ASSUME NEW f
  PROVE  Raster!Baseline(f) <=>
           /\ HeaderFine(f) /\ \A k \in DOMAIN f.entries : EntryFine(f, f.entries[k])
           /\ TagsFine(f) /\ StripsFine(f)
<1>1. Raster!WellFormed(f) <=>
        HeaderFine(f) /\ \A k \in DOMAIN f.entries : EntryFine(f, f.entries[k])
  BY SameFormat DEF Raster!WellFormed, HeaderFine, EntryFine
<1>2. Raster!Baseline(f) <=> Raster!WellFormed(f) /\ TagsFine(f) /\ StripsFine(f)
  BY DEF Raster!Baseline, Raster!BaselineImage, TagsFine, StripsFine
<1> QED  BY <1>1, <1>2

\* Once all entries have been read, the tables are what the format reads.
LEMMA AllRead ==
  ASSUME CallOK, Parsed(Len(file.entries))
  PROVE  /\ \A tag \in ScalarTags : Raster!Scalar(file, tag, Defaults[tag]) = scalars[tag]
         /\ \A tag \in ArrayTags : Raster!Values(file, tag, <<>>) = arrays[tag]
<1>1. file.entries \in Seq(Entries)
  BY FilesAssumption DEF CallOK, TiffFiles
<1>2. ASSUME NEW tag \in ScalarTags
      PROVE  Raster!Scalar(file, tag, Defaults[tag]) = scalars[tag]
  <2>1. ScalarRead(file, Len(file.entries), tag, scalars[tag])
    BY DEF Parsed
  <2> QED  BY <1>1, <2>1, ScalarLast DEF ScalarRead
<1>3. ASSUME NEW tag \in ArrayTags PROVE Raster!Values(file, tag, <<>>) = arrays[tag]
  <2>1. ArrayRead(file, Len(file.entries), tag, arrays[tag])
    BY DEF Parsed
  <2> QED  BY <1>1, <2>1, ValuesLast DEF ArrayRead
<1> QED  BY <1>2, <1>3

\* The geometry the format defines, in the decoder's names.
LEMMA GeometryRead ==
  ASSUME CallOK, Parsed(Len(file.entries))
  PROVE  /\ Raster!Geometry(file) =
              [width |-> Width, length |-> Length, samples |-> Samples,
               rows |-> Completed["RowsPerStrip"],
               photometric |-> scalars["Photometric"],
               bits |-> arrays["BitsPerSample"],
               offsets |-> Offsets, counts |-> Counts]
         /\ Raster!Scalar(file, "Compression", 1) = scalars["Compression"]
         /\ Raster!Scalar(file, "PlanarConfig", 1) = scalars["PlanarConfig"]
<1>1. /\ {"ImageWidth", "ImageLength", "SamplesPerPixel", "RowsPerStrip", "Photometric",
          "Compression", "PlanarConfig"} \subseteq ScalarTags
      /\ {"BitsPerSample", "StripOffsets", "StripByteCounts"} \subseteq ArrayTags
  BY DEF ScalarTags, ArrayTags
<1>2. /\ Defaults["ImageWidth"] = 0 /\ Defaults["ImageLength"] = 0
      /\ Defaults["SamplesPerPixel"] = 1 /\ Defaults["RowsPerStrip"] = MaxU32
      /\ Defaults["Photometric"] = MaxU32
      /\ Defaults["Compression"] = 1 /\ Defaults["PlanarConfig"] = 1
  BY <1>1 DEF Defaults
<1>3. /\ Raster!Scalar(file, "ImageWidth", 0) = Width
      /\ Raster!Scalar(file, "ImageLength", 0) = Length
      /\ Raster!Scalar(file, "SamplesPerPixel", 1) = Samples
      /\ Raster!Scalar(file, "RowsPerStrip", MaxU32) = RowsPerStrip
      /\ Raster!Scalar(file, "Photometric", MaxU32) = scalars["Photometric"]
      /\ Raster!Scalar(file, "Compression", 1) = scalars["Compression"]
      /\ Raster!Scalar(file, "PlanarConfig", 1) = scalars["PlanarConfig"]
  BY <1>1, <1>2, AllRead DEF Width, Length, Samples, RowsPerStrip
<1>4. /\ Raster!Values(file, "BitsPerSample", <<>>) = arrays["BitsPerSample"]
      /\ Raster!Values(file, "StripOffsets", <<>>) = Offsets
      /\ Raster!Values(file, "StripByteCounts", <<>>) = Counts
  BY <1>1, AllRead DEF Offsets, Counts
<1>5. Completed["RowsPerStrip"] = IF RowsPerStrip = MaxU32 THEN Length ELSE RowsPerStrip
  BY <1>1 DEF Completed, RowsPerStrip, CallOK
<1> QED  BY <1>3, <1>4, <1>5 DEF Raster!Geometry

\* What CheckFields asks of the tags is what the format asks, and an offset.
LEMMA SupportedTags ==
  ASSUME CallOK, Parsed(Len(file.entries))
  PROVE  Supported <=> TagsFine(file) /\ Offsets # <<>>
<1> DEFINE bits == arrays["BitsPerSample"]
           rows == Completed["RowsPerStrip"]
           photometric == scalars["Photometric"]
<1>1. TagsFine(file) <=>
        /\ scalars["Compression"] = 1 /\ scalars["PlanarConfig"] = 1
        /\ Width > 0 /\ Length > 0 /\ rows > 0
        /\ \/ Samples = 1 /\ photometric \in {1, MaxU32} /\ bits = <<8>>
           \/ Samples = 3 /\ photometric \in {2, MaxU32} /\ bits = <<8, 8, 8>>
        /\ Len(Offsets) = Len(Counts)
  BY GeometryRead DEF TagsFine
<1>2. /\ Width \in Nat /\ Length \in Nat /\ RowsPerStrip \in Nat /\ Samples \in Nat
      /\ photometric \in Nat /\ bits \in Seq(Nat)
  <2>1. U32 \subseteq Nat
    BY MaxU32Assumption DEF U32
  <2>2. /\ Width \in U32 /\ Length \in U32 /\ RowsPerStrip \in U32 /\ Samples \in U32
        /\ photometric \in U32 /\ bits \in Seq(U32)
    BY DEF CallOK, Width, Length, RowsPerStrip, Samples, ScalarTags, ArrayTags
  <2>3. bits \in Seq(Nat)
    <3>1. PICK b \in Seq(U32) : b = bits
      BY <2>2
    <3>2. \A i \in 1..Len(b) : b[i] \in Nat
      BY <2>1, ElementOf
    <3>3. b \in Seq(Nat)
      BY <3>2
    <3> QED  BY <3>1, <3>3
  <2> QED  BY <2>1, <2>2, <2>3
<1>3. /\ rows = IF RowsPerStrip = MaxU32 THEN Length ELSE RowsPerStrip
      /\ Completed["Photometric"] = IF photometric # MaxU32 THEN photometric
                                    ELSE IF Samples = 1 THEN 1 ELSE 2
  BY DEF Completed, RowsPerStrip, CallOK, ScalarTags
<1>4. rows \in Nat
  BY <1>2, <1>3
<1>5. /\ Samples = 1 /\ Completed["Photometric"] = 1
           <=> Samples = 1 /\ photometric \in {1, MaxU32}
      /\ Samples = 3 /\ Completed["Photometric"] = 2
           <=> Samples = 3 /\ photometric \in {2, MaxU32}
  BY <1>2, <1>3, MaxU32Assumption
<1>6. /\ Samples = 1 =>
           (bits = <<8>> <=> Len(bits) = Samples /\ \A k \in DOMAIN bits : bits[k] = 8)
      /\ Samples = 3 =>
           (bits = <<8, 8, 8>> <=> Len(bits) = Samples /\ \A k \in DOMAIN bits : bits[k] = 8)
  <2>1. PICK b \in Seq(Nat) : b = bits
    BY <1>2
  <2>2. b = <<8>> <=> Len(b) = 1 /\ \A k \in DOMAIN b : b[k] = 8
    OBVIOUS
  <2>3. b = <<8, 8, 8>> <=> Len(b) = 3 /\ \A k \in DOMAIN b : b[k] = 8
    OBVIOUS
  <2> QED  BY <2>1, <2>2, <2>3
<1>7. Supported <=>
        /\ scalars["Compression"] = 1 /\ scalars["PlanarConfig"] = 1
        /\ Width # 0 /\ Length # 0 /\ Samples # 0
        /\ Len(bits) = Samples
        /\ Offsets # <<>> /\ Len(Offsets) = Len(Counts)
        /\ \A k \in DOMAIN bits : bits[k] = 8
        /\ rows # 0
        /\ \/ Completed["Photometric"] = 2 /\ Samples = 3
           \/ Completed["Photometric"] = 1 /\ Samples = 1
  BY DEF Supported
<1> HIDE DEF bits, rows, photometric
<1>8. /\ Width > 0 <=> Width # 0
      /\ Length > 0 <=> Length # 0
      /\ rows > 0 <=> rows # 0
  BY <1>2, <1>4
<1>9. CASE Samples = 1
  BY <1>1, <1>5, <1>6, <1>7, <1>8, <1>9
<1>10. CASE Samples = 3
  BY <1>1, <1>5, <1>6, <1>7, <1>8, <1>10
<1>11. CASE Samples # 1 /\ Samples # 3
  BY <1>1, <1>7, <1>11
<1> QED  BY <1>9, <1>10, <1>11

(***************************************************************************)
(* The strips.                                                             *)
(***************************************************************************)

\* The overflow guard refuses no strip that its byte count has room for.
LEMMA GuardExact ==
  ASSUME NEW rows \in Nat \ {0}, NEW wide \in Nat, NEW count \in U32
  PROVE  wide <= MaxU64 \div rows /\ Mul64(rows, wide) <= count <=> rows * wide <= count
<1>1. count \in Nat /\ MaxU64 \in Nat /\ count <= MaxU64
  BY MaxU32Assumption DEF U32, MaxU64
<1>2. ASSUME wide <= MaxU64 \div rows PROVE Mul64(rows, wide) = rows * wide
  BY <1>2, Mul64Guarded
<1>3. ASSUME rows * wide <= count PROVE wide <= MaxU64 \div rows
  <2>1. PICK m \in Nat : m = MaxU64
    BY <1>1
  <2>2. rows * wide <= m
    BY <1>1, <1>3, <2>1
  <2>3. PICK q \in Nat : q = m \div rows /\ m < rows * q + rows
    BY DivMod
  <2>4. ~(q + 1 <= wide)
    <3>1. (q + 1) * rows = rows * q + rows
      OBVIOUS
    <3>2. q + 1 <= wide => (q + 1) * rows <= wide * rows
      BY MulMono
    <3> QED  BY <2>2, <2>3, <3>1, <3>2
  <2> QED  BY <2>1, <2>3, <2>4
<1> QED  BY <1>2, <1>3

\* The geometry the decoder goes by is the one the format defines.
SameGeometry ==
  LET g == Raster!Geometry(file) IN
  /\ g.width = Width /\ g.length = Length /\ g.samples = Samples
  /\ g.rows = RowsPerStrip /\ g.offsets = Offsets /\ g.counts = Counts

\* The bytes of a strip that has rows.
LEMMA StripBytesRead ==
  ASSUME CallOK, GeometryChecked, SameGeometry, NEW s \in Nat \ {0},
         (s - 1) * RowsPerStrip < Length
  PROVE  /\ RowsIn(s) = CountOf(Length, RowsPerStrip, s)
         /\ RowsIn(s) \in Nat \ {0}
         /\ Raster!StripBytes(Raster!Geometry(file), s) = RowsIn(s) * RowBytes
<1>1. /\ Length \in Nat \ {0} /\ RowsPerStrip \in Nat \ {0} /\ Width \in Nat
      /\ Samples \in Nat /\ RowBytes = Width * Samples
  BY GeometryTypes
<1>2. RowsIn(s) = CountOf(Length, RowsPerStrip, s)
  BY DEF RowsIn, CountOf
<1>3. /\ Cardinality(RowsOf(Length, RowsPerStrip, s)) = RowsIn(s)
      /\ RowsIn(s) \in 1..RowsPerStrip
  BY <1>1, <1>2, RowsCount
<1>4. Raster!StripBytes(Raster!Geometry(file), s)
        = Cardinality(RowsOf(Length, RowsPerStrip, s)) * Width * Samples
  BY SameFormat DEF Raster!StripBytes, Raster!Rows, RowsOf, SameGeometry
<1>5. PICK c \in Nat \ {0} : c = RowsIn(s)
  BY <1>1, <1>3
<1>6. c * Width * Samples = c * (Width * Samples)
  BY <1>1
<1> QED  BY <1>1, <1>2, <1>3, <1>4, <1>5, <1>6

\* The checks of the strip table are those of the format.
LEMMA StripsRead ==
  ASSUME CallOK, GeometryChecked, SameGeometry
  PROVE  StripsFine(file) <=>
           Len(Offsets) = StripCount /\ \A s \in 1..Len(Offsets) : StripFits(s)
<1>1. PICK n \in Nat : n = Len(Offsets) /\ DOMAIN Offsets = 1..n
  BY GeometryTypes
<1>2. /\ Length \in Nat \ {0} /\ RowsPerStrip \in Nat \ {0} /\ RowBytes \in Nat
      /\ Counts \in Seq(U32) /\ Len(Counts) = n
  BY <1>1, GeometryTypes DEF GeometryChecked
<1> DEFINE g == Raster!Geometry(file)
           room == \A s \in 1..n : /\ Raster!StripBytes(g, s) <= Counts[s]
                                   /\ Offsets[s] + Counts[s] <= file.size
           partition == /\ \A s \in 1..n : RowsOf(Length, RowsPerStrip, s) # {}
                        /\ UNION {RowsOf(Length, RowsPerStrip, s) : s \in 1..n} = 0..(Length - 1)
<1>3. StripsFine(file) <=> partition /\ room
  <2>1. g.offsets = Offsets /\ g.counts = Counts /\ g.length = Length
    BY DEF SameGeometry
  <2>2. \A s : Raster!Rows(g, s) = RowsOf(Length, RowsPerStrip, s)
    BY DEF SameGeometry, Raster!Rows, RowsOf
  <2>3. StripsFine(file) <=>
          /\ \A s \in 1..n : /\ Raster!Rows(g, s) # {}
                             /\ Raster!StripBytes(g, s) <= Counts[s]
                             /\ Offsets[s] + Counts[s] <= file.size
          /\ UNION {Raster!Rows(g, s) : s \in 1..n} = 0..(Length - 1)
    BY <1>1, <2>1 DEF StripsFine
  <2> HIDE DEF g
  <2>4. UNION {Raster!Rows(g, s) : s \in 1..n}
          = UNION {RowsOf(Length, RowsPerStrip, s) : s \in 1..n}
    BY <2>2
  <2> QED  BY <2>2, <2>3, <2>4
<1>4. partition <=> n = StripCount
  BY <1>2, StripsCover DEF StripCount
<1>5. ASSUME n = StripCount, NEW s \in 1..n
      PROVE  StripFits(s) <=> /\ Raster!StripBytes(g, s) <= Counts[s]
                              /\ Offsets[s] + Counts[s] <= file.size
  <2>1. (s - 1) * RowsPerStrip < Length
    BY <1>2, <1>5, StripSizes DEF SizesFine, StripCount
  <2>2. s \in Nat \ {0}
    OBVIOUS
  <2>3. RowsIn(s) \in Nat \ {0} /\ Raster!StripBytes(g, s) = RowsIn(s) * RowBytes
    BY <2>1, <2>2, StripBytesRead
  <2>4. Counts[s] \in U32
    BY <1>2, ElementOf
  <2>5. RowBytes <= MaxU64 \div RowsIn(s) /\ Mul64(RowsIn(s), RowBytes) <= Counts[s]
          <=> RowsIn(s) * RowBytes <= Counts[s]
    BY <1>2, <2>3, <2>4, GuardExact
  <2> QED  BY <2>3, <2>5 DEF StripFits
<1> HIDE DEF g
<1> QED  BY <1>1, <1>3, <1>4, <1>5

\* The size limit of the output is the format's picture fitting in a vector.
LEMMA StorableRead ==
  ASSUME CallOK, GeometryChecked, SameGeometry
  PROVE  Allocatable <=> Raster!Storable(file, format)
<1>1. PixelCount = Length * Width /\ PixelCount \in Nat /\ Width \in Nat /\ Length \in Nat
  BY PixelCountExact, GeometryTypes
<1>2. MaxU64 \in Nat
  BY MaxU32Assumption DEF MaxU64
<1>3. PICK c \in {1, 3} : c = Channels(format) /\ c = IF format = "Grayscale" THEN 1 ELSE 3
  BY DEF Channels
<1>4. Raster!Storable(file, format) <=> Width * Length * c <= MaxU64 \div 2
  BY <1>3, SameFormat DEF Raster!Storable, SameGeometry
<1>5. PICK pixels \in Nat, m \in Nat : pixels = PixelCount /\ m = MaxU64
  BY <1>1, <1>2
<1>6. Width * Length * c = pixels * c
  BY <1>1, <1>5
<1>7. pixels * c <= m \div 2 => pixels <= m \div c
  BY <1>3
<1> QED  BY <1>3, <1>4, <1>5, <1>6, <1>7 DEF Allocatable

\* The bytes of the strips one after the other: byte x of the image is in the
\* strip that its row's number gives.
LEMMA AddressesRead ==
  ASSUME CallOK, GeometryChecked, SameGeometry, Len(Offsets) = StripCount
  PROVE  Raster!SampleAddresses(Raster!Geometry(file))
           = Places(Offsets, RowsPerStrip * RowBytes, Length * RowBytes)
<1>1. /\ Length \in Nat \ {0} /\ RowsPerStrip \in Nat \ {0} /\ RowBytes \in Nat \ {0}
      /\ Offsets \in Seq(U32)
  BY GeometryTypes
<1>2. PICK n \in Nat : n = Len(Offsets) /\ DOMAIN Offsets = 1..n
  BY <1>1
<1>3. n = (Length + RowsPerStrip - 1) \div RowsPerStrip
  BY <1>2 DEF StripCount
<1>4. /\ n \in Nat \ {0}
      /\ \A s \in 1..n : (s - 1) * RowsPerStrip < Length
      /\ \A s \in 1..(n - 1) : CountOf(Length, RowsPerStrip, s) = RowsPerStrip
      /\ CountOf(Length, RowsPerStrip, n) = Length - (n - 1) * RowsPerStrip
  <2>1. SizesFine(Length, RowsPerStrip, n)
    BY <1>1, <1>3, StripSizes
  <2> QED  BY <2>1 DEF SizesFine
<1> DEFINE g == Raster!Geometry(file)
           B == [s \in 1..n |-> Raster!StripBytes(g, s)]
           Z == RowsPerStrip * RowBytes
<1>5. ASSUME NEW s \in 1..n
      PROVE  B[s] = CountOf(Length, RowsPerStrip, s) * RowBytes
  <2>1. s \in Nat \ {0} /\ (s - 1) * RowsPerStrip < Length
    BY <1>4
  <2>2. Raster!StripBytes(g, s) = CountOf(Length, RowsPerStrip, s) * RowBytes
    BY <2>1, StripBytesRead
  <2> QED  BY <2>2
<1>6. n \in 1..n /\ \A s \in 1..(n - 1) : s \in 1..n
  BY <1>4
<1>7. \A s \in 1..(n - 1) : B[s] = Z
  BY <1>4, <1>5, <1>6
<1>8. PICK last \in 1..RowsPerStrip : last = CountOf(Length, RowsPerStrip, n)
  BY <1>1, <1>4, <1>6, RowsCount
<1>9. B[n] = last * RowBytes
  BY <1>5, <1>6, <1>8
<1>10. B[n] \in 0..Z
  <2>1. last * RowBytes <= RowsPerStrip * RowBytes /\ last * RowBytes \in Nat
    BY <1>1, MulMono
  <2> QED  BY <1>9, <2>1
<1>11. Z \in Nat \ {0}
  BY <1>1
<1>12. (n - 1) * Z + B[n] = Length * RowBytes
  <2>1. last = Length - (n - 1) * RowsPerStrip
    BY <1>4, <1>8
  <2>2. (n - 1) * (RowsPerStrip * RowBytes) + last * RowBytes = Length * RowBytes
    BY <1>1, <1>4, <2>1, AllRows
  <2> QED  BY <1>9, <2>2
<1>13. \A i \in 1..n : Offsets[i] \in Nat
  <2>1. U32 \subseteq Nat
    BY MaxU32Assumption DEF U32
  <2> QED  BY <1>1, <1>2, <2>1, ElementOf
<1>14. Raster!SampleAddresses(g)
         = Raster!FlattenSeq([i \in 1..n |-> From(Offsets[i], B[i])])
  <2>1. g.offsets = Offsets
    BY DEF SameGeometry
  <2>2. Raster!SampleAddresses(g)
          = Raster!FlattenSeq([i \in 1..n |-> From(Offsets[i], Raster!StripBytes(g, i))])
    BY <1>2, <2>1 DEF Raster!SampleAddresses, From
  <2>3. [i \in 1..n |-> From(Offsets[i], Raster!StripBytes(g, i))]
          = [i \in 1..n |-> From(Offsets[i], B[i])]
    OBVIOUS
  <2> QED  BY <2>2, <2>3
<1> HIDE DEF B, Z, g
<1>15. Raster!FlattenSeq([i \in 1..n |-> From(Offsets[i], B[i])])
         = Places(Offsets, Z, (n - 1) * Z + B[n])
  BY <1>4, <1>7, <1>10, <1>11, <1>13, Concatenated
<1> QED  BY <1>12, <1>14, <1>15 DEF g, Z

\* The picture the workers make is the format's.
LEMMA PictureRead ==
  ASSUME CallOK, GeometryChecked, SameGeometry, Len(Offsets) = StripCount,
         \A s \in 1..Len(Offsets) : StripFits(s)
  PROVE  [p \in 0..(PixelCount - 1) |-> Pixel(SourceOf(p \div Width, p % Width))]
           = Raster!Picture(file, format)
<1>1. /\ Length \in Nat \ {0} /\ RowsPerStrip \in Nat \ {0} /\ Width \in Nat \ {0}
      /\ Samples \in {1, 3} /\ RowBytes = Width * Samples /\ RowBytes \in Nat
  BY GeometryTypes
<1>2. PixelCount = Length * Width /\ PixelCount \in Nat
  BY PixelCountExact
<1> DEFINE g == Raster!Geometry(file)
           total == Length * RowBytes
           Z == RowsPerStrip * RowBytes
           bytes == Places(Offsets, Z, total)
<1>3. Raster!SampleAddresses(g) = bytes
  BY AddressesRead
<1>4. total \in Nat /\ total = PixelCount * Samples
  <2>1. Length * (Width * Samples) = (Length * Width) * Samples /\ total \in Nat
    BY <1>1
  <2> QED  BY <1>1, <1>2, <2>1
<1>5. PICK T : bytes \in Seq(T) /\ Len(bytes) = total
  <2>1. bytes \in Seq({Place(Offsets, Z, x) : x \in 1..total}) /\ Len(bytes) = total
    BY <1>4 DEF Places
  <2> QED  BY <2>1
<1>6. ASSUME NEW p \in 0..(PixelCount - 1)
      PROVE  Raster!Convert(SubSeq(bytes, p * Samples + 1, (p + 1) * Samples), format)
               = Pixel(SourceOf(p \div Width, p % Width))
  <2> DEFINE a == SourceOf(p \div Width, p % Width)
  <2>1. a \in Nat /\ p \in Nat /\ p < PixelCount
    BY <1>2, SourceInStrip
  <2>2. PICK m \in Nat : m = p * Samples /\ m + Samples = (p + 1) * Samples
    BY <1>1, <2>1
  <2>3. m + Samples <= total
    <3>1. (p + 1) * Samples <= PixelCount * Samples
      BY <1>1, <1>2, <2>1, MulMono
    <3> QED  BY <1>4, <2>2, <3>1
  <2>4. SubSeq(bytes, m + 1, m + Samples) = [k \in 1..Samples |-> bytes[m + k]]
    <3> HIDE DEF bytes, total
    <3> QED  BY <1>1, <1>5, <2>3, SubSeqShape
  <2>5. ASSUME NEW k \in 1..Samples PROVE bytes[m + k] = a + (k - 1)
    <3>1. m + k \in 1..total
      BY <1>1, <1>4, <2>3
    <3>2. bytes[m + k] = Place(Offsets, Z, m + k)
      BY <3>1 DEF Places
    <3> DEFINE row == p \div Width
               s == (row \div RowsPerStrip) + 1
               inside == (row % RowsPerStrip) * (Width * Samples)
               column == (p % Width) * Samples
    <3>3. /\ (m + k - 1) \div Z = row \div RowsPerStrip
          /\ (m + k - 1) % Z = inside + column + (k - 1)
      <4>1. Samples \in Nat \ {0}
        BY <1>1
      <4>2. SampleAt(Width, Samples, RowsPerStrip, p, k)
        BY <1>1, <2>1, <4>1, SampleInStrip
      <4>4. /\ ((p * Samples + k - 1) \div Z) = (row \div RowsPerStrip)
            /\ ((p * Samples + k - 1) % Z) = inside + column + (k - 1)
        BY <1>1, <4>2, Zenon DEF SampleAt
      <4> HIDE DEF Z, row, inside, column
      <4> QED  BY <2>2, <4>4
    <3>4. Place(Offsets, Z, m + k) = Offsets[s] + (inside + column + (k - 1))
      BY <3>3 DEF Place
    <3>5. a = Offsets[s] + inside + column
      BY <1>1 DEF SourceOf
    <3>6. Offsets[s] \in Nat
      <4>1. s \in DOMAIN Offsets
        BY <2>1, SourceInStrip
      <4>2. Offsets \in Seq(U32) /\ U32 \subseteq Nat
        BY GeometryTypes, MaxU32Assumption DEF U32
      <4> HIDE DEF s
      <4>3. s \in 1..Len(Offsets)
        BY <4>1, <4>2
      <4> QED  BY <4>2, <4>3, ElementOf
    <3>7. inside \in Nat /\ column \in Nat
      <4>1. p % Width \in Nat /\ row \in Nat
        BY <1>1, <2>1, DivMod
      <4>2. row % RowsPerStrip \in Nat
        <5> HIDE DEF row
        <5> QED  BY <1>1, <4>1, DivMod
      <4> HIDE DEF row
      <4> QED  BY <1>1, <4>1, <4>2
    <3>8. k \in Nat
      BY <1>1
    <3> HIDE DEF inside, column, s, row, a, bytes
    <3>9. PICK o \in Nat, x \in Nat, c \in Nat : o = Offsets[s] /\ x = inside /\ c = column
      BY <3>6, <3>7
    <3>10. o + (x + c + (k - 1)) = o + x + c + (k - 1)
      BY <3>8
    <3> QED  BY <3>2, <3>4, <3>5, <3>9, <3>10
  <2> HIDE DEF a, bytes
  <2>6. SubSeq(bytes, m + 1, m + Samples) = [k \in 1..Samples |-> a + (k - 1)]
    BY <2>4, <2>5
  <2>7. Raster!Convert([k \in 1..Samples |-> a + (k - 1)], format) = Pixel(a)
    BY <2>1, ConvertPixel DEF CallOK, GeometryChecked
  <2> QED  BY <2>2, <2>6, <2>7 DEF a
<1>7. g.width * g.length = PixelCount /\ g.samples = Samples
  BY <1>1, <1>2 DEF SameGeometry
<1>8. Raster!Picture(file, format)
        = [p \in 0..(PixelCount - 1) |->
             Raster!Convert(SubSeq(bytes, p * Samples + 1, (p + 1) * Samples), format)]
  <2> HIDE DEF bytes
  <2> QED  BY <1>3, <1>7 DEF Raster!Picture
<1> HIDE DEF bytes
<1> QED  BY <1>6, <1>8

(***************************************************************************)
(* The refinement: what the call has established of its stream at each     *)
(* point, and that its answer is the abstract decoder's.                    *)
(***************************************************************************)

\* All entries can be read.
EntriesFine(f) == \A k \in DOMAIN f.entries : EntryFine(f, f.entries[k])

\* The entries before the next one have been read.
ReadUpTo(n) ==
  entry = n + 1 /\ Parsed(n) /\ \A k \in 1..n : EntryFine(file, file.entries[k])

\* What CheckFields has established of the stream.
Accepted == HeaderFine(file) /\ EntriesFine(file) /\ TagsFine(file) /\ SameGeometry

\* What the call has established when it reaches each of its parts.
ReadSoFar ==
  /\ pc = "header" => ReadUpTo(0)
  /\ pc = "entries" => HeaderFine(file) /\ \E n \in Nat : ReadUpTo(n)
  /\ pc \in {"layout", "strips", "decode"} => Accepted
  /\ pc = "decode" => Raster!Baseline(file) /\ Raster!Storable(file, format)

\* A step of the abstract decoder, or none.
RasterStep == [Raster!Answer]_(Raster!vars)

\* A refusal of a stream that has no picture to return.
LEMMA RejectRefines ==
  ASSUME answer = "none", Reject, UNCHANGED <<file, format>>,
         ~(Raster!Baseline(file) /\ Raster!Storable(file, format))
  PROVE  RasterStep /\ ReadSoFar'
<1>1. answer' = "rejected" /\ pc' = "done"
  BY DEF Reject
<1> QED  BY <1>1 DEF RasterStep, Raster!Answer, ReadSoFar

\* A step that answers nothing changes nothing outside.
LEMMA StutterRefines ==
  ASSUME answer # "decoded", UNCHANGED <<file, format, answer>>
  PROVE  RasterStep
  BY DEF RasterStep, Raster!vars

\* Nothing has been answered while the call runs.
LEMMA NotAnswered ==
  ASSUME IInv, pc # "done"
  PROVE  CallOK /\ answer = "none"
  BY DEF IInv, Progress, CallOK

\* At the start nothing has been read and nothing answered.
LEMMA InitRefines ==
  ASSUME Init PROVE Raster!Init /\ ReadSoFar
<1>1. Raster!Init
  BY DEF Init, Raster!Init
<1>2. Parsed(0)
  <2>1. \A tag : NoneOf(file, 0, tag)
    BY DEF NoneOf
  <2> QED  BY <2>1 DEF Init, Parsed, ScalarRead, ArrayRead
<1>3. ReadUpTo(0)
  BY <1>2 DEF Init, ReadUpTo
<1> QED  BY <1>1, <1>3 DEF Init, ReadSoFar

\* A stream with a bad header is no baseline image.
LEMMA CheckHeaderRefines ==
  ASSUME IInv, ReadSoFar, CheckHeader
  PROVE  RasterStep /\ ReadSoFar'
<1>1. /\ pc = "header" /\ UNCHANGED <<file, format>> /\ CallOK /\ answer = "none"
      /\ ReadUpTo(0)
  BY NotAnswered DEF CheckHeader, args, ReadSoFar
<1>2. CASE ~HeaderFine(file) /\ Reject
  <2>1. ~Raster!Baseline(file)
    BY <1>2, BaselineParts
  <2> QED  BY <1>1, <1>2, <2>1, RejectRefines
<1>3. CASE /\ HeaderFine(file) /\ pc' = "entries"
           /\ UNCHANGED <<entry, scalars, arrays, strip, answer>>
  <2>1. RasterStep
    BY <1>1, <1>3, StutterRefines
  <2>2. ReadUpTo(0)'
    BY <1>1, <1>3 DEF ReadUpTo, Parsed
  <2> QED  BY <1>1, <1>3, <2>1, <2>2 DEF ReadSoFar
<1> QED  BY <1>2, <1>3 DEF CheckHeader, HeaderFine

\* Neither is one with an entry that cannot be read.
LEMMA ReadEntryRefines ==
  ASSUME IInv, ReadSoFar, ReadEntry
  PROVE  RasterStep /\ ReadSoFar'
<1>1. /\ pc = "entries" /\ UNCHANGED <<file, format>> /\ CallOK /\ answer = "none"
      /\ entry <= Len(file.entries) /\ HeaderFine(file)
  BY NotAnswered DEF ReadEntry, args, ReadSoFar
<1>2. PICK n \in Nat : ReadUpTo(n)
  BY <1>1 DEF ReadSoFar
<1>3. CASE ~Reject
  <2>1. /\ pc' = "entries" /\ answer' = answer /\ entry' = n + 2
        /\ Parsed(n + 1)'
        /\ \A k \in 1..(n + 1) : EntryFine(file, file.entries[k])
    BY <1>1, <1>2, <1>3, ParsedNext DEF ReadUpTo
  <2>2. ReadUpTo(n + 1)'
    <3>1. entry' = (n + 1) + 1
      BY <2>1
    <3> QED  BY <1>1, <2>1, <3>1 DEF ReadUpTo
  <2>3. RasterStep
    BY <1>1, <2>1, StutterRefines
  <2>4. n + 1 \in Nat
    OBVIOUS
  <2> QED  BY <1>1, <2>1, <2>2, <2>3, <2>4 DEF ReadSoFar
<1>4. CASE Reject
  <2>1. PICK e : e = file.entries[entry]
    OBVIOUS
  <2>2. pc' = "done"
    BY <1>4 DEF Reject
  <2>3. \/ e.tag \in ScalarTags /\ ~(Readable(e) /\ Len(e.vals) = 1)
        \/ e.tag \in ArrayTags /\ ~Readable(e)
    BY <1>1, <2>1, <2>2 DEF ReadEntry
  <2>4. ~EntryFine(file, e)
    BY <2>3 DEF EntryFine, Readable
  <2>5. entry \in DOMAIN file.entries
    <3>1. file.entries \in Seq(Entries)
      BY <1>1, FilesAssumption DEF CallOK, TiffFiles
    <3>2. entry \in 1..Len(file.entries)
      BY <1>1, <3>1 DEF CallOK
    <3> QED  BY <3>1, <3>2
  <2>6. ~Raster!Baseline(file)
    BY <2>1, <2>4, <2>5, BaselineParts
  <2> QED  BY <1>1, <1>4, <2>6, RejectRefines
<1> QED  BY <1>3, <1>4

\* The directory has been read: what the tags say is what the format says.
LEMMA CheckFieldsRefines ==
  ASSUME IInv, ReadSoFar, CheckFields
  PROVE  RasterStep /\ ReadSoFar'
<1>1. /\ pc = "entries" /\ UNCHANGED <<file, format>> /\ CallOK /\ answer = "none"
      /\ entry = Len(file.entries) + 1 /\ HeaderFine(file)
  BY NotAnswered DEF CheckFields, args, ReadSoFar
<1>2. PICK n \in Nat : ReadUpTo(n)
  BY <1>1 DEF ReadSoFar
<1>3. /\ n = Len(file.entries) /\ DOMAIN file.entries = 1..n
  <2>1. file.entries \in Seq(Entries)
    BY <1>1, FilesAssumption DEF CallOK, TiffFiles
  <2>2. Len(file.entries) \in Nat /\ DOMAIN file.entries = 1..Len(file.entries)
    BY <2>1
  <2> QED  BY <1>1, <1>2, <2>2 DEF ReadUpTo
<1>4. Parsed(Len(file.entries)) /\ EntriesFine(file)
  BY <1>2, <1>3 DEF ReadUpTo, EntriesFine
<1>5. Supported <=> TagsFine(file) /\ Offsets # <<>>
  BY <1>1, <1>4, SupportedTags
<1> DEFINE g == Raster!Geometry(file)
<1>6. /\ g.width = Width /\ g.length = Length /\ g.samples = Samples
      /\ g.rows = Completed["RowsPerStrip"] /\ g.offsets = Offsets /\ g.counts = Counts
  BY <1>1, <1>4, GeometryRead
<1>7. CASE ~Supported /\ Reject
  <2>1. ASSUME TagsFine(file), Offsets = <<>> PROVE ~StripsFine(file)
    <3>1. /\ g.length > 0 /\ g.length \in Nat
      <4>1. Length \in U32
        BY <1>1 DEF CallOK, Length, ScalarTags
      <4> QED  BY <1>6, <2>1, <4>1, MaxU32Assumption DEF TagsFine, U32
    <3>2. 0 \in 0..(g.length - 1)
      BY <3>1
    <3>3. DOMAIN g.offsets = {}
      BY <1>6, <2>1
    <3> HIDE DEF g
    <3>4. UNION {Raster!Rows(g, s) : s \in DOMAIN g.offsets} = {}
      BY <3>3
    <3> QED  BY <3>2, <3>4 DEF StripsFine, g
  <2>2. ~Raster!Baseline(file)
    BY <1>5, <1>7, <2>1, BaselineParts
  <2> QED  BY <1>1, <1>7, <2>2, RejectRefines
<1>8. CASE /\ Supported /\ scalars' = Completed /\ pc' = "layout"
           /\ UNCHANGED <<entry, arrays, strip, answer>>
  <2>1. RasterStep
    BY <1>1, <1>8, StutterRefines
  <2>2. scalars \in [ScalarTags -> U32]
    BY <1>1 DEF CallOK
  <2>3. /\ Width' = Width /\ Length' = Length /\ Samples' = Samples
        /\ Offsets' = Offsets /\ Counts' = Counts
        /\ RowsPerStrip' = Completed["RowsPerStrip"]
    BY <1>8, <2>2 DEF Width, Length, Samples, Offsets, Counts, RowsPerStrip,
                      Completed, ScalarTags
  <2>4. SameGeometry'
    BY <1>1, <1>6, <2>3 DEF SameGeometry
  <2>5. Accepted'
    BY <1>1, <1>4, <1>5, <1>8, <2>4 DEF Accepted
  <2> QED  BY <1>8, <2>1, <2>5 DEF ReadSoFar
<1> QED  BY <1>7, <1>8 DEF CheckFields

\* Once the tags are accepted, what is left of the format's definition is the
\* strip table.
LEMMA StripsDecide ==
  ASSUME IInv, ReadSoFar, pc \in {"layout", "strips"}
  PROVE  /\ CallOK /\ GeometryChecked /\ Accepted /\ answer = "none"
         /\ Raster!Baseline(file) <=>
              Len(Offsets) = StripCount /\ \A s \in 1..Len(Offsets) : StripFits(s)
<1>1. CallOK /\ GeometryChecked /\ Accepted /\ answer = "none"
  BY NotAnswered DEF IInv, Progress, ReadSoFar
<1>2. StripsFine(file) <=>
        Len(Offsets) = StripCount /\ \A s \in 1..Len(Offsets) : StripFits(s)
  BY <1>1, StripsRead DEF Accepted
<1> QED  BY <1>1, <1>2, BaselineParts DEF Accepted, EntriesFine

\* What has been accepted stays so.
LEMMA AcceptedKept ==
  ASSUME Accepted, UNCHANGED <<file, scalars, arrays>>
  PROVE  Accepted'
  BY DEF Accepted, SameGeometry, Width, Length, Samples, RowsPerStrip, Offsets, Counts

\* Too few or too many strips do not partition the rows.
LEMMA CheckStripCountRefines ==
  ASSUME IInv, ReadSoFar, CheckStripCount
  PROVE  RasterStep /\ ReadSoFar'
<1>1. pc = "layout" /\ UNCHANGED <<file, format>>
  BY DEF CheckStripCount, args
<1>2. /\ Accepted /\ answer = "none"
      /\ Raster!Baseline(file) => Len(Offsets) = StripCount
  BY <1>1, StripsDecide
<1>3. CASE Len(Offsets) # StripCount /\ Reject
  BY <1>1, <1>2, <1>3, RejectRefines
<1>4. CASE pc' = "strips" /\ UNCHANGED <<entry, scalars, arrays, strip, answer>>
  BY <1>1, <1>2, <1>4, StutterRefines, AcceptedKept DEF ReadSoFar
<1> QED  BY <1>3, <1>4 DEF CheckStripCount

\* A strip that does not fit is not there.
LEMMA CheckStripRefines ==
  ASSUME IInv, ReadSoFar, CheckStrip
  PROVE  RasterStep /\ ReadSoFar'
<1>1. pc = "strips" /\ UNCHANGED <<file, format>> /\ strip <= Len(Offsets)
  BY DEF CheckStrip, args
<1>2. /\ CallOK /\ GeometryChecked /\ Accepted /\ answer = "none"
      /\ Raster!Baseline(file) => \A s \in 1..Len(Offsets) : StripFits(s)
  BY <1>1, StripsDecide
<1>3. strip \in 1..Len(Offsets)
  <2>1. Offsets \in Seq(U32)
    BY <1>2, GeometryTypes
  <2> QED  BY <1>1, <1>2, <2>1 DEF CallOK
<1>4. CASE ~StripFits(strip) /\ Reject
  BY <1>1, <1>2, <1>3, <1>4, RejectRefines
<1>5. CASE UNCHANGED <<pc, entry, scalars, arrays, answer>>
  BY <1>1, <1>2, <1>5, StutterRefines, AcceptedKept DEF ReadSoFar
<1> QED  BY <1>4, <1>5 DEF CheckStrip

\* When all strips fit the stream is a baseline image.
LEMMA AllocateRefines ==
  ASSUME IInv, ReadSoFar, Allocate
  PROVE  RasterStep /\ ReadSoFar'
<1>1. pc = "strips" /\ UNCHANGED <<file, format>> /\ strip = Len(Offsets) + 1
  BY DEF Allocate, args
<1>2. /\ CallOK /\ GeometryChecked /\ Accepted /\ answer = "none"
      /\ Raster!Baseline(file) <=>
           Len(Offsets) = StripCount /\ \A s \in 1..Len(Offsets) : StripFits(s)
  BY <1>1, StripsDecide
<1>3. Raster!Baseline(file)
  <2>1. PICK n \in Nat : n = Len(Offsets) /\ strip = n + 1 /\ strip - 1 = n
    <3>1. Len(Offsets) \in Nat
      BY <1>2, GeometryTypes
    <3> QED  BY <1>1, <3>1
  <2>2. Len(Offsets) = StripCount /\ \A s \in 1..(strip - 1) : StripFits(s)
    BY <1>1 DEF IInv, Progress
  <2> QED  BY <1>2, <2>1, <2>2
<1>4. Allocatable <=> Raster!Storable(file, format)
  BY <1>2, StorableRead DEF Accepted
<1>5. CASE ~Allocatable /\ Reject
  BY <1>1, <1>2, <1>4, <1>5, RejectRefines
<1>6. CASE /\ Allocatable /\ pc' = "decode"
           /\ UNCHANGED <<entry, scalars, arrays, strip, answer>>
  BY <1>1, <1>2, <1>3, <1>4, <1>6, StutterRefines, AcceptedKept DEF ReadSoFar
<1>7. CASE /\ Allocatable /\ pc' = "done" /\ answer' = "thrown"
  <2>1. Raster!Answer
    BY <1>1, <1>2, <1>3, <1>4, <1>7 DEF Raster!Answer
  <2> QED  BY <1>7, <2>1 DEF RasterStep, ReadSoFar
<1> QED  BY <1>5, <1>6, <1>7 DEF Allocate

\* A worker's step is not seen from outside.
LEMMA WorkRefines ==
  ASSUME IInv, ReadSoFar, NEW w \in Workers, Work(w)
  PROVE  RasterStep /\ ReadSoFar'
<1>1. pc = "decode" /\ UNCHANGED <<file, format, pc, scalars, arrays, answer>>
  BY DEF Work, Claim, BeginSegment, WritePixel, args, parsed
<1>2. answer = "none"
  BY <1>1, NotAnswered
<1> QED  BY <1>1, <1>2, StutterRefines, AcceptedKept DEF ReadSoFar

\* The picture that is returned is the one the format defines.
LEMMA ReturnRefines ==
  ASSUME IInv, ReadSoFar, Return
  PROVE  RasterStep /\ ReadSoFar'
<1>1. /\ pc = "decode" /\ UNCHANGED <<file, format, out>> /\ todo = PixelCount
      /\ \A w \in Workers : job[w].i = job[w].end
      /\ pc' = "done" /\ answer' = "decoded"
  BY DEF Return, args
<1>2. answer = "none" /\ Converting
  BY <1>1, NotAnswered DEF Converting
<1>3. /\ CallOK /\ GeometryChecked /\ Len(Offsets) = StripCount
      /\ \A s \in 1..Len(Offsets) : StripFits(s)
      /\ PixelCount \in Nat
  BY <1>2, ConversionFacts
<1>4. Accepted /\ Raster!Baseline(file) /\ Raster!Storable(file, format)
  BY <1>1 DEF ReadSoFar
<1>5. out = [p \in 0..(PixelCount - 1) |-> Pixel(SourceOf(p \div Width, p % Width))]
  <2>1. ASSUME NEW p \in 0..(PixelCount - 1) PROVE ~Pending(p)
    <3>1. p \in Nat /\ ~(p >= todo)
      BY <1>1, <1>3
    <3>2. ASSUME NEW w \in Workers PROVE ~(job[w].i <= p /\ p < job[w].end)
      <4>1. job[w].i = job[w].end /\ job[w].end \in Nat
        BY <1>1, <1>3, JobTypes
      <4> QED  BY <3>1, <4>1
    <3> QED  BY <3>1, <3>2 DEF Pending
  <2>2. out = [p \in 0..(PixelCount - 1) |-> Expected(p)]
    BY <1>2 DEF IInv, OutputSoFar
  <2> QED  BY <2>1, <2>2 DEF Expected
<1>6. out = Raster!Picture(file, format)
  BY <1>3, <1>4, <1>5, PictureRead DEF Accepted
<1>7. Raster!Answer
  BY <1>1, <1>2, <1>4, <1>6 DEF Raster!Answer
<1> QED  BY <1>1, <1>7 DEF RasterStep, ReadSoFar

\* A step that changes nothing.
LEMMA StutterKept ==
  ASSUME ReadSoFar, UNCHANGED vars
  PROVE  RasterStep /\ ReadSoFar'
<1>1. UNCHANGED <<file, format, pc, entry, scalars, arrays, out, answer>>
  BY DEF vars
<1>2. RasterStep
  BY <1>1 DEF RasterStep, Raster!vars
<1>3. \A n : ReadUpTo(n)' <=> ReadUpTo(n)
  BY <1>1 DEF ReadUpTo, Parsed
<1>4. ReadSoFar'
  BY <1>1, <1>3, AcceptedKept DEF ReadSoFar
<1> QED  BY <1>2, <1>4

\* The decoder implements the abstract one, for any streams and any workers: it
\* answers once, and the answer is the picture the format defines or a refusal of
\* a stream that has none (TryDecodeTiff).
THEOREM DecoderRefinesRaster == Spec => RefinesRaster
<1>1. Init => Raster!Init /\ ReadSoFar
  BY InitRefines
<1>2. IInv /\ ReadSoFar /\ [Next]_vars => RasterStep /\ ReadSoFar'
  <2> SUFFICES ASSUME IInv, ReadSoFar, [Next]_vars PROVE RasterStep /\ ReadSoFar'
    OBVIOUS
  <2>1. CASE Main
    BY <2>1, CheckHeaderRefines, ReadEntryRefines, CheckFieldsRefines,
       CheckStripCountRefines, CheckStripRefines, AllocateRefines, ReturnRefines DEF Main
  <2>2. ASSUME NEW w \in Workers, Work(w) PROVE RasterStep /\ ReadSoFar'
    BY <2>2, WorkRefines
  <2>3. CASE UNCHANGED vars
    BY <2>3, StutterKept
  <2> QED  BY <2>1, <2>2, <2>3 DEF Next
<1> QED  BY <1>1, <1>2, DecoderInvariant, PTL
         DEF Spec, RefinesRaster, Raster!Spec, RasterStep
=============================================================================
