----------------------------- MODULE TiffDecode -----------------------------
(***************************************************************************)
(* TryDecodeTiff of legacy_image_codecs.cc: the decoder of uncompressed    *)
(* chunky 8-bit TIFF images.  One call reads the directory entry by entry, *)
(* checks every strip, then fills the output with ParallelFor, whose       *)
(* workers each convert ranges of pixels row segment by row segment.       *)
(*                                                                         *)
(* The bytes themselves are abstracted to where they come from: a channel  *)
(* of an output pixel is the tuple of stream addresses it is computed from *)
(* (three for the luma of an RGB pixel).                                   *)
(***************************************************************************)
EXTENDS TiffFile

CONSTANTS
  Files,      \* the streams a caller may pass
  Workers     \* the threads ParallelFor may run the body on

ASSUME FilesAssumption == Files \subseteq TiffFiles

Formats == {"RGB", "BGR", "Grayscale"}

\* ImageDecoder::ChannelCount
Channels(format) == IF format = "Grayscale" THEN 1 ELSE 3

VARIABLES
  file, format,      \* the arguments of the call
  pc,                \* the part of the function that runs
  entry,             \* next directory entry to read
  scalars, arrays,   \* the values read so far, by tag
  strip,             \* next strip to check
  out,               \* the output pixels
  todo,              \* first pixel no worker has been given
  job,               \* job[w]: the range [i, end) left to worker w, the end of
                     \* its row segment and its source pointer
  answer             \* what the call returned, "none" while it runs

args == <<file, format>>
parsed == <<entry, scalars, arrays>>
vars == <<file, format, pc, entry, scalars, arrays, strip, out, todo, job, answer>>

Idle == [i |-> 0, end |-> 0, rowEnd |-> 0, src |-> 0]

\* Values of the tags a stream does not have; MaxU32 stands for "not given".
DefaultsTooWide ==     \* mutant: a sentinel that does not fit in 32 bits
  [t \in ScalarTags |->
     CASE t \in {"ImageWidth", "ImageLength"} -> 0
       [] t \in {"Photometric", "RowsPerStrip"} -> MaxU32 + 1
       [] OTHER -> 1]

Defaults ==
  [t \in ScalarTags |->
     CASE t \in {"ImageWidth", "ImageLength"} -> 0
       [] t \in {"Photometric", "RowsPerStrip"} -> MaxU32
       [] OTHER -> 1]

Init ==
  /\ file \in Files /\ format \in Formats
  /\ pc = "header"
  /\ entry = 1
  /\ scalars = Defaults
  /\ arrays = [t \in ArrayTags |-> <<>>]
  /\ strip = 1
  /\ out = <<>>
  /\ todo = 0
  /\ job = [w \in Workers |-> Idle]
  /\ answer = "none"

-----------------------------------------------------------------------------
(* Names of the values read.                                               *)

Width == scalars["ImageWidth"]
Length == scalars["ImageLength"]
Samples == scalars["SamplesPerPixel"]
RowsPerStrip == scalars["RowsPerStrip"]
Offsets == arrays["StripOffsets"]
Counts == arrays["StripByteCounts"]

IsRgb == scalars["Photometric"] = 2 /\ Samples = 3
IsGray == scalars["Photometric"] = 1 /\ Samples = 1
RowBytes == Width * Samples
PixelCount == Mul64(Length, Width)
StripCount == (Length + RowsPerStrip - 1) \div RowsPerStrip

\* Rows of strip s (counted from 1): the last strip may be shorter.
RowsIn(s) ==
  LET left == Length - (s - 1) * RowsPerStrip
  IN  IF RowsPerStrip <= left THEN RowsPerStrip ELSE left

-----------------------------------------------------------------------------
(* Reading and checking the stream, one thread.                            *)

Reject ==
  /\ pc' = "done"
  /\ answer' = "rejected"
  /\ UNCHANGED <<entry, scalars, arrays, strip>>

CheckHeader ==
  /\ pc = "header"
  /\ \/ /\ file.size >= 8 /\ file.magic /\ DirectoryInside(file)
        /\ pc' = "entries"
        /\ UNCHANGED <<entry, scalars, arrays, strip, answer>>
     \/ /\ ~(file.size >= 8 /\ file.magic /\ DirectoryInside(file))
        /\ Reject
  /\ UNCHANGED <<args, out, todo, job>>

\* read_uint_array succeeds
Readable(e) == e.type \in {"BYTE", "SHORT", "LONG"} /\ ValuesInside(file, e)

\* Later entries replace earlier ones of the same tag; other tags are skipped.
\* One entry whose values cannot be read fails the call.
ReadEntry ==
  /\ pc = "entries" /\ entry <= Len(file.entries)
  /\ LET e == file.entries[entry] IN
     \/ /\ e.tag \in ScalarTags /\ Readable(e) /\ Len(e.vals) = 1
        /\ scalars' = [scalars EXCEPT ![e.tag] = e.vals[1]]
        /\ entry' = entry + 1
        /\ UNCHANGED <<pc, arrays, strip, answer>>
     \/ /\ e.tag \in ArrayTags /\ Readable(e)
        /\ arrays' = [arrays EXCEPT ![e.tag] = e.vals]
        /\ entry' = entry + 1
        /\ UNCHANGED <<pc, scalars, strip, answer>>
     \/ /\ e.tag \notin ScalarTags \cup ArrayTags
        /\ entry' = entry + 1
        /\ UNCHANGED <<pc, scalars, arrays, strip, answer>>
     \/ /\ \/ e.tag \in ScalarTags /\ ~(Readable(e) /\ Len(e.vals) = 1)
           \/ e.tag \in ArrayTags /\ ~Readable(e)
        /\ Reject
  /\ UNCHANGED <<args, out, todo, job>>

\* rows_per_strip and photometric when the stream does not give them
Completed ==
  [scalars EXCEPT
     !["RowsPerStrip"] = IF @ = MaxU32 THEN Length ELSE @,
     !["Photometric"] = IF @ # MaxU32 THEN @ ELSE IF Samples = 1 THEN 1 ELSE 2]

Supported ==
  /\ scalars["Compression"] = 1 /\ scalars["PlanarConfig"] = 1
  /\ Width # 0 /\ Length # 0 /\ Samples # 0
  /\ Len(arrays["BitsPerSample"]) = Samples
  /\ Offsets # <<>> /\ Len(Offsets) = Len(Counts)
  /\ \A k \in DOMAIN arrays["BitsPerSample"] : arrays["BitsPerSample"][k] = 8
  /\ Completed["RowsPerStrip"] # 0
  /\ \/ Completed["Photometric"] = 2 /\ Samples = 3
     \/ Completed["Photometric"] = 1 /\ Samples = 1

CheckFields ==
  /\ pc = "entries" /\ entry = Len(file.entries) + 1
  /\ \/ /\ Supported
        /\ scalars' = Completed
        /\ pc' = "layout"
        /\ UNCHANGED <<entry, arrays, strip, answer>>
     \/ ~Supported /\ Reject
  /\ UNCHANGED <<args, out, todo, job>>

CheckStripCount ==
  /\ pc = "layout"
  /\ \/ /\ Len(Offsets) = StripCount
        /\ pc' = "strips"
        /\ UNCHANGED <<entry, scalars, arrays, strip, answer>>
     \/ Len(Offsets) # StripCount /\ Reject
  /\ UNCHANGED <<args, out, todo, job>>

StripFitsOffByOne(s) ==    \* mutant: one byte too short is let through
  /\ Offsets[s] + Counts[s] <= file.size
  /\ RowBytes <= MaxU64 \div RowsIn(s)
  /\ Mul64(RowsIn(s), RowBytes) <= Counts[s] + 1

\* Strip s is inside the stream and holds all its rows.
StripFits(s) ==
  /\ Offsets[s] + Counts[s] <= file.size
  /\ RowBytes <= MaxU64 \div RowsIn(s)
  /\ Mul64(RowsIn(s), RowBytes) <= Counts[s]

CheckStrip ==
  /\ pc = "strips" /\ strip <= Len(Offsets)
  /\ \/ /\ StripFits(strip)
        /\ strip' = strip + 1
        /\ UNCHANGED <<pc, entry, scalars, arrays, answer>>
     \/ ~StripFits(strip) /\ Reject
  /\ UNCHANGED <<args, out, todo, job>>

\* The size checks before the allocation: size_t has 64 bits and a vector
\* holds at most half its range.
Allocatable ==
  /\ PixelCount <= MaxU64 \div Channels(format)
  /\ PixelCount * Channels(format) <= MaxU64 \div 2

Blank == <<>>

\* out_pixels.assign(...), which throws when there is no memory for it.
Allocate ==
  /\ pc = "strips" /\ strip = Len(Offsets) + 1
  /\ \/ /\ Allocatable
        /\ out' = [p \in 0..(PixelCount - 1) |-> Blank]
        /\ pc' = "decode"
        /\ UNCHANGED <<entry, scalars, arrays, strip, answer>>
     \/ /\ Allocatable
        /\ pc' = "done"
        /\ answer' = "thrown"
        /\ UNCHANGED <<entry, scalars, arrays, strip, out>>
     \/ ~Allocatable /\ Reject /\ UNCHANGED out
  /\ UNCHANGED <<args, todo, job>>

-----------------------------------------------------------------------------
(* The conversion, by the workers of ParallelFor.                          *)

\* ParallelFor gives an idle worker the next pixels, any number of them.
Claim(w) ==
  /\ pc = "decode"
  /\ job[w].i = job[w].end /\ todo < PixelCount
  /\ \E end \in (todo + 1)..PixelCount :
       /\ job' = [job EXCEPT ![w] = [i |-> todo, end |-> end,
                                     rowEnd |-> todo, src |-> 0]]
       /\ todo' = end
  /\ UNCHANGED <<args, pc, parsed, strip, out, answer>>

SourceOfUnscaled(row, column) ==     \* mutant: the column is not in samples
  Offsets[(row \div RowsPerStrip) + 1] + (row % RowsPerStrip) * RowBytes + column

\* Address of the first sample of the pixel in this row and column.
SourceOf(row, column) ==
  Offsets[(row \div RowsPerStrip) + 1] + (row % RowsPerStrip) * RowBytes
    + column * Samples

SegmentLengthUnclipped(left, column) ==  \* mutant: always to the end of the row
  Width - column

SegmentLengthShort(left, column) ==      \* mutant: leaves the row's last pixel
  IF left <= Width - column - 1 THEN left ELSE Width - column - 1

\* Pixels from this column to the end of the row, or of the worker's range.
SegmentLength(left, column) ==
  IF left <= Width - column THEN left ELSE Width - column

\* One turn of the outer loop: the row segment that starts at pixel i.
BeginSegment(w) ==
  /\ pc = "decode"
  /\ job[w].i = job[w].rowEnd /\ job[w].i < job[w].end
  /\ LET i == job[w].i
         row == i \div Width
         column == i % Width
     IN  job' = [job EXCEPT
           ![w].rowEnd = i + SegmentLength(job[w].end - i, column),
           ![w].src = SourceOf(row, column)]
  /\ UNCHANGED <<args, pc, parsed, strip, out, todo, answer>>

\* The channels of one output pixel whose samples start at address a.
Pixel(a) ==
  IF IsRgb
  THEN CASE format = "RGB" -> << <<a>>, <<a + 1>>, <<a + 2>> >>
         [] format = "BGR" -> << <<a + 2>>, <<a + 1>>, <<a>> >>
         [] OTHER -> << <<a, a + 1, a + 2>> >>
  ELSE IF format = "Grayscale" THEN << <<a>> >> ELSE << <<a>>, <<a>>, <<a>> >>

\* One turn of the inner loop.
WritePixel(w) ==
  /\ pc = "decode"
  /\ job[w].i < job[w].rowEnd
  /\ out' = [out EXCEPT ![job[w].i] = Pixel(job[w].src)]
  /\ job' = [job EXCEPT ![w].i = @ + 1, ![w].src = @ + Samples]
  /\ UNCHANGED <<args, pc, parsed, strip, todo, answer>>

ReturnEarly ==        \* mutant: does not wait for the workers
  /\ pc = "decode" /\ todo = PixelCount
  /\ pc' = "done"
  /\ answer' = "decoded"
  /\ UNCHANGED <<args, parsed, strip, out, todo, job>>

\* ParallelFor returns when every range is done.
Return ==
  /\ pc = "decode" /\ todo = PixelCount
  /\ \A w \in Workers : job[w].i = job[w].end
  /\ pc' = "done"
  /\ answer' = "decoded"
  /\ UNCHANGED <<args, parsed, strip, out, todo, job>>

Work(w) == Claim(w) \/ BeginSegment(w) \/ WritePixel(w)

Main == CheckHeader \/ ReadEntry \/ CheckFields \/ CheckStripCount
          \/ CheckStrip \/ Allocate \/ Return

Next == Main \/ \E w \in Workers : Work(w)

Spec == Init /\ [][Next]_vars

\* The calling thread runs, and ParallelFor's workers finish what they hold.
FairSpec == Spec /\ WF_vars(Main) /\ \A w \in Workers : WF_vars(Work(w))

-----------------------------------------------------------------------------

Jobs == [i : Nat, end : Nat, rowEnd : Nat, src : Nat]

CallOK ==
  /\ file \in Files /\ format \in Formats
  /\ pc \in {"header", "entries", "layout", "strips", "decode", "done"}
  /\ entry \in 1..(Len(file.entries) + 1)
  /\ scalars \in [ScalarTags -> U32]
  /\ arrays \in [ArrayTags -> Seq(U32)]
  /\ strip \in 1..(Len(Offsets) + 1)
  /\ todo \in Nat
  /\ job \in [Workers -> Jobs]
  /\ answer \in {"none", "rejected", "thrown", "decoded"}

\* There are pixels from the allocation on; each is blank or has its channels.
PixelsOK ==
  out \in IF pc = "decode" \/ answer = "decoded"
          THEN [0..(PixelCount - 1) -> Seq(Seq(Nat))] ELSE {<<>>}

TypeOK == CallOK /\ PixelsOK

\* A worker that converts a pixel reads bytes of the strip that holds the
\* pixel's row, and of the stream, only: no pointer of the conversion loop
\* leaves the data the strip table was checked against (lines 263-276, 297-304).
ReadsStayInStrip ==
  \A w \in Workers : job[w].i < job[w].rowEnd =>
    LET s == (job[w].i \div Width) \div RowsPerStrip + 1
    IN  /\ s \in DOMAIN Offsets
        /\ Offsets[s] <= job[w].src
        /\ job[w].src + Samples <= Offsets[s] + Counts[s]
        /\ job[w].src + Samples <= file.size

\* The pixels worker w has still to write.
Ahead(w) == {p \in 0..(PixelCount - 1) :
               job[w].i <= p /\ (p < job[w].end \/ p < job[w].rowEnd)}

\* No two workers ever write the same pixel, and none writes a pixel that has
\* not been given to it: the conversion has no data race on the output.
NoWriteRace ==
  pc = "decode" =>
    \A w \in Workers :
      /\ \A p \in Ahead(w) : p < todo /\ out[p] = Blank
      /\ \A v \in Workers \ {w} : Ahead(v) \cap Ahead(w) = {}

\* A decoded picture is whole: every pixel has been written, from its own place
\* in its strip, by whichever worker had it (no range lost, no late writer).
PictureComplete ==
  answer = "decoded" =>
    out = [p \in 0..(PixelCount - 1) |-> Pixel(SourceOf(p \div Width, p % Width))]

\* The call returns, whatever the stream.
Answered == <>(pc = "done")

\* The call implements the abstract decoder: its picture appears with its answer.
Raster == INSTANCE RasterDecode WITH
  picture <- IF answer = "decoded" THEN out ELSE <<>>
RefinesRaster == Raster!Spec
=============================================================================
