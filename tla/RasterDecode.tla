---------------------------- MODULE RasterDecode ----------------------------
(***************************************************************************)
(* What TryDecodeTiff promises its caller: one answer, either the whole    *)
(* picture of a baseline TIFF stream or a refusal that leaves no picture.  *)
(*                                                                         *)
(* The picture is defined from the format, not from the decoder: the bytes *)
(* of the strips follow each other in the order of the strip table, and    *)
(* pixel p is the p-th group of samples of them.                           *)
(***************************************************************************)
EXTENDS TiffFile, SequencesExt, FiniteSetsExt

CONSTANTS Files, Formats

VARIABLES file, format, answer, picture

vars == <<file, format, answer, picture>>

\* The values of a tag: those of its last entry, or the default.
Values(f, tag, default) ==
  LET found == {k \in DOMAIN f.entries : f.entries[k].tag = tag}
  IN  IF found = {} THEN default ELSE f.entries[Max(found)].vals

Scalar(f, tag, default) == Head(Values(f, tag, <<default>>))

WellFormed(f) ==
  /\ f.size >= 8 /\ f.magic /\ DirectoryInside(f)
  /\ \A k \in DOMAIN f.entries :
       LET e == f.entries[k] IN
       e.tag \in ScalarTags \cup ArrayTags =>
         /\ e.type \in {"BYTE", "SHORT", "LONG"}
         /\ ValuesInside(f, e)
         /\ e.tag \in ScalarTags => Len(e.vals) = 1

\* The picture's geometry.  A picture without RowsPerStrip has one strip.
Geometry(f) ==
  LET length == Scalar(f, "ImageLength", 0)
      samples == Scalar(f, "SamplesPerPixel", 1)
      rps == Scalar(f, "RowsPerStrip", MaxU32)
  IN  [width |-> Scalar(f, "ImageWidth", 0), length |-> length, samples |-> samples,
       rows |-> IF rps = MaxU32 THEN length ELSE rps,
       photometric |-> Scalar(f, "Photometric", MaxU32),
       bits |-> Values(f, "BitsPerSample", <<>>),
       offsets |-> Values(f, "StripOffsets", <<>>),
       counts |-> Values(f, "StripByteCounts", <<>>)]

\* The rows of strip s, as a set.
Rows(g, s) == {r \in 0..(g.length - 1) : r >= (s - 1) * g.rows /\ r < s * g.rows}

StripBytes(g, s) == Cardinality(Rows(g, s)) * g.width * g.samples

\* A baseline image, compressed or not: gray or RGB, chunky, 8 bits a sample,
\* whose strips partition its rows and hold at least these many bytes each.
BaselineImage(f, bytes) ==
  LET g == Geometry(f) IN
  /\ Scalar(f, "PlanarConfig", 1) = 1
  /\ g.width > 0 /\ g.length > 0 /\ g.rows > 0
  /\ \/ g.samples = 1 /\ g.photometric \in {1, MaxU32} /\ g.bits = <<8>>
     \/ g.samples = 3 /\ g.photometric \in {2, MaxU32} /\ g.bits = <<8, 8, 8>>
  /\ Len(g.offsets) = Len(g.counts)
  /\ \A s \in DOMAIN g.offsets : Rows(g, s) # {} /\ StripBytes(g, s) <= bytes[s]
  /\ UNION {Rows(g, s) : s \in DOMAIN g.offsets} = 0..(g.length - 1)

\* An uncompressed one whose strips are all there.
Baseline(f) ==
  LET g == Geometry(f) IN
  /\ WellFormed(f) /\ Scalar(f, "Compression", 1) = 1
  /\ BaselineImage(f, g.counts)
  /\ \A s \in DOMAIN g.offsets : g.offsets[s] + g.counts[s] <= f.size

\* The addresses of the picture's samples, strip after strip.
SampleAddresses(g) ==
  FlattenSeq([s \in DOMAIN g.offsets |->
                [k \in 1..StripBytes(g, s) |-> g.offsets[s] + k - 1]])

\* The channels of a pixel in the wanted format, each with what it is made of.
Convert(samples, fmt) ==
  CASE Len(samples) = 3 /\ fmt = "RGB" -> [k \in 1..3 |-> <<samples[k]>>]
    [] Len(samples) = 3 /\ fmt = "BGR" -> [k \in 1..3 |-> <<samples[4 - k]>>]
    [] Len(samples) = 3 /\ fmt = "Grayscale" -> <<samples>>
    [] fmt = "Grayscale" -> <<samples>>
    [] OTHER -> <<samples, samples, samples>>

\* The picture is no larger than a vector may be.
Storable(f, fmt) ==
  LET g == Geometry(f)
  IN  g.width * g.length * (IF fmt = "Grayscale" THEN 1 ELSE 3) <= MaxU64 \div 2

Picture(f, fmt) ==
  LET g == Geometry(f)
      bytes == SampleAddresses(g)
  IN  [p \in 0..(g.width * g.length - 1) |->
         Convert(SubSeq(bytes, p * g.samples + 1, (p + 1) * g.samples), fmt)]

-----------------------------------------------------------------------------

Init ==
  /\ file \in Files /\ format \in Formats
  /\ answer = "none" /\ picture = <<>>

\* "thrown": there was no memory for the picture.
Answer ==
  /\ answer = "none"
  /\ \/ /\ Baseline(file) /\ Storable(file, format)
        /\ \/ answer' = "decoded" /\ picture' = Picture(file, format)
           \/ answer' = "thrown" /\ UNCHANGED picture
     \/ /\ ~(Baseline(file) /\ Storable(file, format))
        /\ answer' = "rejected" /\ UNCHANGED picture
  /\ UNCHANGED <<file, format>>

Spec == Init /\ [][Answer]_vars
=============================================================================
