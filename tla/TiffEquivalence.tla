--------------------------- MODULE TiffEquivalence ---------------------------
(***************************************************************************)
(* What the stream that RewriteCompressedTiff returns should be for the    *)
(* decoder of uncompressed streams: RasterDecode's definition of a picture *)
(* is applied to it, and compared with the picture that the compressed     *)
(* stream stands for.                                                      *)
(***************************************************************************)
EXTENDS TiffStrips

Raster == INSTANCE RasterDecode WITH
  Formats <- {"RGB"}, format <- "RGB", answer <- "none", picture <- <<>>

\* The bytes a strip decompresses to.
StripContent(s) == AfterStrip(file, <<>>, s, Raster!Geometry(file).offsets[s])

UniqueTags ==
  \A j, k \in DOMAIN file.entries : file.entries[j].tag = file.entries[k].tag => j = k

\* The predictor is there or not, and is one the format knows.
PredictorKnown(e) ==
  e.tag = "Predictor" => e.type \in {"BYTE", "SHORT", "LONG"} /\ e.vals \in {<<1>>, <<2>>}

\* The strips are inside the stream, and can be decompressed to their ends.
StripsWhole(offsets, counts) ==
  /\ Len(offsets) = Len(counts)
  /\ file.packets # <<>> => Len(file.packets) = Len(offsets)
  /\ \A s \in DOMAIN offsets :
       /\ offsets[s] + counts[s] <= file.size
       /\ file.packets # <<>> => HasPackets(file, file.packets[s], offsets[s])
       /\ Whole(file, s, offsets[s], counts[s])

\* The stream is a compressed baseline image: unique readable tags, strips that
\* are all there and decompress to at least their rows.
CompressedImage ==
  LET g == Raster!Geometry(file)
      compression == Raster!Scalar(file, "Compression", 1)
  IN
  /\ HeaderInside /\ file.ifd > 0 /\ UniqueTags /\ Raster!WellFormed(file)
  /\ \A k \in DOMAIN file.entries :
       /\ ValuesInside(file, file.entries[k]) /\ PredictorKnown(file.entries[k])
       /\ file.entries[k].tag \notin {"TileWidth", "TileOffsets"}
  /\ compression \in Compressions
  /\ compression = PackBits <=> file.packets # <<>>
  /\ StripsWhole(g.offsets, g.counts)
  /\ Raster!BaselineImage(file, [s \in DOMAIN g.offsets |-> Len(StripContent(s))])

\* Every strip but the last decompresses to exactly its rows.
ExactStrips ==
  LET g == Raster!Geometry(file)
  IN  \A s \in 1..(Len(g.offsets) - 1) : Len(StripContent(s)) = Raster!StripBytes(g, s)

\* The size of the image fits in 64 bits.
SizeFits ==
  LET g == Raster!Geometry(file) IN g.width * g.length * g.samples <= MaxU64

\* The bytes of the picture: of each strip those of its rows.
PictureBytes ==
  LET g == Raster!Geometry(file)
  IN  Raster!FlattenSeq([s \in DOMAIN g.offsets |->
                           SubSeq(StripContent(s), 1, Raster!StripBytes(g, s))])

\* The samples that the predictor adds up in the nth one: those of its row and
\* its channel up to it.
Summands(n, rowBytes, samples) ==
  {m \in 1..n : (m - 1) \div rowBytes = (n - 1) \div rowBytes /\ m % samples = n % samples}

\* The samples of the picture the stream stands for, as sets of decompressed bytes.
IdealSamples ==
  LET g == Raster!Geometry(file)
      bytes == PictureBytes
      Added(n) == IF Raster!Scalar(file, "Predictor", 1) = 2
                  THEN Summands(n, g.width * g.samples, g.samples) ELSE {n}
  IN  [n \in DOMAIN bytes |-> UNION {bytes[m] : m \in Added(n)}]

\* The samples of the picture the decoder makes of the rewritten stream.
ActualSamples ==
  LET addresses == Raster!SampleAddresses(Raster!Geometry(out))
      Content(a) == LET k == a - out.pixelsAt + 1
                    IN  IF k \in DOMAIN raw THEN raw[k] ELSE {}
  IN  [n \in DOMAIN addresses |-> Content(addresses[n])]

Equivalent ==
  answer = "rewritten" /\ Raster!Baseline(out) /\ ActualSamples = IdealSamples

\* A compressed baseline image whose strips decompress to exactly their rows is
\* rewritten, and the decoder makes of the result the picture the original
\* stands for: decompression, predictor, strip merging, relocation and the
\* patched directory together ("an equivalent uncompressed single-strip TIFF").
\* Left out are an image larger than 64-bit arithmetic can say, and a result that
\* 32-bit offsets cannot address: its offsets wrap.
ExactImagesEquivalent ==
  /\ pc = "done" /\ CompressedImage /\ ExactStrips /\ SizeFits
  /\ answer = "rewritten" => out.size <= MaxU32
  => Equivalent

\* The same for any image the format allows, strips with padding included, as
\* the header promises without restriction (tiff_compression.h:16).
AllImagesEquivalent ==
  pc = "done" /\ CompressedImage => Equivalent
=============================================================================
