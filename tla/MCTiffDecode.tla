---------------------------- MODULE MCTiffDecode ----------------------------
(***************************************************************************)
(* TiffDecode on small streams, with 8-bit "32-bit" integers: images of    *)
(* one to three rows and columns in several strip layouts, and the same    *)
(* with one thing wrong.                                                   *)
(***************************************************************************)
EXTENDS TiffDecode, SequencesExt, TLC

\* An entry with values in place, or at byte 136 of the stream.
E(tag, type, vals) == [tag |-> tag, type |-> type, at |-> 136, vals |-> vals]

\* A stream of `size` bytes that holds an image of width * length pixels in the
\* strips that start at `offsets` and have `counts` bytes.
Stream(width, length, rows, samples, offsets, counts) ==
  [size |-> 200, magic |-> TRUE, ifd |-> 8,
   entries |-> <<E("ImageWidth", "SHORT", <<width>>),
                 E("ImageLength", "SHORT", <<length>>),
                 E("BitsPerSample", "SHORT", [k \in 1..samples |-> 8]),
                 E("StripOffsets", "LONG", offsets),
                 E("SamplesPerPixel", "BYTE", <<samples>>),
                 E("RowsPerStrip", "LONG", <<rows>>),
                 E("StripByteCounts", "LONG", counts)>>]

Good == {
  Stream(1, 1, 1, 1, <<150>>, <<1>>),
  Stream(2, 2, 1, 1, <<160, 150>>, <<2, 2>>),      \* strips in reverse order
  Stream(2, 3, 2, 1, <<150, 170>>, <<5, 2>>),      \* a long strip, a short last one
  Stream(3, 1, MaxU32, 1, <<150>>, <<3>>),         \* no RowsPerStrip
  Stream(1, 2, 7, 3, <<150>>, <<6>>),              \* strip taller than the image
  Stream(2, 1, 1, 3, <<194>>, <<6>>),              \* up to the end of the stream
  Stream(2, 2, 1, 3, <<150, 150>>, <<6, 6>>),      \* two strips share their bytes
  Stream(1, 3, 2, 3, <<170, 150>>, <<6, 3>>) }

\* A stream whose entry for `tag` is replaced, or given when it has none.
With(f, tag, type, vals) ==
  [f EXCEPT !.entries = Append(SelectSeq(@, LAMBDA e : e.tag # tag),
                               E(tag, type, vals))]

Without(f, tag) == [f EXCEPT !.entries = SelectSeq(@, LAMBDA e : e.tag # tag)]

\* The same tag twice.
Twice(f, tag, type, vals) ==
  [f EXCEPT !.entries = Append(@, E(tag, type, vals))]

Base == Stream(2, 3, 2, 1, <<150, 170>>, <<5, 2>>)
Rgb == Stream(1, 3, 2, 3, <<170, 150>>, <<6, 3>>)

Odd == {
  [Base EXCEPT !.magic = FALSE], [Base EXCEPT !.ifd = 0],
  [Base EXCEPT !.ifd = 199], [Base EXCEPT !.ifd = 113], [Base EXCEPT !.ifd = 114],
  [Base EXCEPT !.size = 7], [Base EXCEPT !.size = 171], [Base EXCEPT !.size = 143],
  Twice(Base, "ImageWidth", "SHORT", <<1>>), Twice(Base, "ImageWidth", "SHORT", <<3>>),
  Twice(Base, "Orientation", "SHORT", <<1>>),
  Twice(Base, "Software", "ASCII", [k \in 1..90 |-> 0]),
  With(Base, "ImageWidth", "RATIONAL", <<2>>), With(Base, "ImageLength", "SHORT", <<3, 3>>),
  With(Base, "ImageLength", "SHORT", <<0>>), With(Base, "ImageWidth", "SHORT", <<0>>),
  With(Base, "Compression", "SHORT", <<5>>), With(Base, "Compression", "SHORT", <<1>>),
  With(Base, "PlanarConfig", "SHORT", <<2>>), With(Base, "Photometric", "SHORT", <<0>>),
  With(Base, "Photometric", "SHORT", <<2>>), With(Rgb, "Photometric", "SHORT", <<1>>),
  With(Rgb, "Photometric", "SHORT", <<2>>), With(Rgb, "SamplesPerPixel", "SHORT", <<4>>),
  With(Rgb, "BitsPerSample", "SHORT", <<8, 16, 8>>), With(Rgb, "BitsPerSample", "SHORT", <<8>>),
  With(Base, "RowsPerStrip", "SHORT", <<0>>), With(Base, "RowsPerStrip", "SHORT", <<1>>),
  With(Base, "RowsPerStrip", "SHORT", <<3>>), Without(Base, "RowsPerStrip"),
  Without(Base, "StripOffsets"), With(Base, "StripOffsets", "LONG", <<>>),
  With(Base, "StripOffsets", "SHORT", <<150, 170>>), With(Base, "StripOffsets", "LONG", <<150>>),
  With(Base, "StripOffsets", "LONG", <<150, 198>>), With(Base, "StripOffsets", "LONG", <<150, 199>>),
  With(Base, "StripByteCounts", "LONG", <<3, 2>>), With(Base, "StripByteCounts", "LONG", <<4, 1>>),
  With(Base, "StripByteCounts", "BYTE", <<4, 2>>), With(Base, "StripByteCounts", "ASCII", <<4, 2>>),
  \* rows * row_bytes wraps around to a number that fits in the strip
  [Stream(255, 86, MaxU32, 3, <<0>>, <<254>>) EXCEPT !.size = 254],
  \* an image too large for a vector, all of its strips on the same bytes
  [Stream(255, 129, 1, 1, [k \in 1..129 |-> 0], [k \in 1..129 |-> 255])
     EXCEPT !.size = 700] }

MCFiles == Good \cup Odd
=============================================================================
