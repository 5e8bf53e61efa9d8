---------------------------- MODULE MCTiffRewrite ----------------------------
(***************************************************************************)
(* TiffRewrite on small streams: compressed images, PackBits strips of any *)
(* packets, cut off or not, and streams with one thing wrong.              *)
(***************************************************************************)
EXTENDS TiffEquivalence, SequencesExt, FiniteSetsExt, TLC

E(tag, type, vals) == [tag |-> tag, type |-> type, at |-> 136, vals |-> vals]

\* A compressed stream; strip s is at 160 + 10 s and decompresses to yields[s].
Stream(width, length, rows, samples, yields, compression, predictor) ==
  LET strips == DOMAIN yields IN
  [size |-> 250, magic |-> TRUE, ifd |-> 8,
   yield |-> [o \in {160 + 10 * s : s \in strips} |-> yields[(o - 160) \div 10]],
   bytes |-> <<>>, packets |-> <<>>,
   entries |-> <<E("ImageWidth", "SHORT", <<width>>),
                 E("ImageLength", "SHORT", <<length>>),
                 E("BitsPerSample", "SHORT", [k \in 1..samples |-> 8]),
                 E("Compression", "SHORT", <<compression>>),
                 E("StripOffsets", "LONG", [s \in strips |-> 160 + 10 * s]),
                 E("SamplesPerPixel", "SHORT", <<samples>>),
                 E("RowsPerStrip", "SHORT", <<rows>>),
                 E("StripByteCounts", "LONG", [s \in strips |-> 10]),
                 E("Predictor", "SHORT", <<predictor>>)>>]

\* PackBits strips.  Literal bytes look like the header that means nothing.
EncodePacket(n) ==
  <<HeaderByte(n)>> \o [k \in 1..(PacketSize(n) - 1) |-> IF n > 0 THEN Half ELSE 0]
Encode(packets) == FlattenSeq([k \in DOMAIN packets |-> EncodePacket(packets[k])])

\* A PackBits stream of the given bytes, strip s at 160 + 20 s.
OfBytes(width, length, rows, samples, strips, packets, predictor) ==
  LET f == Stream(width, length, rows, samples, [s \in DOMAIN strips |-> 0], PackBits, predictor)
      Used(s) == (160 + 20 * s)..(159 + 20 * s + Len(strips[s]))
      Values(e) == CASE e.tag = "StripOffsets" -> [s \in DOMAIN strips |-> 160 + 20 * s]
                     [] e.tag = "StripByteCounts" -> [s \in DOMAIN strips |-> Len(strips[s])]
                     [] OTHER -> e.vals
  IN  [f EXCEPT !.bytes = [a \in UNION {Used(s) : s \in DOMAIN strips} |->
                             strips[(a - 160) \div 20][(a % 20) + 1]],
                !.packets = packets,
                !.entries = [k \in DOMAIN @ |-> [@[k] EXCEPT !.vals = Values(f.entries[k])]]]

Packed(width, length, rows, samples, packets, predictor) ==
  OfBytes(width, length, rows, samples, [s \in DOMAIN packets |-> Encode(packets[s])], packets, predictor)

\* The last strip lacks its last byte.
PackedShort(packets) ==
  LET strips == [s \in DOMAIN packets |-> Encode(packets[s])]
      n == Len(strips)
  IN  OfBytes(1, 1, 1, 1, [strips EXCEPT ![n] = Front(@)], packets, 1)

SomePackets == {-4, -2, 0, 1, 2, 4}
Cuttable == {p \in SeqOf(SomePackets, 2) : p # <<>> /\ Last(p) # 0}
PackBitsFiles ==
  {Packed(3, 1, 1, 1, <<p>>, 1) : p \in SeqOf(SomePackets, 3)}
    \cup {Packed(2, 2, 1, 1, <<p, q>>, 2) : p, q \in SeqOf(SomePackets, 1)}
    \cup {PackedShort(<<p>>) : p \in Cuttable}
    \cup {PackedShort(<<<<2>>, p>>) : p \in Cuttable}
    \cup {OfBytes(1, 1, 1, 1, <<b>>, <<>>, 1) : b \in SeqOf(0..(2 * Half - 1), 3)}

Exact == {
  Packed(1, 1, 1, 1, <<<<1>>>>, 1), Stream(3, 2, 1, 1, <<3, 3>>, Lzw, 2),
  Stream(2, 3, 2, 1, <<4, 2>>, Deflate, 1), Stream(2, 3, 2, 1, <<4, 5>>, DeflateOld, 2),
  Stream(2, 2, 1, 3, <<6, 6>>, Lzw, 2), Packed(3, 1, MaxU32, 3, <<<<4, 0, -3, 2>>>>, 2),
  Packed(2, 2, 1, 3, <<<<-4, 2>>, <<3, 3>>>>, 2), Stream(2, 2, 7, 1, <<4>>, Lzw, 1) }

With(f, tag, type, vals) ==
  [f EXCEPT !.entries = Append(SelectSeq(@, LAMBDA e : e.tag # tag), E(tag, type, vals))]

Twice(f, tag, type, vals) == [f EXCEPT !.entries = Append(@, E(tag, type, vals))]

Base == Stream(2, 3, 2, 1, <<4, 2>>, Lzw, 2)

Odd == {
  [Base EXCEPT !.magic = FALSE], [Base EXCEPT !.size = 7], [Base EXCEPT !.ifd = 139],
  [Base EXCEPT !.ifd = 138], [Base EXCEPT !.ifd = 249], [Base EXCEPT !.size = 189],
  [Base EXCEPT !.size = 143], With(Base, "Compression", "SHORT", <<1>>),
  With(Base, "Compression", "SHORT", <<7>>), With(Base, "Compression", "ASCII", <<5>>),
  With(Base, "TileWidth", "SHORT", <<1>>), With(Base, "TileOffsets", "LONG", <<0>>),
  With(Base, "PlanarConfig", "SHORT", <<2>>), With(Base, "PlanarConfig", "SHORT", <<1>>),
  With(Base, "Predictor", "SHORT", <<3>>), With(Base, "BitsPerSample", "SHORT", <<16>>),
  With(Base, "ImageWidth", "SHORT", <<0>>), With(Base, "ImageLength", "ASCII", <<2>>),
  With(Base, "SamplesPerPixel", "SHORT", <<0>>), With(Base, "StripOffsets", "LONG", <<170>>),
  With(Base, "StripOffsets", "LONG", <<>>), With(Base, "StripByteCounts", "RATIONAL", <<10, 10>>),
  With(Base, "StripOffsets", "SHORT", <<170, 181>>), With(Base, "StripByteCounts", "BYTE", <<9, 71>>),
  \* tags the rewriter only carries along
  Twice(Base, "Software", "ASCII", <<65, 66, 67, 68, 0>>),
  Twice(Twice(Base, "Software", "ASCII", <<65, 66, 67, 68, 0>>), "XResolution", "RATIONAL", <<72>>),
  \* pixels at the last even place that an offset can point to
  Twice(Base, "Software", "ASCII", [k \in 1..120 |-> 65]),
  \* two entries that share their values and get a copy each: more than 32-bit
  \* offsets can address
  Twice(Twice(Base, "Software", "ASCII", [k \in 1..99 |-> 65]), "Artist", "ASCII", [k \in 1..99 |-> 66]),
  Twice(Base, "Orientation", "SHORT", <<1>>), Twice(Base, "Odd", "13", <<1, 2, 3>>),
  \* strips that decompress to too little, and a tag given twice
  Stream(2, 3, 2, 1, <<3, 2>>, Lzw, 2), Stream(2, 3, 2, 1, <<5>>, Lzw, 1),
  Twice(Base, "ImageWidth", "SHORT", <<1>>), Twice(Base, "StripByteCounts", "LONG", <<1, 1>>) }

\* Strips before the last one that decompress to more than their rows.
Padded == { Packed(2, 2, 1, 1, <<<<3>>, <<-2>>>>, 1), Stream(1, 3, 1, 3, <<4, 3, 3>>, Lzw, 1) }

\* 190 * 115 * 3 is 14 in 16-bit arithmetic.
Wide == { Stream(190, 115, MaxU32, 3, <<14>>, Lzw, 1) }

ExactFiles == Exact \cup Odd \cup PackBitsFiles
PaddedFiles == Exact \cup Padded
WideFiles == Exact \cup Wide
=============================================================================
