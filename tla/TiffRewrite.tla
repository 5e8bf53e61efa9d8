----------------------------- MODULE TiffRewrite -----------------------------
(***************************************************************************)
(* RewriteCompressedTiff of tiff_compression.cc: one call decompresses the *)
(* strips of a PackBits, LZW or Deflate TIFF into one buffer and builds an *)
(* uncompressed single-strip TIFF around it, or refuses.                   *)
(*                                                                         *)
(* PackBits strips are decompressed here, from the bytes of the stream.    *)
(* What a LZW or Deflate strip decompresses to is given with the stream:   *)
(* yield[o] bytes for the strip at offset o, none when it cannot be        *)
(* decompressed (LzwDecode and Inflate are the decoders).  A byte of the   *)
(* buffer is the set of bytes that are added up in it: one, or several     *)
(* once the predictor has been undone.  <<a, 0>> is the byte at address a  *)
(* of the stream, <<o, k>> the kth byte the strip at o decompresses to.    *)
(***************************************************************************)
EXTENDS TiffFile, Integers

CONSTANTS
  Files,     \* the streams a caller may pass
  Half       \* half the number of values of a byte, 128 in the code

ASSUME FilesAssumption ==
  \A f \in Files :
    /\ f.size \in Nat /\ f.magic \in BOOLEAN /\ f.ifd \in U32
    /\ f.entries \in Seq(Entries)
    /\ f.yield \in [DOMAIN f.yield -> Nat] /\ DOMAIN f.yield \subseteq Nat
    /\ f.bytes \in [DOMAIN f.bytes -> 0..(2 * Half - 1)]

ASSUME HalfAssumption == Half \in Nat \ {0}

VARIABLES
  file,        \* the argument
  pc,          \* the part of the function that runs
  strip,       \* the strip to decompress
  at,          \* bytes of the strip read, or of the image undone
  raw,         \* the decompressed bytes
  entry,       \* next directory entry to rebuild
  rebuilt,     \* the rebuilt entries
  trailing,    \* bytes of out-of-line values so far
  out,         \* the rewritten stream, Untouched until the call succeeds
  answer

vars == <<file, pc, strip, at, raw, entry, rebuilt, trailing, out, answer>>

Untouched == [size |-> 0]

Init ==
  /\ file \in Files
  /\ pc = "header"
  /\ strip = 1 /\ at = 0 /\ raw = <<>>
  /\ entry = 1 /\ rebuilt = <<>> /\ trailing = 0
  /\ out = Untouched /\ answer = "none"

-----------------------------------------------------------------------------
(* Reading the directory.  Here the first entry of a tag counts, and a     *)
(* value that cannot be read is the default rather than an error.          *)

Positions(tag) == {k \in DOMAIN file.entries : file.entries[k].tag = tag}

Has(tag) == Positions(tag) # {}

\* find: the first entry of a tag
Find(tag) ==
  file.entries[CHOOSE k \in Positions(tag) : \A j \in Positions(tag) : k <= j]

\* ReadIntArray succeeds
IntArray(e) ==
  /\ TypeSize(e.type) # 0 /\ ValuesInside(file, e)
  /\ e.type \in {"BYTE", "SHORT", "LONG"} \/ e.vals = <<>>

ReadScalar(tag, default) ==
  IF Has(tag) /\ IntArray(Find(tag)) /\ Find(tag).vals # <<>>
  THEN Find(tag).vals[1] ELSE default

Width == ReadScalar("ImageWidth", 0)
Height == ReadScalar("ImageLength", 0)
Samples == ReadScalar("SamplesPerPixel", 1)
Predictor == ReadScalar("Predictor", 1)
Compression == ReadScalar("Compression", 1)
Offsets == Find("StripOffsets").vals
Counts == Find("StripByteCounts").vals

\* Values of the Compression tag that are decompressed: LZW, Deflate (old and
\* new) and PackBits, whose real values do not fit the scaled integers.
Lzw == 5
Deflate == 8
PackBits == 73
DeflateOld == 246
Compressions == {Lzw, Deflate, PackBits, DeflateOld}

Rewritable ==
  /\ Compression \in Compressions
  /\ ~Has("TileWidth") /\ ~Has("TileOffsets")
  /\ ReadScalar("PlanarConfig", 1) = 1
  /\ \A tag \in {"ImageWidth", "ImageLength", "StripOffsets", "StripByteCounts"} : Has(tag)
  /\ Width # 0 /\ Height # 0 /\ Samples # 0
  /\ ReadScalar("BitsPerSample", 1) = 8
  /\ Predictor \in {1, 2}
  /\ IntArray(Find("StripOffsets")) /\ IntArray(Find("StripByteCounts"))
  /\ Offsets # <<>> /\ Len(Offsets) = Len(Counts)

-----------------------------------------------------------------------------

Refuse ==
  /\ pc' = "done" /\ answer' = "refused"
  /\ UNCHANGED <<strip, at, raw, entry, rebuilt, trailing, out>>

Advance(to) ==
  /\ pc' = to
  /\ UNCHANGED <<strip, at, raw, entry, rebuilt, trailing, out, answer>>

\* The next-directory pointer after the entries must be there too; a directory
\* at offset 0 is not ruled out here.
HeaderInside ==
  /\ file.size >= 8 /\ file.magic
  /\ file.ifd + 2 <= file.size
  /\ file.ifd + 2 + 12 * Len(file.entries) + 4 <= file.size

CheckHeader ==
  /\ pc = "header"
  /\ \/ HeaderInside /\ Advance("tags")
     \/ ~HeaderInside /\ Refuse
  /\ UNCHANGED file

CheckTags ==
  /\ pc = "tags"
  /\ \/ Rewritable /\ Advance("strips")
     \/ ~Rewritable /\ Refuse
  /\ UNCHANGED file

StripInside == Offsets[strip] + Counts[strip] <= file.size

\* The bytes of all strips go to one buffer.
AddBytes(bytes) == raw' = raw \o bytes /\ UNCHANGED <<pc, entry, rebuilt, trailing, out, answer>>

\* DecodePackBits: the byte after `read` bytes of the strip, and the one at a
\* position of it as the buffer gets it.
ByteAt(read) ==
  LET a == Offsets[strip] + read IN IF a \in DOMAIN file.bytes THEN file.bytes[a] ELSE 0
FromStrip(read) == {<<Offsets[strip] + read, 0>>}

Signed(b) == IF b < Half THEN b ELSE b - 2 * Half          \* int8_t
Header == Signed(ByteAt(at))

LiteralFitsStream(h) == Offsets[strip] + at + 1 + h + 1 <= file.size  \* mutant: not the strip
LiteralFits(h) == at + 1 + h + 1 <= Counts[strip]

IsRepeatAll(h) == h < 0            \* mutant: 128 is a header like any other
IsRepeat(h) == h < 0 /\ h # -Half

NoOpStuck == at                    \* mutant: the header that means nothing is kept
NoOpEnd == at + 1

Literal(h) ==
  /\ h >= 0 /\ LiteralFits(h)
  /\ AddBytes([k \in 1..(h + 1) |-> FromStrip(at + k)])
  /\ at' = at + 1 + h + 1

Repeat(h) ==
  /\ IsRepeat(h) /\ at + 1 < Counts[strip]
  /\ AddBytes([k \in 1..(1 - h) |-> FromStrip(at + 1)])
  /\ at' = at + 2

NoOp(h) == h < 0 /\ ~IsRepeat(h) /\ AddBytes(<<>>) /\ at' = NoOpEnd

Truncated(h) ==
  \/ h >= 0 /\ ~LiteralFits(h)
  \/ IsRepeat(h) /\ at + 1 >= Counts[strip]

ReadPacket ==
  /\ pc = "strips" /\ strip <= Len(Offsets) /\ Compression = PackBits /\ StripInside
  /\ at < Counts[strip]
  /\ \/ (Literal(Header) \/ Repeat(Header) \/ NoOp(Header)) /\ UNCHANGED strip
     \/ Truncated(Header) /\ Refuse
  /\ UNCHANGED file

\* DecodeLzw and DecodeDeflate.
Decompressed ==
  /\ Compression # PackBits /\ Offsets[strip] \in DOMAIN file.yield
  /\ AddBytes([k \in 1..file.yield[Offsets[strip]] |-> {<<Offsets[strip], k>>}])

EndPackBits == Compression = PackBits /\ at = Counts[strip] /\ AddBytes(<<>>)

Undecodable ==
  \/ ~StripInside
  \/ Compression # PackBits /\ Offsets[strip] \notin DOMAIN file.yield

EndStrip ==
  /\ pc = "strips" /\ strip <= Len(Offsets)
  /\ \/ /\ StripInside /\ (Decompressed \/ EndPackBits)
        /\ strip' = strip + 1 /\ at' = 0
     \/ Undecodable /\ Refuse
  /\ UNCHANGED file

\* Size of the image in 64-bit arithmetic, multiplied from the left.
Expected == Mul64(Mul64(Width, Height), Samples)

\* The buffer must hold the image; what is beyond it is dropped.
TrimToImage ==
  /\ pc = "strips" /\ strip = Len(Offsets) + 1
  /\ \/ /\ Len(raw) >= Expected
        /\ raw' = SubSeq(raw, 1, Expected)
        /\ pc' = IF Predictor = 2 THEN "undo" ELSE "rebuild"
        /\ UNCHANGED <<strip, at, entry, rebuilt, trailing, out, answer>>
     \/ Len(raw) < Expected /\ Refuse
  /\ UNCHANGED file

\* UndoHorizontalPredictor, byte by byte and in place: every byte but the first
\* pixel's of a row is added to the byte one pixel before it; an incomplete row
\* is left alone.
RowBytes == Width * Samples
InWholeRow ==
  /\ at \div RowBytes < Height
  /\ RowBytes * (at \div RowBytes) + RowBytes <= Len(raw)
DifferencedAcross == InWholeRow /\ at >= Samples    \* mutant: not row by row
Differenced == InWholeRow /\ at % RowBytes >= Samples

UndoByte ==
  /\ pc = "undo" /\ at < Len(raw)
  /\ raw' = IF Differenced THEN [raw EXCEPT ![at + 1] = @ \cup raw[at + 1 - Samples]] ELSE raw
  /\ at' = at + 1
  /\ UNCHANGED <<file, pc, strip, entry, rebuilt, trailing, out, answer>>

UndoEnd == pc = "undo" /\ at = Len(raw) /\ Advance("rebuild") /\ UNCHANGED file

-----------------------------------------------------------------------------
(* Building the new directory.                                             *)

\* The new stream: header, directory, out-of-line values, pixels.
DirectoryEnd == 14 + 12 * Len(file.entries)

WordAligned(n) == n + (n % 2)

U32Of(n) == n % (MaxU32 + 1)      \* static_cast<uint32_t>

Own(tag, type, value) == [tag |-> tag, type |-> type, at |-> 0, vals |-> <<value>>]

Replaced == {"Compression", "Predictor", "RowsPerStrip", "StripOffsets", "StripByteCounts"}

Replacement(tag) ==
  CASE tag \in {"Compression", "Predictor"} -> Own(tag, "SHORT", 1)
    [] tag = "RowsPerStrip" -> Own(tag, "LONG", Height)
    [] tag = "StripOffsets" -> Own(tag, "LONG", 0)
    [] OTHER -> Own(tag, "LONG", U32Of(Len(raw)))

NextPlacePacked == trailing      \* mutant: no alignment

\* Where the next out-of-line value goes.
NextPlace == WordAligned(trailing)

WriteDropped(e) ==           \* mutant: an entry is left out that the directory counts
  rebuilt' = (IF e.tag = "Predictor" THEN rebuilt ELSE Append(rebuilt, e)) /\ entry' = entry + 1

\* The record of the next entry.
Write(e) == rebuilt' = Append(rebuilt, e) /\ entry' = entry + 1

RebuildEntry ==
  /\ pc = "rebuild" /\ entry <= Len(file.entries)
  /\ LET e == file.entries[entry] IN
     \/ /\ e.tag \in Replaced
        /\ Write(Replacement(e.tag))
        /\ UNCHANGED <<pc, strip, at, raw, trailing, out, answer>>
     \/ /\ e.tag \notin Replaced /\ Inline(e)
        /\ Write(e)
        /\ UNCHANGED <<pc, strip, at, raw, trailing, out, answer>>
     \/ /\ e.tag \notin Replaced /\ ~Inline(e) /\ ValuesInside(file, e)
        /\ Write([e EXCEPT !.at = U32Of(DirectoryEnd + NextPlace)])
        /\ trailing' = NextPlace + ValueBytes(e)
        /\ UNCHANGED <<pc, strip, at, raw, out, answer>>
     \/ e.tag \notin Replaced /\ ~ValuesInside(file, e) /\ Refuse
  /\ UNCHANGED file

\* The first StripOffsets entry gets the place of the pixels.
Patched(place) ==
  [k \in DOMAIN rebuilt |->
     IF k \in Positions("StripOffsets") /\ \A j \in Positions("StripOffsets") : k <= j
     THEN Own("StripOffsets", "LONG", U32Of(place)) ELSE rebuilt[k]]

Finish ==
  /\ pc = "rebuild" /\ entry = Len(file.entries) + 1
  /\ LET place == DirectoryEnd + NextPlace
     IN  out' = [size |-> place + Len(raw), magic |-> TRUE, ifd |-> 8,
                 entries |-> Patched(place), pixelsAt |-> place]
  /\ pc' = "done" /\ answer' = "rewritten"
  /\ UNCHANGED <<file, strip, at, raw, entry, rebuilt, trailing>>

Next == CheckHeader \/ CheckTags \/ ReadPacket \/ EndStrip \/ TrimToImage
          \/ UndoByte \/ UndoEnd \/ RebuildEntry \/ Finish

Spec == Init /\ [][Next]_vars

\* The call is sequential: what it can do next it does.
FairSpec == Spec /\ WF_vars(Next)

-----------------------------------------------------------------------------

TypeOK ==
  /\ file \in Files
  /\ pc \in {"header", "tags", "strips", "undo", "rebuild", "done"}
  /\ strip \in Nat \ {0} /\ at \in Nat
  /\ raw \in Seq(SUBSET (Nat \X Nat))
  /\ entry \in 1..(Len(file.entries) + 1)
  /\ rebuilt \in Seq(Entries) /\ Len(rebuilt) = entry - 1
  /\ trailing \in Nat
  /\ out # Untouched => out.entries \in Seq(Entries) /\ out.size \in Nat
  /\ answer \in {"none", "refused", "rewritten"}

\* A PackBits strip is decompressed from its own bytes only, whatever its
\* headers say: none is read after its end (src + i + count, src[i] in
\* DecodePackBits), and it ends exactly there.
UnpackedFromStrips ==
  Compression = PackBits /\ pc = "strips" =>
    /\ strip <= Len(Offsets) => at <= Counts[strip]
    /\ \A b \in DOMAIN raw : \E s \in 1..strip :
         /\ s <= Len(Offsets) /\ Offsets[s] + Counts[s] <= file.size
         /\ raw[b] \subseteq (Offsets[s]..(Offsets[s] + Counts[s] - 1)) \X {0}

\* Every call answers: each loop over packets, bytes and entries moves on,
\* whatever it reads.
RewriteEnds == <>(pc = "done")

\* The place of an entry's out-of-line values in the new stream.
Region(e) == e.at..(e.at + ValueBytes(e) - 1)

\* As long as the pixels begin where a 32-bit offset can point, none of the
\* unchecked casts of an offset (tiff_compression.cc:756, 766) changes it: the
\* directory, every relocated value and the pixels have places of their own, inside
\* the stream, and the values start on even offsets (the IFD and trailing vectors).
RegionsDisjoint ==
  answer = "rewritten" /\ out.pixelsAt <= MaxU32 =>
    LET far == {k \in DOMAIN out.entries : ~Inline(out.entries[k])}
    IN  /\ out.pixelsAt % 2 = 0 /\ out.pixelsAt >= DirectoryEnd
        /\ \A k \in far :
             /\ out.entries[k].at % 2 = 0
             /\ Region(out.entries[k]) \subseteq DirectoryEnd..(out.pixelsAt - 1)
             /\ \A j \in far \ {k} :
                  Region(out.entries[k]) \cap Region(out.entries[j]) = {}

\* A rewritten stream holds the whole image its directory announces.  The
\* comment on the size computation says that it "cannot overflow"
\* (tiff_compression.cc:644-646).
HoldsTheImage ==
  answer = "rewritten" => Len(raw) = Width * Height * Samples
=============================================================================
