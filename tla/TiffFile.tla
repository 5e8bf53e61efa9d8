------------------------------ MODULE TiffFile ------------------------------
(***************************************************************************)
(* A TIFF byte stream as TryDecodeTiff (legacy_image_codecs.cc) and        *)
(* RewriteCompressedTiff (tiff_compression.cc) see it: where its image     *)
(* file directory is, the entries of it, and where their values are.       *)
(* Tags and types go by their names, values by the integers they hold.     *)
(*                                                                         *)
(* The 32-bit and 64-bit unsigned integers of the code are scaled down     *)
(* together: MaxU32 is the largest of the former (2^32 - 1 in the code).   *)
(***************************************************************************)
EXTENDS Naturals, Sequences

CONSTANT MaxU32

\* A byte fits in a 32-bit integer.
ASSUME MaxU32Assumption == MaxU32 \in Nat /\ MaxU32 >= 255

U32 == 0..MaxU32
MaxU64 == (MaxU32 + 1) * (MaxU32 + 1) - 1

\* Unsigned 64-bit product, which wraps around.
Mul64(a, b) == (a * b) % (MaxU64 + 1)

ScalarTags == {"ImageWidth", "ImageLength", "Compression", "Photometric",
               "SamplesPerPixel", "RowsPerStrip", "PlanarConfig"}
ArrayTags == {"BitsPerSample", "StripOffsets", "StripByteCounts"}

\* Tags that only RewriteCompressedTiff looks at, and some that neither does.
RewriteTags == {"Predictor", "TileWidth", "TileOffsets"}
OtherTags == {"Artist", "Orientation", "Software", "XResolution", "Odd"}

\* One directory entry: `vals` are the values found at byte `at` of the stream
\* when they do not fit in the entry's own four bytes.
Tags == ScalarTags \cup ArrayTags \cup RewriteTags \cup OtherTags
Types == {"BYTE", "ASCII", "SBYTE", "UNDEFINED", "SHORT", "SSHORT", "LONG", "SLONG",
          "FLOAT", "RATIONAL", "SRATIONAL", "DOUBLE", "13"}
Entries == [tag : Tags, type : Types, at : U32, vals : Seq(U32)]

\* `magic`: the stream starts with II or MM and 42 in that byte order.
TiffFiles == [size : Nat, magic : BOOLEAN, ifd : U32, entries : Seq(Entries)]

TypeSize(type) ==
  CASE type \in {"BYTE", "ASCII", "SBYTE", "UNDEFINED"} -> 1
    [] type \in {"SHORT", "SSHORT"} -> 2
    [] type \in {"LONG", "SLONG", "FLOAT"} -> 4
    [] type \in {"RATIONAL", "SRATIONAL", "DOUBLE"} -> 8
    [] OTHER -> 0

ValueBytes(e) == TypeSize(e.type) * Len(e.vals)

Inline(e) == ValueBytes(e) <= 4

\* The values can be read without leaving the stream.
ValuesInside(f, e) == Inline(e) \/ e.at + ValueBytes(e) <= f.size

\* The directory's count and its entries are inside the stream.
DirectoryInside(f) ==
  /\ f.ifd # 0
  /\ f.ifd + 2 <= f.size
  /\ f.ifd + 2 + 12 * Len(f.entries) <= f.size
=============================================================================
