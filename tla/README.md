# A TLA+ development of onnx-light-kernel-images

This directory holds TLA+ modules that model the kernels and decoders of
`src/onnx_light_kernel_images/`, TLC configurations that check them on small
instances, and TLAPS proofs of what matters most for every instance. Every
definition is translated from the C++ source; `PROJECT.json` maps each one to
the lines it stands for.

Contents: [inventory](#1-inventory), [plan](#2-plan),
[modules and code](#3-the-modules-and-the-code), [runs](#4-runs-bounds-and-what-they-show),
[fairness](#5-fairness), [proofs](#6-what-is-proved),
[disagreements with the documentation](#7-where-the-code-and-its-documentation-disagree),
[what is only checked, and what is not modelled](#8-only-checked-and-not-modelled).

## 1. Inventory

The package replaces the `ImageDecoder` kernel of onnx-light by one that also
decodes TIFF, WebP and JPEG2000.

    RegisterImageKernels() / (context) / Python
            |  dispatch table of onnx-light (process, or one context)
            v
    TiffAwareImageDecoder::Run  ---- no known signature ---->  onnx-light's ImageDecoder
            |
            v
    TryDecodeLegacyCodecImage
            |---- TIFF ----> RewriteCompressedTiff ----> TryDecodeTiff --> ParallelFor
            |                  PackBits | LZW | Deflate
            |---- WebP ----> libwebp   (dlopen, once per process)
            '---- JPEG2000 -> libopenjp2 (dlopen, once per process)

| Component | State it keeps | Operations | What is hard | What makes it correct |
|---|---|---|---|---|
| Kernel registration | `static bool registered`; the entries of onnx-light's process-wide and per-context tables | `RegisterImageKernels()`, `RegisterImageKernels(context)`, the Python function that chooses | two threads; an exception between flag and table; contexts that resolved before | a registration that returned takes effect, never beyond the context it was made on, and is published once |
| Kernel and dispatch | the locals of a `Run` | validation, choice by signature, publication | every path's effect on height, width and pixels; exceptions | the published shape and bytes agree; a missing library gives an empty matrix; a run ends |
| WebP decoder | function-local static with the library's functions; RGB buffer | load, `WebPGetInfo`, `WebPDecodeRGBInto`, conversion | first use by several threads; three integer types in the size checks | functions are called only when all are there; rows fit buffer and stride |
| JPEG2000 decoder | function-local static; codec, stream, image; position in the memory stream | load, create, read header, decode, end, convert, destroy, and the callbacks read, skip, seek | partial failure with manual destruction; callbacks in any order | objects used exist, a run that returns destroyed all of them; the position stays inside |
| Uncompressed TIFF decoder | directory values, strip table, output vector, ranges of the workers | parse, check, `ParallelFor` conversion | ranges that end inside rows; strips in any order; products that wrap | reads stay in the strip, writes do not race, the picture is the format's |
| Compressed TIFF rewriter | decompressed bytes, new directory, trailing values | read tags, decompress strips, trim, undo the predictor, rebuild | strips of unequal length, size that wraps, offsets patched late | the new stream is equivalent to the old one, its regions are disjoint |
| PackBits decoder | position in the strip | one packet after the other, into the rewriter's buffer | signed headers, 128, packets that run over the strip | bytes of the strip only, each packet unpacked as it was packed |
| LZW decoder | table, code width, previous code | one code at a time | the width changes one code early while the table is one entry behind the encoder's; an encoder that never clears | widths agree at every code; no empty or missing string is used; no string is longer than the table |
| Deflate decoder | bit reader with `eof`, code lengths, two Huffman tables | zlib header, stored, fixed and dynamic blocks | reads past the end return zeros and are noticed later; matches that overlap what they write | what was deflated is inflated; nothing is accepted on bits that are not there, and the output is bounded by the input |
| Build scripts | the locals of one call of `setup.py` | headers, comparison, libraries | two installations of onnx-light on one machine | headers, libraries and imported package are of one onnx-light |

Around them, without a model: onnx-light's own `ImageDecoder` (another
repository), `ParallelFor` (another repository), pixel conversion (one
expression per pixel), the Python package, the rest of the build scripts, the
release version check, the documentation extensions and the fuzz harnesses.
Section 8 says why.

How they interact: threads share three pieces of state only. The registration
flag and dispatch table have no lock. The two library statics have the lock the
language gives a function-local static. The output vector of one conversion is
shared by `ParallelFor`'s workers, which must write disjoint parts of it.
Everything else is local to a call, and the difficulty there is numeric (64-bit
products, 32-bit offsets) or one of protocol (order of codes, fields, strips,
directory entries).

`PROJECT.json` lists the hazards, each at its line and with the properties that
would catch it.

## 2. Plan

Order of work, most important behaviour first; a tick means done.

1. [x] `TiffFile`, `TiffDecode`: the uncompressed decoder with its workers;
   `RasterDecode`, what it promises; `MCTiffDecode`.
2. [x] `TiffDecodeProofs` with `ArithmeticLemmas`.
3. [x] `KernelRegistry`, `MCKernelRegistry`, `KernelRegistryProofs`.
4. [x] `TiffRewrite`; `TiffStrips`, what it should make of its strips;
   `TiffEquivalence`, which composes it with `RasterDecode`, the decoder of what
   it writes; `MCTiffRewrite`.
5. [x] `LzwDecode` and `LzwStream` (decoder composed with an encoder),
   `LzwDecodeProofs`.
6. [x] `Inflate`, `HuffmanTree` and their MC modules.
7. [x] `ImageKernel`, `MCImageKernel`, `ImageKernelProofs`: the kernel, both
   dynamically loaded decoders, several threads.
8. [x] PackBits, inside `TiffRewrite`, and the predictor byte by byte.
9. [x] The zlib header in front of a Deflate strip and matches byte by byte.
10. [x] `TiffRewriteProofs` and `HuffmanTreeProofs`.
11. [x] The refinement of `RasterDecode` by `TiffDecode` as a theorem.
12. [x] `InflateProofs`: nothing accepted beyond the end, bounded output; the
    string bound of `LzwDecode`.
13. [x] `SourceBuild`: the choice of onnx-light headers, libraries and package
    in `setup.py` (lines 59-155), which come from two installations on some
    paths.
14. [x] Theorems that what was encoded is decoded: `LzwStream`, `HuffmanTree`,
    PackBits, and the picture of the rewritten stream.
15. [x] `InflatesWhatWasDeflated` as a theorem: `DeflateStrips`, the fields of a
    strip with the items they encode beside them and what the first ones mean, and
    the decoder following them in `InflateProofs`.

Abstract specifications: `RasterDecode` is one for the TIFF decoder, stated from
the format, and `TiffEquivalence` applies it to what the rewriter returns; the
packets in `TiffStrips`, the encoder in `LzwStream`, the items in `DeflateStrips` and
the canonical codes in `HuffmanTree` play that part for the decompressors.

## 3. The modules and the code

### TiffFile
A byte stream as the TIFF code sees it: size, place of the directory, entries
with a tag, a type, the place of their values and the values. `MaxU32` scales
32-bit integers down, and the 64-bit ones with them (`MaxU64`), so that products
wrap in the model where they wrap in the code, only earlier. Tags and types go
by their names; the sets `Tags` and `Types` hold those the code looks at and some
of those it skips.

### TiffDecode and RasterDecode (`TryDecodeTiff`, legacy_image_codecs.cc)
| Code | Model |
|---|---|
| `width`, `bits`, `offsets`, ... | `scalars`, `arrays` |
| header and directory checks | `CheckHeader` |
| the loop over entries, with `read_uint_array` | `ReadEntry`, one entry a step |
| defaults and the checks on tags | `CheckFields` |
| strip count, strip sizes with their overflow guards | `CheckStripCount`, `CheckStrip` |
| size of the output, `assign` | `Allocate` |
| a range given to a worker by `ParallelFor` | `Claim(w)` |
| the outer and the inner loop of the body | `BeginSegment(w)`, `WritePixel(w)` |
| the return of `ParallelFor` | `Return` |

A sample is not a number but the address of the stream it was read from, and an
output channel the tuple of addresses it is computed from. A wrong strip, row,
column, channel order or a pixel written twice is then a wrong picture.
`RasterDecode` defines the picture from the format alone: the bytes of the
strips follow each other, pixel `p` is their `p`-th group of samples.
`RefinesRaster` says that `TiffDecode` implements it, with the picture appearing
when the call answers.

### TiffRewrite (`RewriteCompressedTiff`, `DecodePackBits`, `UndoHorizontalPredictor`, tiff_compression.cc)
| Code | Model |
|---|---|
| header and directory, where unlike in `TryDecodeTiff` the first entry of a tag counts | `CheckHeader`, `CheckTags` |
| one packet of `DecodePackBits`: literal, repeated, the header 128, truncated | `ReadPacket` |
| the end of a strip, or the whole of one that is LZW or Deflate | `EndStrip` |
| the size check with its 64-bit product, the truncation | `TrimToImage` |
| one byte of `UndoHorizontalPredictor`, in place | `UndoByte`, `UndoEnd` |
| one entry of the new directory, with relocated values; an offset written into it keeps its low 32 bits | `RebuildEntry`, `Write` |
| the patched strip offset and the assembled stream | `Finish` |

A byte of the buffer is the set of bytes that were added up in it: `<<a, 0>>` is
the byte at address `a` of the stream, where a PackBits literal comes from, and
`<<o, k>>` the `k`-th byte that a LZW or Deflate strip at offset `o` decompresses
to (how many there are is given with the stream; the two decoders have modules of
their own). That is what tells a predictor undone rightly from one that crosses
rows or adds to the wrong sample. `Half` scales the signed header
byte of PackBits. Values of the Compression tag above `MaxU32 = 255` have
stand-ins.

`TiffStrips` says what the strips of a stream should become: PackBits strips are
given by their packets, of which the bytes of the stream are the encoding, and
`Buffer` is what all strips together stand for. `TiffEquivalence` says what the
rewritten stream should be for `TryDecodeTiff`. `PictureBytes` takes of every strip
the bytes of its rows, `IdealSamples` adds up the samples of a row and channel when
there is a predictor, and `ActualSamples` follows `RasterDecode`'s addresses into
the stream `Finish` has assembled. Both definitions of the picture are made from
the format, not from the rewriter's variables.

### LzwDecode and LzwStream (`DecodeLzw`)
One action per code: `ReadClear`, `ReadEoi`, `ReadString`, `ReadInvalid`, and
`EndOfInput` when too few bits are left. `LzwDecode` lets every code appear at
every step, because any bits are some codes. `LzwStream` puts a TIFF 6.0 encoder
in front, which may add Clear codes, leave out the one a full table calls for,
be cut off, and have codes replaced that it never sent. Alphabet and widths are
constants.

### Inflate and HuffmanTree
`Inflate` reads fields, one for each value or symbol; beyond the last one it
reads zeros and sets `eof`, as the bit reader does, and which reads are followed
by a look at `eof` is the code's choice, kept one by one. `BadHeader`, `Stored`,
`FixedTrees`, `DynamicTrees` are the start of a block; `ReadLength` and
`SplitLengths` are `BuildDynamicTrees`; `ReadSymbol` and `ReadMatch` are
`InflateBlock`. A Huffman code is the set of symbols it has codes for; the bits
are in `HuffmanTree`, where `Place` and `Symbol` are `Build` and `ReadBit` is one
turn of the loop of `Decode`. The first two bytes of a strip decide whether a zlib header is
skipped (`ZlibHeader`), and with it which fields there are to read; a match is
copied byte by byte (`CopyByte`), so that it may read what it wrote.
`LongestMatch` is 258 in the code and `StoredBits` is 16. A stored block makes room
for the length it announces before its bytes are found missing, so that a refused
strip may leave the buffer longer by up to `LongestStored` bytes; the room that is not
filled holds zeros.

`DeflateStrips` says what the decoder should make of a strip, from the format and
without the decoder: an encoder writes items (block headers, code lengths and
repetitions of them, literals, matches, ends of blocks), each a few fields, and
`Meaning` is what the first of them stand for: whether they may follow each
other, which symbols have a code, which bytes they are. The items are beside the
fields of a strip, which need hold only as many of them as it is long; the decoder
looks at neither the items nor whether a zlib header was written. Every stream of
RFC 1951 is such a sequence of items, but for the two things
`StartWritten` and `Fits` ask: a dynamic block has four or five code length codes,
which is as far as the fields of this model count, and where a raw stream begins with a stored block, the bits that
pad its header do not happen to be a zlib header with a correct check, since
`DecodeDeflate` would take them for one.

### KernelRegistry (register_image_kernels.cc, _imgpy_kernels.cc)
`Call`, `ReturnEarly`, `SeeUnregistered`, `Claim` and `Publish` are the
statements of the global function with a step between any two; `Throw` is an
exception of onnx-light's `RegisterKernelFn`; `RegisterLocal` is the function
with a context. The table and its resolution (`Kernel`, `Enclosing`, `Resolve`)
are onnx-light's and marked external: a local entry wins, a subgraph's context
inherits, a kernel once resolved is kept. `Serialized` and `MayThrow` choose the
caller: Python's GIL or one thread against C++ threads, a table that never
throws against one that may.

### ImageKernel (`TiffAwareImageDecoder::Run`, `TryDecodeWebp`, `TryDecodeJpeg2000`)
`call[t]` holds the locals of thread `t`'s run. `Call`, `Upstream`, `Reject`,
`Tiff`, `Publish`, `Throw` are `Run`; where an exception of an allocation or of
`ParallelFor` may start is in `WebpThrows`, `Jpeg2000Throws` and `RunThrows`; `BeginLoad`, `UseLoad`, `Open`, `Symbols`
the static of a library with its `dlopen` and `dlsym`; `WebpInfo`, `WebpDecode`
the WebP decoder; `CreateCodec` to `Cleanup` the JPEG2000 one, statement by
statement with every failure; `Callback` the three stream callbacks, which the
library may call at will. The TIFF branch is one step here, whose detail the
modules above are. Both libraries are external: a function of theirs may give
any answer. A thread that throws leaves the OpenJPEG objects it has behind
(`live`), as the code does.

### SourceBuild (`_onnx_light_source_build_info`, setup.py)
`ChooseHeaders` takes the headers from PYTHONPATH, the configured directory, a
sibling checkout or the imported package, in that order; `CompareRuntime` is the
comparison with the imported package that only the first of these makes,
`TakeRuntime` the other branches, `TakeLibraries` the libraries that the imported
package names. The files of a machine are an element of `Environments`: which
package directories have headers, and what the imported package reports.

## 4. Runs, bounds and what they show

| Run | States | Bounds | Properties |
|---|---|---|---|
| `registry` | 9 875 | 2 callers; a session, its subgraph, another session; calls exclude each other, exceptions possible | a registration that returned takes effect, does not leak, is published once |
| `registry_race` | violation | the same with two C++ threads | see section 7 |
| `registry_retry` | violation | the same with one call at a time that may throw | see section 7 |
| `tiff_decode` | 36 315 | 2 workers; 8 well-formed streams of 1 to 3 rows and columns, 42 others, most with one thing wrong; `MaxU32` = 255 | reads in the strip, no write race, whole picture, refinement of `RasterDecode`, an answer |
| `tiff_rewrite` | 10 644 | exact images, all PackBits strips of a few packets, odd streams; `MaxU32` = 255, header bytes of 3 bits | PackBits reads its strip only and unpacks what was packed; regions of the new stream are disjoint; the decoder makes the original's picture of it; an answer |
| `tiff_rewrite_padded`, `tiff_rewrite_wide` | violation | exact images and two padded ones, or one whose size wraps | see section 7 |
| `lzw_stream` | 153 522 | 2 literals, codes of 3 and 4 bits, every input up to 5 bytes, others of 50 to 130 bytes, 2 needless Clears, up to 6 damaged codes | strings usable and bounded, early change, widths agree, what was sent is decoded |
| `inflate` | 98 118 | 2 literals, lengths 2 to 4, distances 1 to 3; lengths of stored blocks of 5 bits; texts of 3 tokens in one block, 2 in two; with and without a zlib header; shorter ones cut off at every place, between fields or inside one; arbitrary fields up to 5 | no strip accepted past its end; output bounded by the input, and by one announced length more when the strip is refused; deflated texts come back |
| `huffman` | 11 167 | every list of up to 5 lengths of up to 3 bits, every bit string | the symbol has the length read; canonical codes decode |
| `image_kernel` | 43 064 | 2 threads, widths and heights 0, 2, 3 against `SizeMax` 15 and `IntMax` 7, a stream of 1 byte | one handle per library, only usable libraries, objects of a call, rows fit, shape matches, empty without library, a load is final, runs end |
| `source_build` | violation | 2 package directories, PYTHONPATH up to 2 of them | see section 7 |

Why the bounds are enough:

- *registry*. The flag has two values and a race needs two callers. A context,
  one inside it and one beside it are the three relations a registration may
  leak along.
- *tiff_decode*. Two workers suffice for a race on two ranges; ranges of every
  length occur, so they end before, at and after every row's end. The streams
  have one and several strips, a short last one, strips in reverse order, shared,
  with padding, ending at the end of the stream, and the strip table that makes
  `rows * row_bytes` wrap (255 wide, 3 samples, 86 rows in 16-bit arithmetic).
  Each group of checks is failed by some stream.
- *tiff_rewrite*. Each compression, rows with and without predictor, one and several
  strips, relocated values of odd and even length, before and after each other,
  a tag twice, and values that push the pixels to the last even place an offset can
  hold, or past it. With
  eight values of a byte (`Half` = 4) a packet has 1 to 4 literals or 2 to 4
  copies, or is the header that means nothing; strips are cut off inside their
  last packet, and every strip of up to three arbitrary bytes is tried. 255 of the
  1 005 streams are compressed baseline images with exact strips whose result can be
  addressed, where `ExactImagesEquivalent` says that they are rewritten and how.
- *lzw_stream*. Width 3 ends after five codes and the table is full after
  twelve, so short inputs see the width change and the long ones the full table,
  with the Clear that should follow and a second round, or without it for as long
  as the input lasts.
- *inflate*. Two blocks of every pair of types, matches across blocks and
  overlapping ones of distance 1, lengths written one by one and repeated, a
  repetition that runs over; cut off at each field and inside each one; a stored
  block whose padding looks like a zlib header but for the check; stored blocks that
  announce up to 31 bytes where the strip has few, more than the fields read could
  pay for. The
  strip before (`Earlier`) is three bytes that matches of this strip do not need.
- *huffman*. Five symbols of three bits include lists that have room to spare,
  fill the code exactly and overflow it.
- *image_kernel*. 2 x 2 decodes; 2 x 3 has more RGB bytes than `SizeMax`; 3 wide
  has a row beyond `IntMax`. Each of the three size checks is the one that
  refuses some picture. Two threads are what the statics are about; the proofs of
  section 6 are for any number.

Deadlock is checked for `registry`, `registry_race`, `registry_retry` and
`image_kernel`, which go on for ever; the others end with the call they model.

Every property has a mutant of a mapped definition, such as a dropped check, a
wrong bound or a swapped order, under which the run finds it violated.

## 5. Fairness

- `TiffDecode`: weak fairness of the calling thread's steps and of each worker.
  The calling thread is running code without waiting on anything but
  `ParallelFor`; the pool's threads run until the range they hold is converted.
  `Answered` follows: the loop whose only progress is the inner loop's ends.
- `ImageKernel`: weak fairness of each thread's own step. A run in progress is
  running code; a function of libwebp or OpenJPEG returns after finitely many
  callbacks (`Callback` is outside the fair part, so that nothing forces
  callbacks); a thread that waits for a static is woken when it is initialised.
  Nothing makes a thread call. `EveryRunEnds` follows, waiting included.

- `TiffRewrite`: weak fairness of `Next`, one thread running code that waits for
  nothing. `RewriteEnds` follows because every loop moves on, the one over
  packets by at least the header it reads.

The other specifications state safety only.

## 6. What is proved

Proofs are in modules of their own and hold for every value of the constants
that meets the named assumptions of the modules.

**`TiffDecodeProofs`** (any streams, workers, divisions of the pixels and width
of integers, with `MaxU32 >= 255`): `TypeCorrect`, `ReadsInside`,
`WritesDisjoint`, `WholePicture`, `DecoderRefinesRaster`. None of the properties is inductive. `IInv`
adds `Progress` (what has been checked at each place of the function, in
particular `StripFits` of every strip once converting), `RangesOrdered` (a
worker's `i <= rowEnd <= end <= todo`, and ranges of two workers on either side
of each other), `SegmentInRow` (the source pointer is the address of pixel `i`)
and `OutputSoFar` (every pixel no longer pending is right, every other blank).
The arithmetic of rows and strips is in lemmas on division; that the guarded
products do not wrap is `Mul64Guarded`.

The refinement is the last of these theorems. `ReadSoFar` adds what the call has
established of its stream: while entries are read, that the tables hold what the
last entry of each tag gives (`Parsed`); after `CheckFields`, that `Width`,
`RowsPerStrip` and the others are the geometry the format defines
(`SameGeometry`); after `Allocate`, that the stream is a baseline image. Then each
refusal is of a stream that is none: the strip table has `StripCount` entries that
fit exactly when the strips, as sets of rows, partition the image (`StripsRead`).
And each picture is the format's: byte `x` of the strips one after the other is
where `SourceOf` looks for it (`AddressesRead`, `PictureRead`). Concatenation is
`FlattenSeq` of the community modules, a recursive function; `Flattened` says what
determines it, by the first strip at which two such functions would differ.

**`KernelRegistryProofs`** (any callers, contexts and nesting, calls overlapping
or not, throwing or not): `RegistryTypeCorrect` and `NoLeak`. The invariant adds
that a caller about to publish has set the flag and that a published table
implies the flag. `SerializedTakesEffect` and `SerializedPublishesOnce` are the
two action properties, under the assumption that calls exclude each other
(`Serialized`); without it section 7 shows them false. `SerialInvariant` adds
that one caller at most is inside, and that the flag without the kernel means
that a caller is about to publish or that one threw.

**`LzwDecodeProofs`** (any alphabet and widths that have room for it):
`LzwTypeCorrect`, `LzwStringsUsable`, `LzwEarlyChange`, `LzwStringsBounded`.
Together they are inductive: the table's new entry is a non-empty string because
the code before and the code read are such, the width test by equality cannot be
jumped over because the table grows by one, and a new string is one byte longer
than one that was there.

Behind an encoder (`LzwStream`; any inputs, any places of its Clear codes):
`LzwWidthsAgree` and `LzwDecodesWhatWasSent`, until a code is damaged. The
invariant `InStep` relates the two tables. Either the decoder's is the encoder's
without its last entry (`OneBehind`), and that entry is the string of the code
read before followed by the first byte of what is still to be sent, which is why
the one code the decoder does not have yet (`KwKwK`) is decoded rightly; or both
tables are full and equal (`PastFull`). `LzwStreamImplementsDecode` is the
refinement: undamaged, the composition is an instance of the decoder on arbitrary
codes, so what is proved of every stream of codes holds of it.

**`TiffRewriteProofs`** (any streams, packets and width of integers):
`RewriteTypeCorrect`, `RewriteUnpacksFromStrips`, `RewriteRegionsDisjoint`,
`RewriteUnpacksWhatWasPacked`, `RewriteKeepsThePicture`. The first three follow from
`IInv`: `TypeOK`, `Progress` (what is checked at each place), `UnpackedFromStrips`,
`Layout` (the values relocated so far are aligned, follow each other and end at
`trailing`; the narrowing of an offset is its identity as long as the pixels begin
where an offset can point) and `Finished` (what the layout became in the stream that was
returned). That a strip ends exactly at its last byte needs no more than the two
range checks.

The other two follow the picture through the function, with one more invariant
for each of its parts:

- `Unpacking`: in the middle of a strip, `at` is where some number of its packets
  end, and the buffer is what the strips before and those packets stand for
  (`AtPacket`); all strips before it were whole. A packet is read as the one that
  was written because its header is where the packets before it end; a cut-off
  packet is the last one, so the strip is refused there and nowhere else. After the
  strips, the image goes on only if they hold enough bytes.
- `Restored`: while the predictor is being undone in place, the samples up to `at`
  are sums, those after it still differences (`Parts`). One step adds the sample one
  pixel to the left: in the same row the two have the same summands but the sample
  itself, and in the first column there is nothing to add (`SummandsStep`, which is
  arithmetic with remainders by the row and by the pixel).
- `Carried`: what each rebuilt entry says, `Replacement` or what the original said.

`RewriteKeepsThePicture` puts them together. From an exact compressed image
(`CompressedImage`, `ExactStrips`) follows that the rewriter refuses nothing on its
way: the directory reads the same for both decoders because its tags are unique
(`SameScalar`), and the number of strips the rewriter computes is the number that
partitions the rows. The result's directory then describes one strip with all rows
(`ProducedEntries`, `ProducedStrip`), its bytes are `raw`, and the strips one after
the other, cut to the size of the image, are the bytes of their rows, since every
strip but the last has exactly its own. Two hypotheses are about what the code
computes with: the size of the image fits in 64 bits (`SizeFits`; without it
`tiff_rewrite_wide` is a counterexample) and the result can be addressed with
32-bit offsets. Both are explicit in the property.

**`InflateProofs`** (any strips, alphabet and tables): `InflateTypeCorrect`,
`NothingAcceptedBeyond`, `InflateOutputBounded`, `InflateReturnsWhatWasDeflated`. The flag only says that some read
went past the end; that it did is visible from the position ever after
(`Reader`), and a strip is accepted only where the position has just been looked
at. `Paid` bounds the output by the fields that were read: a literal or a match
costs at least one, a match in progress has `length` bytes still to add, and a stored
block has its bytes among the fields. It holds while the strip is not refused
(`PaidUnlessFailed`): a refused stored block has made room for bytes that were never
read, once and for no more than `LongestStored` (`StoredRefusedBounded`).

`InflateReturnsWhatWasDeflated` is about any strip whose items end with the last
block, of any number of blocks. `Following` says where the decoder is: between two
items (`AtItem`), with the output, the final bit and, depending on the place, the
code lengths or the codes that the items before it mean; within a match, with its
length symbol read (`InMatch`) or with part of its bytes copied (`InCopy`); or
past the end of a strip that ends too early, or failed there (`Lost`). The strip
alone decides which: a step from an item goes on with it, comes to its end, or is
`Lost`, and that only when the item's last field is not whole (`ItemGoes`,
`MatchGoes`; one lemma for each action and kind of item). The points that need
care:

- what is read past the end, or inside the last field of a strip cut off there, is
  arbitrary: it may lead the decoder anywhere but to accept (`LostStays`);
- in a dynamic block the place after the last code length is the one before the
  first symbol, and the codes are still lengths there (`Agrees`): `SplitLengths`
  is a step between two items that reads nothing;
- a copied byte is the one `distance` back in the output, the specification's is
  the `n % distance`-th of the bytes before the match (`RepeatByte`), and that the
  output of earlier strips lies before both changes nothing, since a match of the
  items reaches no further back than its own strip;
- items that may not follow each other never come to be "done" (`AllFit`), and the
  decoder takes a zlib header exactly where one was written (`ZlibTaken`).

`MeaningIs` and `EndsAre` get the equations of the two recursive functions from
`RecursionExists` and `RecursionIs`.

**`HuffmanTreeProofs`** (any lengths and bit strings): `HuffmanTypeCorrect`,
`HuffmanSymbolHasLength`, `HuffmanDecodesCanonicalCodes`. A symbol placed in the
sorted table has the rank its length and number give it; `ArithmeticLemmas` has
the lemmas on ranks: a rank separates what comes before from what comes after, so
the slice of the table that `Decode` indexes at a length holds symbols of that
length. For the last theorem `InCode` follows the loop of `Decode`: `first` is the
canonical code of the shortest remaining symbol (`StartEquation`), `code` the value
of the bits read, and none of the shorter prefixes was a code. Nothing is asked
of the lengths: for a list that overflows its code, what is said is that no two
symbols with a code have the same one and that the decoder finds the shortest.
The definitions are recursive functions over a length; `Induction` and
`RecursionExists` in `ArithmeticLemmas` state induction and recursion up to a
bound with sets, where the provers can use them.

**`ImageKernelProofs`** (any number of threads, any inputs and image sizes, any
`SizeMax`, `IntMax` and stream no larger than `SizeMax`): `TypeCorrect`,
`OneHandle`, `OnlyUsable`, `ObjectsExist`, `RowsFit`, `ShapeMatches`,
`EmptyWithout`, `LoadStays`. `KernelInv` says of each thread which format its
place belongs to, that what it calls is usable, which objects are alive at each
place, which sizes were checked and that the picture it holds has them; of each
library, that at most one thread loads it and then its static is `loading`. A
step that leaves the libraries alone needs one thread's part only (`OwnStep`);
the three loading steps share `LoadStep`. `TypeCorrect` includes that no sequence
of callbacks moves past the end of the stream, so `size - pos` never wraps.

## 7. Where the code and its documentation disagree

| Run | Code | Documentation |
|---|---|---|
| `registry_race` | register_image_kernels.cc:103 sets the plain static before the table is written: another thread's call returns before the kernel is there | register_image_kernels.h:48, calling more than once "is safe" |
| `registry_retry` | when `RegisterKernelFn` throws the flag stays set: calling again returns without registering | the same line |
| `tiff_rewrite_padded` | tiff_compression.cc:660 appends whatever a strip decompresses to: padding before the last strip shifts the rows after it, where `TryDecodeTiff` reads each strip at its own offset | tiff_compression.h:16, an "equivalent" uncompressed TIFF |
| `source_build` | setup.py:133 compares headers and imported package only when the headers come from PYTHONPATH: with a configured directory or a sibling checkout the libraries of another onnx-light are linked | README.md:101, the option "rejects mixed installations" |
| `tiff_rewrite_wide` | tiff_compression.cc:647 multiplies three 32-bit numbers in 64 bits, which wraps: the stream is rewritten without the data of its image, and `TryDecodeTiff` refuses the result | tiff_compression.cc:645, "cannot overflow" |

From Python both registry cases need a free-threaded interpreter or an
exception of the table; with the GIL, `registry` holds.

## 8. Only checked, and not modelled

Only model-checked: liveness (`Answered`, `EveryRunEnds`, `RewriteEnds`), since the
proof system does not handle fairness. Every invariant and action property of the
passing runs is a theorem.

Not modelled:

- sample values: the luma formula, clamping, shifting to 8 bits;
- the packing of fields into bytes, in both bit orders: a field is read as one
  value;
- the size of the decompressed buffer against the image's: the strips are
  decompressed to their end first. What is proved is how much a field of Deflate
  or a code of LZW adds at most, and the one announced length that a refused Deflate
  strip adds besides (`OutputBounded`, `StringsBounded`). Exceptions
  of allocations are modelled in `TiffDecode` and `ImageKernel` as a call that
  throws;
- what a rewritten stream says once its pixels begin beyond the last place a 32-bit
  offset can hold: the code writes the low 32 bits of the places (`Write`,
  tiff_compression.cc:756 and 766), and entries that share a value in the input get
  a copy each. `RegionsDisjoint` holds up to that place and says nothing beyond it;
- onnx-light: its own decoder is one step that publishes a consistent picture or
  throws, `ParallelFor` gives disjoint ranges and returns when they are done,
  the dispatch table resolves as this code relies on;
- the Python package (a version and an import), the CMake files and the rest of
  `setup.py` (commands and flags), `tools/onnx_light_version.py`, the documentation extensions, and the
  fuzz harnesses, whose own code is a driver. `fuzz_image_decoder.cc:40` constructs
  onnx-light's `ImageDecoder` itself, although line 5 speaks of the kernel this
  package registers.
