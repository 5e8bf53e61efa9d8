-------------------------- MODULE TiffRewriteProofs --------------------------
(***************************************************************************)
(* The rewriter of compressed TIFFs stays well typed, decompresses PackBits*)
(* strips from their own bytes only, and gives the parts of the stream it  *)
(* writes places of their own, for every stream and every width of the     *)
(* integers.                                                               *)
(*                                                                         *)
(* None of it is inductive alone.  Progress says what has been checked at  *)
(* each place of the function; Layout says of the values relocated so far  *)
(* that they follow each other between the directory and what is trailing  *)
(* now, as long as 32 bits can say where; Finished says what the rewritten *)
(* stream is made of.                                                      *)
(*                                                                         *)
(* Three more invariants follow the picture through the function.          *)
(* Unpacking: what has been unpacked at each packet of each strip.         *)
(* Restored: which samples have been added up where the predictor is being *)
(* undone.  Carried: what the rebuilt entries say.  Together they say that *)
(* the decoder reads the original picture from the rewritten stream.       *)
(***************************************************************************)
EXTENDS TiffEquivalence, SequenceTheorems, ArithmeticLemmas

Progress ==
  /\ pc \in {"header", "tags"} => raw = <<>> /\ strip = 1 /\ at = 0
  /\ pc \in {"strips", "undo", "rebuild"} => Rewritable
  /\ pc = "strips" => strip <= Len(Offsets) + 1 /\ (strip = Len(Offsets) + 1 => at = 0)
  /\ pc = "undo" => at <= Len(raw)

Even(n) == n % 2 = 0

\* In a directory ending at end, followed by n bytes of values: the values that
\* are not inline have places of their own among them, in the order of the entries.
LaidOut(entries, end, n) ==
  end + WordAligned(n) <= MaxU32 =>
    \A k \in 1..Len(entries) : ~Inline(entries[k]) =>
      /\ Even(entries[k].at) /\ entries[k].at >= end
      /\ entries[k].at + ValueBytes(entries[k]) <= end + n
      /\ \A j \in 1..(k - 1) : ~Inline(entries[j]) =>
           entries[j].at + ValueBytes(entries[j]) <= entries[k].at

Layout == LaidOut(rebuilt, DirectoryEnd, trailing)

Finished ==
  answer = "rewritten" =>
    /\ pc = "done"
    /\ out.pixelsAt = DirectoryEnd + NextPlace
    /\ out.size = out.pixelsAt + Len(raw)
    /\ out.entries = Patched(out.pixelsAt)

IInv == TypeOK /\ Progress /\ UnpackedFromStrips /\ Layout /\ Finished

-----------------------------------------------------------------------------
(* What a stream and its directory hold.                                   *)

\* The parts of a stream have the types of the file format.
LEMMA FileType ==
  ASSUME file \in Files
  PROVE  /\ file.size \in Nat /\ file.ifd \in U32 /\ file.entries \in Seq(Entries)
         /\ \A o \in DOMAIN file.yield : o \in Nat /\ file.yield[o] \in Nat
         /\ \A a \in DOMAIN file.bytes : file.bytes[a] \in 0..(2 * Half - 1)
<1>1. /\ file.size \in Nat /\ file.ifd \in U32 /\ file.entries \in Seq(Entries)
      /\ file.yield \in [DOMAIN file.yield -> Nat] /\ DOMAIN file.yield \subseteq Nat
      /\ file.bytes \in [DOMAIN file.bytes -> 0..(2 * Half - 1)]
  BY FilesAssumption
<1> QED
  BY <1>1

\* An entry's values take a number of bytes.
LEMMA EntryType ==
  ASSUME NEW e \in Entries
  PROVE  /\ e.at \in Nat /\ e.at <= MaxU32 /\ e.vals \in Seq(U32)
         /\ e.tag \in Tags /\ e.type \in Types
         /\ ValueBytes(e) \in Nat
<1>1. e.at \in U32 /\ e.vals \in Seq(U32) /\ e.tag \in Tags /\ e.type \in Types
  BY DEF Entries
<1>2. TypeSize(e.type) \in Nat
  BY DEF TypeSize
<1>3. Len(e.vals) \in Nat
  BY <1>1
<1>4. ValueBytes(e) \in Nat
  BY <1>2, <1>3 DEF ValueBytes
<1> QED
  BY <1>1, <1>4, MaxU32Assumption DEF U32

\* The first entry of a tag is an entry of the directory.
LEMMA FindType ==
  ASSUME file \in Files, NEW tag, Has(tag)
  PROVE  Find(tag) \in Entries
<1>1. file.entries \in Seq(Entries)
  BY FileType
<1>2. Positions(tag) \in SUBSET (1..Len(file.entries)) /\ Len(file.entries) \in Nat
  BY <1>1 DEF Positions
<1>3. \E k \in Positions(tag) : \A j \in Positions(tag) : k <= j
  BY <1>2, Smallest DEF Has
<1>4. PICK k \in 1..Len(file.entries) : Find(tag) = file.entries[k]
  BY <1>2, <1>3 DEF Find
<1> QED
  BY <1>1, <1>4
\* What a tag's entry says is a 32-bit number, and so is the default.
LEMMA ScalarType ==
  ASSUME file \in Files, NEW tag, NEW default \in U32
  PROVE  ReadScalar(tag, default) \in U32
<1>1. CASE Has(tag) /\ IntArray(Find(tag)) /\ Find(tag).vals # <<>>
  <2>1. Find(tag).vals \in Seq(U32)
    BY <1>1, FindType, EntryType
  <2>2. 1 \in 1..Len(Find(tag).vals)
    BY <1>1, <2>1
  <2>3. Find(tag).vals[1] \in U32
    BY <2>1, <2>2
  <2> QED
    BY <1>1, <2>3 DEF ReadScalar
<1>2. CASE ~(Has(tag) /\ IntArray(Find(tag)) /\ Find(tag).vals # <<>>)
  BY <1>2 DEF ReadScalar
<1> QED
  BY <1>1, <1>2

\* What CheckTags establishes of the tags the rest of the function reads.
LEMMA RewritableFacts ==
  ASSUME file \in Files, Rewritable
  PROVE  /\ Width \in Nat \ {0} /\ Height \in U32 /\ Height \in Nat \ {0}
         /\ Samples \in Nat \ {0}
         /\ Len(Offsets) \in Nat /\ Len(Offsets) = Len(Counts)
         /\ \A k \in 1..Len(Offsets) : Offsets[k] \in Nat /\ Counts[k] \in Nat
         /\ RowBytes \in Nat \ {0}
<1>1. 0 \in U32 /\ 1 \in U32 /\ U32 \subseteq Nat
  BY MaxU32Assumption DEF U32
<1>2. Width \in U32 /\ Height \in U32 /\ Samples \in U32
  BY <1>1, ScalarType DEF Width, Height, Samples
<1>3. Width # 0 /\ Height # 0 /\ Samples # 0 /\ Len(Offsets) = Len(Counts)
      /\ Has("StripOffsets") /\ Has("StripByteCounts")
  BY DEF Rewritable
<1>4. Offsets \in Seq(U32) /\ Counts \in Seq(U32)
  BY <1>3, FindType, EntryType DEF Offsets, Counts
<1>5. /\ Len(Offsets) \in Nat
      /\ \A k \in 1..Len(Offsets) : Offsets[k] \in Nat /\ Counts[k] \in Nat
  <2>1. ASSUME NEW k \in 1..Len(Offsets) PROVE Offsets[k] \in U32
    BY <1>4
  <2>2. ASSUME NEW k \in 1..Len(Counts) PROVE Counts[k] \in U32
    BY <1>4
  <2>3. Len(Offsets) \in Nat
    BY <1>4
  <2>4. ASSUME NEW k \in 1..Len(Offsets) PROVE Offsets[k] \in Nat /\ Counts[k] \in Nat
    BY <1>1, <1>3, <2>1, <2>2
  <2> QED
    BY <2>3, <2>4
<1>6. PICK w \in Nat \ {0}, n \in Nat \ {0} : w = Width /\ n = Samples
  BY <1>1, <1>2, <1>3
<1>7. w * n \in Nat \ {0}
  BY <1>6, MulMono
<1> QED
  BY <1>1, <1>2, <1>3, <1>5, <1>6, <1>7 DEF RowBytes

\* The place of the directory's end, and even places.
LEMMA Aligned ==
  ASSUME file \in Files, trailing \in Nat
  PROVE  /\ DirectoryEnd \in Nat /\ Even(DirectoryEnd)
         /\ NextPlace \in Nat /\ NextPlace >= trailing
         /\ Even(DirectoryEnd + NextPlace) /\ DirectoryEnd + NextPlace \in Nat
<1>1. PICK n \in Nat : n = Len(file.entries)
  BY FileType
<1>2. DirectoryEnd = 14 + 12 * n
  BY <1>1 DEF DirectoryEnd
<1>3. (14 + 12 * n) % 2 = 0 /\ 14 + 12 * n \in Nat
  OBVIOUS
<1>4. NextPlace = trailing + (trailing % 2) /\ trailing % 2 \in 0..1
  BY DEF NextPlace, WordAligned
<1>5. (trailing + (trailing % 2)) % 2 = 0
  OBVIOUS
<1>6. NextPlace \in Nat /\ NextPlace >= trailing /\ NextPlace % 2 = 0
  BY <1>4, <1>5
<1>7. \A a, b \in Nat : a % 2 = 0 /\ b % 2 = 0 => (a + b) % 2 = 0
  OBVIOUS
<1> QED
  BY <1>2, <1>3, <1>6, <1>7 DEF Even

-----------------------------------------------------------------------------
(* The invariant at the start, and over parts of a step.                   *)

LEMMA InitIInv == Init => IInv
<1> SUFFICES ASSUME Init PROVE IInv
  OBVIOUS
<1>1. file \in Files /\ file.entries \in Seq(Entries)
  BY FileType DEF Init
<1>2. 1 \in 1..(Len(file.entries) + 1)
  BY <1>1
<1>3. raw = <<>> /\ raw \in Seq(SUBSET (Nat \X Nat))
  BY DEF Init
<1>4. rebuilt = <<>> /\ rebuilt \in Seq(Entries) /\ Len(rebuilt) = 0
  BY DEF Init
<1>5. TypeOK
  BY <1>1, <1>2, <1>3, <1>4 DEF Init, TypeOK
<1>6. Progress
  BY <1>3 DEF Init, Progress
<1>7. Layout
  BY <1>4 DEF Layout, LaidOut
<1> QED
  BY <1>5, <1>6, <1>7 DEF Init, IInv, UnpackedFromStrips, Finished

\* What is read from the stream only depends on the stream.
LEMMA SameFile ==
  ASSUME file' = file
  PROVE  /\ Offsets' = Offsets /\ Counts' = Counts /\ Compression' = Compression
         /\ Rewritable' = Rewritable /\ DirectoryEnd' = DirectoryEnd
BY DEF Offsets, Counts, Compression, Rewritable, DirectoryEnd, Find, Positions, ReadScalar,
       Has, IntArray, ValuesInside, Width, Height, Samples, Predictor

\* The part of the invariant about the new stream.
Building ==
  /\ entry \in 1..(Len(file.entries) + 1)
  /\ rebuilt \in Seq(Entries) /\ Len(rebuilt) = entry - 1
  /\ trailing \in Nat
  /\ out # Untouched => out.entries \in Seq(Entries) /\ out.size \in Nat
  /\ answer \in {"none", "refused", "rewritten"}
  /\ Layout
  /\ Finished

\* The part about reading the old one.
Taking ==
  /\ file \in Files
  /\ pc \in {"header", "tags", "strips", "undo", "rebuild", "done"}
  /\ strip \in Nat \ {0} /\ at \in Nat
  /\ raw \in Seq(SUBSET (Nat \X Nat))
  /\ Progress
  /\ UnpackedFromStrips

LEMMA TwoParts == IInv <=> Taking /\ Building
BY DEF IInv, TypeOK, Taking, Building

LEMMA TwoPartsNext == Taking' /\ Building' => IInv'
BY DEF IInv, TypeOK, Taking, Building

\* A step that only reads.
LEMMA BuildingKept ==
  ASSUME IInv, pc # "done", UNCHANGED <<file, entry, rebuilt, trailing, out, answer>>
  PROVE  Building'
<1>1. Building /\ DirectoryEnd' = DirectoryEnd
  BY TwoParts, SameFile
<1>2. Layout'
  BY <1>1 DEF Building, Layout
<1>3. answer' # "rewritten"
  BY <1>1 DEF Building, Finished
<1>4. Finished'
  BY <1>3 DEF Finished
<1> QED
  BY <1>1, <1>2, <1>4 DEF Building

\* A step that gives up.
LEMMA RefuseKeeps == ASSUME IInv, Refuse, file' = file PROVE IInv'
<1>1. Building /\ Taking /\ DirectoryEnd' = DirectoryEnd
  BY TwoParts, SameFile
<1>2. Layout'
  BY <1>1 DEF Refuse, Building, Layout
<1>3. Finished'
  BY DEF Refuse, Finished
<1>4. Building'
  BY <1>1, <1>2, <1>3 DEF Refuse, Building
<1>5. Taking'
  BY <1>1 DEF Refuse, Taking, Progress, UnpackedFromStrips
<1> QED
  BY <1>4, <1>5, TwoPartsNext

-----------------------------------------------------------------------------
(* Reading the stream.                                                     *)

LEMMA CheckHeaderKeeps == ASSUME IInv, CheckHeader PROVE IInv'
<1>1. CASE HeaderInside /\ Advance("tags")
  <2>1. Building'
    BY <1>1, BuildingKept DEF CheckHeader, Advance
  <2>2. Taking /\ pc = "header" /\ file' = file
    BY TwoParts DEF CheckHeader
  <2>3. Taking'
    BY <1>1, <2>2 DEF Advance, Taking, Progress, UnpackedFromStrips
  <2> QED
    BY <2>1, <2>3, TwoPartsNext
<1>2. CASE ~HeaderInside /\ Refuse
  BY <1>2, RefuseKeeps DEF CheckHeader
<1> QED
  BY <1>1, <1>2 DEF CheckHeader

LEMMA CheckTagsKeeps == ASSUME IInv, CheckTags PROVE IInv'
<1>1. CASE Rewritable /\ Advance("strips")
  <2>1. Building'
    BY <1>1, BuildingKept DEF CheckTags, Advance
  <2>2. Taking /\ pc = "tags" /\ file' = file
    BY TwoParts DEF CheckTags
  <2>3. raw = <<>> /\ strip = 1 /\ at = 0
    BY <2>2 DEF Taking, Progress
  <2>4. /\ Len(Offsets) \in Nat
        /\ \A k \in 1..Len(Offsets) : Counts[k] \in Nat
    BY <1>1, <2>2, RewritableFacts DEF Taking
  <2>5. /\ Offsets' = Offsets /\ Counts' = Counts /\ Rewritable' = Rewritable
        /\ raw' = raw /\ strip' = strip /\ at' = at /\ pc' = "strips"
    BY <1>1, <2>2, SameFile DEF Advance
  <2>6. Progress'
    BY <1>1, <2>3, <2>4, <2>5 DEF Progress
  <2>7. UnpackedFromStrips'
    BY <2>3, <2>4, <2>5 DEF UnpackedFromStrips
  <2>8. Taking'
    BY <2>2, <2>5, <2>6, <2>7 DEF Taking
  <2> QED
    BY <2>1, <2>8, TwoPartsNext
<1>2. CASE ~Rewritable /\ Refuse
  BY <1>2, RefuseKeeps DEF CheckTags
<1> QED
  BY <1>1, <1>2 DEF CheckTags

\* Bytes of the current strip are added to the buffer, and the reader goes on in
\* the strip or to the next one.
LEMMA AddedBytes ==
  ASSUME IInv, pc = "strips", strip <= Len(Offsets), Compression = PackBits, StripInside,
         NEW n \in Nat,
         NEW bytes \in [1..n -> SUBSET ((Offsets[strip]..(Offsets[strip] + Counts[strip] - 1)) \X {0})],
         AddBytes(bytes), file' = file,
         strip' \in {strip, strip + 1}, at' \in Nat,
         strip' = strip => at' <= Counts[strip],
         strip' = strip + 1 => at' = 0
  PROVE  IInv'
<1> DEFINE own(s) == (Offsets[s]..(Offsets[s] + Counts[s] - 1)) \X {0}
           inside(s) == s <= Len(Offsets) /\ Offsets[s] + Counts[s] <= file.size
<1>1. Taking /\ Rewritable
  BY TwoParts DEF Taking, Progress
<1>2. /\ Len(Offsets) \in Nat
      /\ \A k \in 1..Len(Offsets) : Offsets[k] \in Nat /\ Counts[k] \in Nat
  BY <1>1, RewritableFacts DEF Taking
<1>3. strip \in 1..Len(Offsets) /\ strip' \in Nat \ {0}
  BY <1>1, <1>2 DEF Taking
<1>4. /\ Offsets' = Offsets /\ Counts' = Counts /\ Rewritable' = Rewritable
      /\ Compression' = Compression
      /\ raw' = raw \o bytes /\ pc' = "strips"
  BY SameFile DEF AddBytes
<1>5. Building'
  BY BuildingKept DEF AddBytes
<1>6. Progress'
  BY <1>1, <1>2, <1>3, <1>4 DEF Progress
<1>7. \A b \in DOMAIN raw : \E s \in 1..strip : inside(s) /\ raw[b] \subseteq own(s)
  BY <1>1 DEF Taking, UnpackedFromStrips
<1>8. own(strip) \subseteq Nat \X Nat
  <2>1. Offsets[strip] \in Nat /\ Counts[strip] \in Nat
    BY <1>2, <1>3
  <2>2. (Offsets[strip]..(Offsets[strip] + Counts[strip] - 1)) \subseteq Nat
    BY <2>1
  <2> QED
    BY <2>2
<1>9. bytes \in Seq(SUBSET (Nat \X Nat)) /\ Len(bytes) = n
  BY <1>8
<1>10. raw \in Seq(SUBSET (Nat \X Nat))
  BY <1>1 DEF Taking
<1>11. /\ raw \o bytes \in Seq(SUBSET (Nat \X Nat))
       /\ DOMAIN (raw \o bytes) = 1..(Len(raw) + n)
       /\ \A b \in 1..(Len(raw) + n) :
            (raw \o bytes)[b] = IF b <= Len(raw) THEN raw[b] ELSE bytes[b - Len(raw)]
  BY <1>9, <1>10
<1>12. ASSUME NEW b \in DOMAIN (raw \o bytes)
       PROVE  \E s \in 1..strip : inside(s) /\ (raw \o bytes)[b] \subseteq own(s)
  <2>1. CASE b \in DOMAIN raw
    <3>1. (raw \o bytes)[b] = raw[b]
      BY <1>10, <1>11, <2>1
    <3> QED
      BY <1>7, <2>1, <3>1
  <2>2. CASE b \notin DOMAIN raw
    <3>1. b - Len(raw) \in 1..n /\ (raw \o bytes)[b] = bytes[b - Len(raw)]
      BY <1>10, <1>11, <2>2
    <3>2. (raw \o bytes)[b] \subseteq own(strip)
      BY <3>1
    <3>3. strip \in 1..strip /\ inside(strip)
      BY <1>3 DEF StripInside
    <3> QED
      BY <3>2, <3>3
  <2> QED
    BY <2>1, <2>2
<1>13. \A s \in 1..strip : s \in 1..strip'
  BY <1>2, <1>3
<1>14. UnpackedFromStrips'
  <2>1. strip' <= Len(Offsets') => at' <= Counts'[strip']
    <3>1. CASE strip' = strip
      BY <1>4, <3>1
    <3>2. CASE strip' = strip + 1
      <4>1. strip' <= Len(Offsets) => Counts[strip'] \in Nat
        BY <1>2, <1>3
      <4> QED
        BY <1>4, <3>2, <4>1
    <3> QED
      BY <3>1, <3>2
  <2>2. \A b \in DOMAIN raw' : \E s \in 1..strip' : inside(s) /\ raw'[b] \subseteq own(s)
    BY <1>4, <1>12, <1>13
  <2> QED
    BY <1>4, <2>1, <2>2 DEF UnpackedFromStrips
<1>15. Taking'
  BY <1>1, <1>3, <1>4, <1>6, <1>11, <1>14 DEF Taking
<1> QED
  BY <1>5, <1>15, TwoPartsNext

\* A header is a signed byte.
LEMMA HeaderType ==
  ASSUME file \in Files
  PROVE  Half \in Nat \ {0} /\ Header \in Int /\ Header >= -Half /\ Header < Half
<1>1. \A a \in DOMAIN file.bytes : file.bytes[a] \in 0..(2 * Half - 1)
  BY FileType
<1>2. 0 \in 0..(2 * Half - 1) /\ Half \in Nat \ {0}
  BY HalfAssumption
<1>3. ByteAt(at) \in 0..(2 * Half - 1)
  BY <1>1, <1>2, Zenon DEF ByteAt
<1> QED
  BY <1>2, <1>3 DEF Header, Signed

LEMMA ReadPacketKeeps == ASSUME IInv, ReadPacket PROVE IInv'
<1>1. Taking /\ Rewritable /\ file' = file /\ pc = "strips"
  BY TwoParts DEF ReadPacket, Taking, Progress
<1>2. strip \in 1..Len(Offsets) /\ Offsets[strip] \in Nat /\ Counts[strip] \in Nat
  <2>1. /\ Len(Offsets) \in Nat
        /\ \A k \in 1..Len(Offsets) : Offsets[k] \in Nat /\ Counts[k] \in Nat
    BY <1>1, RewritableFacts DEF Taking
  <2>2. strip \in 1..Len(Offsets)
    BY <1>1, <2>1 DEF ReadPacket, Taking
  <2> QED
    BY <2>1, <2>2
<1>3. PICK first \in Nat, count \in Nat : first = Offsets[strip] /\ count = Counts[strip]
  BY <1>2
<1>4. at \in Nat /\ at < count
  BY <1>1, <1>3 DEF Taking, ReadPacket
<1>5. PICK h \in Int : h = Header /\ h >= -Half /\ h < Half
  BY <1>1, HeaderType DEF Taking
<1>6. ASSUME NEW read \in Nat, read < count
      PROVE  FromStrip(read) \in SUBSET ((first..(first + count - 1)) \X {0})
  BY <1>3, <1>6 DEF FromStrip
<1>7. ASSUME NEW n \in Nat,
             NEW bytes \in [1..n -> SUBSET ((first..(first + count - 1)) \X {0})],
             AddBytes(bytes), strip' = strip, at' \in Nat, at' <= count
      PROVE  IInv'
  <2>1. strip' # strip + 1
    BY <1>2, <1>7
  <2> QED
    BY <1>1, <1>2, <1>3, <1>7, <2>1, AddedBytes DEF ReadPacket
<1>8. CASE Literal(h) /\ strip' = strip
  <2> DEFINE bytes == [k \in 1..(h + 1) |-> FromStrip(at + k)]
  <2>1. h >= 0 /\ at + 1 + h + 1 <= count /\ at' = at + 1 + h + 1 /\ AddBytes(bytes)
    BY <1>3, <1>8 DEF Literal, LiteralFits
  <2>2. ASSUME NEW k \in 1..(h + 1)
        PROVE  FromStrip(at + k) \in SUBSET ((first..(first + count - 1)) \X {0})
    <3>1. at + k \in Nat /\ at + k < count
      BY <1>4, <2>1
    <3> QED
      BY <1>6, <3>1
  <2>3. bytes \in [1..(h + 1) -> SUBSET ((first..(first + count - 1)) \X {0})]
    BY <2>2
  <2>4. h + 1 \in Nat /\ at' \in Nat /\ at' <= count
    BY <1>4, <2>1
  <2> HIDE DEF bytes
  <2> QED
    BY <1>7, <1>8, <2>1, <2>3, <2>4
<1>9. CASE Repeat(h) /\ strip' = strip
  <2> DEFINE bytes == [k \in 1..(1 - h) |-> FromStrip(at + 1)]
  <2>1. h < 0 /\ at + 1 < count /\ at' = at + 2 /\ AddBytes(bytes)
    BY <1>3, <1>9 DEF Repeat, IsRepeat
  <2>2. FromStrip(at + 1) \in SUBSET ((first..(first + count - 1)) \X {0})
    BY <1>4, <1>6, <2>1
  <2>3. bytes \in [1..(1 - h) -> SUBSET ((first..(first + count - 1)) \X {0})]
    BY <2>2
  <2>4. 1 - h \in Nat /\ at' \in Nat /\ at' <= count
    BY <1>4, <2>1
  <2> HIDE DEF bytes
  <2> QED
    BY <1>7, <1>9, <2>1, <2>3, <2>4
<1>10. CASE NoOp(h) /\ strip' = strip
  <2>1. AddBytes(<<>>) /\ at' = at + 1
    BY <1>10 DEF NoOp, NoOpEnd
  <2>2. 0 \in Nat /\ <<>> \in [1..0 -> SUBSET ((first..(first + count - 1)) \X {0})]
    OBVIOUS
  <2>3. at' \in Nat /\ at' <= count
    BY <1>4, <2>1
  <2> QED
    BY <1>7, <1>10, <2>1, <2>2, <2>3
<1>11. CASE Truncated(h) /\ Refuse
  BY <1>1, <1>11, RefuseKeeps
<1> QED
  BY <1>5, <1>8, <1>9, <1>10, <1>11 DEF ReadPacket

\* A whole strip is added, or the last of a PackBits strip has been.
LEMMA EndStripKeeps == ASSUME IInv, EndStrip PROVE IInv'
<1>1. Taking /\ Rewritable /\ file' = file /\ pc = "strips"
  BY TwoParts DEF EndStrip, Taking, Progress
<1>2. /\ Len(Offsets) \in Nat
      /\ \A k \in 1..Len(Offsets) : Offsets[k] \in Nat /\ Counts[k] \in Nat
  BY <1>1, RewritableFacts DEF Taking
<1>3. strip \in 1..Len(Offsets) /\ strip \in Nat
  BY <1>1, <1>2 DEF EndStrip, Taking
<1>4. CASE StripInside /\ Decompressed /\ strip' = strip + 1 /\ at' = 0
  <2>1. PICK o \in Nat, y \in Nat : o = Offsets[strip] /\ y = file.yield[o]
    <3>1. Offsets[strip] \in DOMAIN file.yield
      BY <1>4 DEF Decompressed
    <3>2. \A a \in DOMAIN file.yield : a \in Nat /\ file.yield[a] \in Nat
      BY <1>1, FileType DEF Taking
    <3> QED
      BY <3>1, <3>2
  <2> DEFINE bytes == [k \in 1..y |-> {<<o, k>>}]
  <2>2. bytes \in Seq(SUBSET (Nat \X Nat))
    <3>1. \A k \in 1..y : {<<o, k>>} \in SUBSET (Nat \X Nat)
      BY <2>1
    <3> QED
      BY <2>1, <3>1
  <2>3. AddBytes(bytes) /\ Compression # PackBits
    BY <1>4, <2>1 DEF Decompressed
  <2> HIDE DEF bytes
  <2>4. /\ raw' = raw \o bytes /\ pc' = "strips" /\ Compression' = Compression
        /\ Rewritable' = Rewritable /\ Offsets' = Offsets
    BY <1>1, <2>3, SameFile DEF AddBytes
  <2>5. raw' \in Seq(SUBSET (Nat \X Nat))
    <3>1. raw \in Seq(SUBSET (Nat \X Nat))
      BY <1>1 DEF Taking
    <3> QED
      BY <2>2, <2>4, <3>1
  <2>6. Progress'
    BY <1>1, <1>2, <1>3, <1>4, <2>4 DEF Progress
  <2>7. UnpackedFromStrips' /\ strip' \in Nat \ {0} /\ at' \in Nat
    BY <1>3, <1>4, <2>3, <2>4 DEF UnpackedFromStrips
  <2>8. Taking'
    BY <1>1, <2>4, <2>5, <2>6, <2>7 DEF Taking
  <2>9. Building'
    BY <1>1, <2>3, BuildingKept DEF AddBytes
  <2> QED
    BY <2>8, <2>9, TwoPartsNext
<1>5. CASE StripInside /\ EndPackBits /\ strip' = strip + 1 /\ at' = 0
  <2>1. Compression = PackBits /\ AddBytes(<<>>) /\ strip <= Len(Offsets)
    BY <1>5 DEF EndPackBits, EndStrip
  <2>2. /\ 0 \in Nat
        /\ <<>> \in [1..0 -> SUBSET ((Offsets[strip]..(Offsets[strip] + Counts[strip] - 1)) \X {0})]
    OBVIOUS
  <2>3. strip' \in {strip, strip + 1} /\ at' \in Nat /\ strip' # strip
    BY <1>3, <1>5
  <2> QED
    BY <1>1, <1>5, <2>1, <2>2, <2>3, AddedBytes
<1>6. CASE Undecodable /\ Refuse
  BY <1>1, <1>6, RefuseKeeps
<1> QED
  BY <1>4, <1>5, <1>6 DEF EndStrip

-----------------------------------------------------------------------------
(* The pixels.                                                             *)

\* A step to a part of the function where the strips are all decompressed.
LEMMA PixelStep ==
  ASSUME IInv, pc \in {"strips", "undo"}, pc' \in {"undo", "rebuild"}, at' \in Nat,
         pc' = "undo" => at' <= Len(raw'),
         raw' \in Seq(SUBSET (Nat \X Nat)),
         UNCHANGED <<file, strip, entry, rebuilt, trailing, out, answer>>
  PROVE  IInv'
<1>1. Taking /\ Rewritable /\ Rewritable' = Rewritable
  BY TwoParts, SameFile DEF Taking, Progress
<1>2. Building'
  BY BuildingKept
<1>3. Progress'
  BY <1>1 DEF Progress
<1>4. Taking'
  BY <1>1, <1>3 DEF Taking, UnpackedFromStrips
<1> QED
  BY <1>2, <1>4, TwoPartsNext

LEMMA ExpectedType == ASSUME file \in Files, Rewritable PROVE Expected \in Nat
<1>1. PICK w \in Nat, t \in Nat, n \in Nat : w = Width /\ t = Height /\ n = Samples
  BY RewritableFacts
<1>2. PICK m \in Nat : m = MaxU32 + 1 /\ 1 <= m
  BY MaxU32Assumption
<1>3. MaxU64 + 1 \in Nat \ {0}
  <2>1. 1 * m <= m * m
    BY <1>2, MulMono
  <2>2. m * m \in Nat /\ m * m >= 1
    BY <1>2, <2>1
  <2> QED
    BY <1>2, <2>2 DEF MaxU64
<1>4. \A a, b \in Nat : Mul64(a, b) \in Nat
  <2>1. ASSUME NEW a \in Nat, NEW b \in Nat PROVE Mul64(a, b) \in Nat
    <3>1. PICK p \in Nat : p = a * b
      OBVIOUS
    <3>2. p % (MaxU64 + 1) \in Nat
      BY <1>3, DivMod
    <3> QED
      BY <3>1, <3>2 DEF Mul64
  <2> QED
    BY <2>1
<1> QED
  BY <1>1, <1>4 DEF Expected

LEMMA TrimToImageKeeps == ASSUME IInv, TrimToImage PROVE IInv'
<1>1. Taking /\ Rewritable /\ file' = file /\ pc = "strips" /\ at = 0
  BY TwoParts DEF TrimToImage, Taking, Progress
<1>2. PICK n \in Nat : n = Expected
  BY <1>1, ExpectedType DEF Taking
<1>3. CASE Len(raw) >= Expected /\ ~Refuse
  <2>1. raw \in Seq(SUBSET (Nat \X Nat)) /\ Len(raw) \in Nat
    BY <1>1 DEF Taking
  <2>2. raw' = SubSeq(raw, 1, n) /\ n <= Len(raw)
    BY <1>2, <1>3 DEF TrimToImage
  <2>3. raw' \in Seq(SUBSET (Nat \X Nat)) /\ Len(raw') \in Nat
    BY <2>1, <2>2
  <2>4. /\ pc' \in {"undo", "rebuild"} /\ at' = at
        /\ UNCHANGED <<file, strip, entry, rebuilt, trailing, out, answer>>
    BY <1>3 DEF TrimToImage
  <2>5. at' \in Nat /\ at' <= Len(raw')
    BY <1>1, <2>3, <2>4
  <2> QED
    BY <1>1, <2>3, <2>4, <2>5, PixelStep
<1>4. CASE Refuse
  BY <1>1, <1>4, RefuseKeeps
<1> QED
  BY <1>3, <1>4 DEF TrimToImage

LEMMA UndoByteKeeps == ASSUME IInv, UndoByte PROVE IInv'
<1>1. Taking /\ Rewritable /\ pc = "undo" /\ at < Len(raw)
  BY TwoParts DEF UndoByte, Taking, Progress
<1>2. raw \in Seq(SUBSET (Nat \X Nat)) /\ Len(raw) \in Nat /\ at \in Nat
  BY <1>1 DEF Taking
<1>3. PICK r \in Nat \ {0}, n \in Nat \ {0} : r = RowBytes /\ n = Samples
  BY <1>1, RewritableFacts DEF Taking
<1>4. at % r \in Nat /\ at % r <= at
  <2>1. PICK q \in Nat : q = at \div r
    BY <1>2, DivMod
  <2>2. at = r * q + (at % r) /\ at % r \in Nat
    BY <1>2, <2>1, DivMod
  <2>3. r * q \in Nat
    BY <2>1
  <2> QED
    BY <1>2, <2>2, <2>3
<1>5. raw' \in Seq(SUBSET (Nat \X Nat)) /\ Len(raw') = Len(raw)
  <2>1. CASE Differenced
    <3>1. at % r >= n
      BY <1>3, <2>1 DEF Differenced
    <3>2. at + 1 \in 1..Len(raw) /\ at + 1 - n \in 1..Len(raw)
      BY <1>1, <1>2, <1>3, <1>4, <3>1
    <3>3. PICK b \in SUBSET (Nat \X Nat) : b = raw[at + 1] \cup raw[at + 1 - n]
      <4>1. raw[at + 1] \in SUBSET (Nat \X Nat) /\ raw[at + 1 - n] \in SUBSET (Nat \X Nat)
        BY <1>2, <3>2
      <4> QED
        BY <4>1
    <3>4. raw' = [raw EXCEPT ![at + 1] = b]
      BY <1>3, <2>1, <3>3 DEF UndoByte
    <3> QED
      BY <1>2, <3>2, <3>4
  <2>2. CASE ~Differenced
    BY <1>2, <2>2 DEF UndoByte
  <2> QED
    BY <2>1, <2>2
<1>6. at' \in Nat /\ at' <= Len(raw')
  BY <1>1, <1>2, <1>5 DEF UndoByte
<1> QED
  BY <1>1, <1>5, <1>6, PixelStep DEF UndoByte

LEMMA UndoEndKeeps == ASSUME IInv, UndoEnd PROVE IInv'
<1>1. Taking
  BY TwoParts
<1> QED
  BY <1>1, PixelStep DEF UndoEnd, Advance, Taking

-----------------------------------------------------------------------------
(* The new directory.                                                      *)

\* The entries that the function makes itself hold their value.
LEMMA OwnType ==
  ASSUME NEW tag \in Tags, NEW type \in {"SHORT", "LONG"}, NEW value \in U32
  PROVE  Own(tag, type, value) \in Entries /\ Inline(Own(tag, type, value))
<1>1. 0 \in U32
  BY MaxU32Assumption DEF U32
<1>2. <<value>> \in Seq(U32) /\ Len(<<value>>) = 1
  OBVIOUS
<1>3. Own(tag, type, value) \in Entries
  <2>1. PICK vals \in Seq(U32) : vals = <<value>>
    BY <1>2
  <2>2. type \in Types
    BY DEF Types
  <2> QED
    BY <1>1, <2>1, <2>2 DEF Own, Entries
<1>4. TypeSize(type) \in {2, 4}
  BY DEF TypeSize
<1>5. ValueBytes(Own(tag, type, value)) \in {2, 4}
  BY <1>2, <1>4 DEF ValueBytes, Own
<1> QED
  BY <1>3, <1>5 DEF Inline

LEMMA U32OfType ==
  ASSUME NEW n \in Nat
  PROVE  U32Of(n) \in U32 /\ (n <= MaxU32 => U32Of(n) = n)
<1>1. PICK m \in Nat \ {0} : m = MaxU32 + 1
  BY MaxU32Assumption
<1>2. n % m \in Nat /\ n % m < m
  BY <1>1, DivMod
<1>3. ASSUME n < m PROVE n % m = n
  BY <1>1, <1>3, DivUnique, m * 0 = 0, 0 \in Nat
<1> QED
  BY <1>1, <1>2, <1>3, MaxU32Assumption DEF U32Of, U32

\* An inline entry takes nothing of the trailing bytes.
LEMMA LaidInline ==
  ASSUME NEW entries \in Seq(Entries), NEW end \in Nat, NEW n \in Nat,
         LaidOut(entries, end, n), NEW e \in Entries, Inline(e)
  PROVE  LaidOut(Append(entries, e), end, n)
<1> DEFINE more == Append(entries, e)
<1>1. Len(entries) \in Nat /\ Len(more) = Len(entries) + 1
      /\ more[Len(entries) + 1] = e
      /\ \A k \in 1..Len(entries) : more[k] = entries[k]
  OBVIOUS
<1> HIDE DEF more
<1> SUFFICES ASSUME end + WordAligned(n) <= MaxU32, NEW k \in 1..Len(more), ~Inline(more[k])
             PROVE  /\ Even(more[k].at) /\ more[k].at >= end
                    /\ more[k].at + ValueBytes(more[k]) <= end + n
                    /\ \A j \in 1..(k - 1) : ~Inline(more[j]) =>
                         more[j].at + ValueBytes(more[j]) <= more[k].at
  BY DEF LaidOut, more
<1>2. k \in 1..Len(entries) /\ more[k] = entries[k]
  BY <1>1
<1>3. \A j \in 1..(k - 1) : more[j] = entries[j]
  BY <1>1, <1>2
<1> QED
  BY <1>2, <1>3 DEF LaidOut

\* What is below a bound that 32-bit offsets reach is below it too.
LEMMA Reached ==
  ASSUME NEW end \in Nat, NEW place \in Nat, NEW v \in Nat, NEW whole \in Nat, NEW max \in Nat,
         whole >= place + v, end + whole <= max
  PROVE  end + place <= max
OBVIOUS

LEMMA Further ==
  \A c, end, n, place, v \in Nat :
    place >= n /\ c <= end + n => c <= end + (place + v) /\ c <= end + place
OBVIOUS

\* An entry whose values are put at the next even place follows the others.
LEMMA LaidNext ==
  ASSUME NEW entries \in Seq(Entries), NEW end \in Nat, NEW n \in Nat,
         LaidOut(entries, end, n), NEW e \in Entries,
         NEW place \in Nat, place = WordAligned(n), place >= n,
         NEW even \in Nat, even = end + place, Even(even), e.at = U32Of(even)
  PROVE  LaidOut(Append(entries, e), end, place + ValueBytes(e))
<1> DEFINE more == Append(entries, e)
<1>1. Len(entries) \in Nat /\ Len(more) = Len(entries) + 1
      /\ more[Len(entries) + 1] = e
      /\ \A k \in 1..Len(entries) : more[k] = entries[k]
  OBVIOUS
<1> HIDE DEF more
<1>2. PICK v \in Nat : v = ValueBytes(e)
  BY EntryType
<1>3. PICK whole \in Nat : whole = WordAligned(place + v) /\ whole >= place + v
  BY <1>2, SMTT(40) DEF WordAligned
<1> SUFFICES ASSUME end + whole <= MaxU32, NEW k \in 1..Len(more), ~Inline(more[k])
             PROVE  /\ Even(more[k].at) /\ more[k].at >= end
                    /\ more[k].at + ValueBytes(more[k]) <= end + (place + v)
                    /\ \A j \in 1..(k - 1) : ~Inline(more[j]) =>
                         more[j].at + ValueBytes(more[j]) <= more[k].at
  BY <1>2, <1>3 DEF LaidOut, more
<1>4. even <= MaxU32 /\ e.at = even
  <2>1. even <= MaxU32
    BY <1>2, <1>3, Reached, MaxU32Assumption, SMTT(40)
  <2> QED
    BY <2>1, U32OfType
<1>5. \A j \in 1..Len(entries) : ~Inline(entries[j]) =>
        /\ Even(entries[j].at) /\ entries[j].at >= end
        /\ entries[j].at + ValueBytes(entries[j]) <= end + n
        /\ \A i \in 1..(j - 1) : ~Inline(entries[i]) =>
             entries[i].at + ValueBytes(entries[i]) <= entries[j].at
  <2>1. end + WordAligned(n) <= MaxU32
    BY <1>4
  <2> QED
    BY <2>1 DEF LaidOut
<1>6. \A j \in 1..Len(entries) :
        entries[j].at \in Nat /\ ValueBytes(entries[j]) \in Nat
  <2>1. \A j \in 1..Len(entries) : entries[j] \in Entries
    OBVIOUS
  <2> QED
    BY <2>1, EntryType
<1>7. CASE k \in 1..Len(entries)
  <2>1. more[k] = entries[k] /\ \A j \in 1..(k - 1) : j \in 1..Len(entries) /\ more[j] = entries[j]
    BY <1>1, <1>7
  <2>2. PICK a \in Nat, b \in Nat : a = entries[k].at /\ b = ValueBytes(entries[k])
    BY <1>6, <1>7
  <2>3. ~Inline(entries[k])
    BY <2>1
  <2>4. a + b <= end + n
    BY <1>5, <1>7, <2>2, <2>3
  <2>5. a + b <= end + (place + v)
    BY <2>4, Further, SMTT(40)
  <2> QED
    BY <1>5, <1>7, <2>1, <2>2, <2>5
<1>8. CASE k = Len(entries) + 1
  <2>1. more[k] = e /\ \A j \in 1..(k - 1) : j \in 1..Len(entries) /\ more[j] = entries[j]
    BY <1>1, <1>8
  <2>2. Even(e.at) /\ e.at >= end /\ e.at + ValueBytes(e) <= end + (place + v)
    BY <1>2, <1>4, SMTT(40)
  <2>3. ASSUME NEW j \in 1..(k - 1), ~Inline(more[j])
        PROVE  more[j].at + ValueBytes(more[j]) <= e.at
    <3>1. entries[j].at + ValueBytes(entries[j]) <= end + n /\ more[j] = entries[j]
      BY <1>5, <2>1, <2>3
    <3>2. entries[j].at \in Nat /\ ValueBytes(entries[j]) \in Nat
      BY <1>6, <2>1
    <3>3. PICK a \in Nat, b \in Nat : a = entries[j].at /\ b = ValueBytes(entries[j])
      BY <3>2
    <3>4. a + b <= end + n
      BY <3>1, <3>3
    <3>5. a + b <= even
      BY <3>4, Further
    <3> QED
      BY <1>4, <3>1, <3>3, <3>5
  <2> QED
    BY <2>1, <2>2, <2>3
<1>9. k \in 1..Len(entries) \/ k = Len(entries) + 1
  BY <1>1
<1> QED
  BY <1>7, <1>8, <1>9

\* An entry is rebuilt, with its values among the trailing ones or not.
LEMMA OneRebuilt ==
  ASSUME IInv, pc = "rebuild", entry <= Len(file.entries),
         NEW e \in Entries, NEW n \in Nat,
         LaidOut(Append(rebuilt, e), DirectoryEnd, n),
         rebuilt' = Append(rebuilt, e), entry' = entry + 1, trailing' = n,
         UNCHANGED <<file, pc, strip, at, raw, out, answer>>
  PROVE  IInv'
<1>1. Taking /\ Building /\ Rewritable' = Rewritable /\ DirectoryEnd' = DirectoryEnd
  BY TwoParts, SameFile
<1>2. Taking'
  BY <1>1 DEF Taking, Progress, UnpackedFromStrips
<1>3. Layout'
  BY <1>1 DEF Layout
<1>4. rebuilt' \in Seq(Entries) /\ Len(rebuilt') = entry' - 1
      /\ entry' \in 1..(Len(file.entries) + 1)
  <2>1. file.entries \in Seq(Entries) /\ Len(file.entries) \in Nat
    BY <1>1, FileType DEF Taking
  <2>2. rebuilt \in Seq(Entries) /\ Len(rebuilt) = entry - 1
        /\ entry \in 1..(Len(file.entries) + 1)
    BY <1>1 DEF Building
  <2> QED
    BY <2>1, <2>2
<1>5. Finished'
  <2>1. answer' # "rewritten"
    BY <1>1 DEF Building, Finished
  <2> QED
    BY <2>1 DEF Finished
<1>6. Building'
  BY <1>1, <1>3, <1>4, <1>5 DEF Building
<1> QED
  BY <1>2, <1>6, TwoPartsNext

\* The entries that replace those about the compression and the strips.
LEMMA ReplacementType ==
  ASSUME file \in Files, Rewritable, raw \in Seq(SUBSET (Nat \X Nat)), NEW tag \in Replaced
  PROVE  Replacement(tag) \in Entries /\ Inline(Replacement(tag))
<1>1. tag \in Tags
  BY DEF Replaced, Tags, ScalarTags, ArrayTags, RewriteTags
<1>2. 0 \in U32 /\ 1 \in U32
  BY MaxU32Assumption DEF U32
<1>3. Height \in U32 /\ U32Of(Len(raw)) \in U32
  <2>1. Len(raw) \in Nat
    OBVIOUS
  <2> QED
    BY <2>1, RewritableFacts, U32OfType
<1>4. CASE tag \in {"Compression", "Predictor"}
  <2>1. Replacement(tag) = Own(tag, "SHORT", 1)
    BY <1>4 DEF Replacement
  <2> QED
    BY <1>1, <1>2, <2>1, OwnType
<1>5. CASE tag = "RowsPerStrip"
  <2>1. Replacement(tag) = Own(tag, "LONG", Height)
    BY <1>5 DEF Replacement
  <2> QED
    BY <1>1, <1>3, <2>1, OwnType
<1>6. CASE tag = "StripOffsets"
  <2>1. Replacement(tag) = Own(tag, "LONG", 0)
    BY <1>6 DEF Replacement
  <2> QED
    BY <1>1, <1>2, <2>1, OwnType
<1>7. CASE tag = "StripByteCounts"
  <2>1. Replacement(tag) = Own(tag, "LONG", U32Of(Len(raw)))
    BY <1>7 DEF Replacement
  <2> QED
    BY <1>1, <1>3, <2>1, OwnType
<1> QED
  BY <1>4, <1>5, <1>6, <1>7 DEF Replaced

LEMMA RebuildEntryKeeps == ASSUME IInv, RebuildEntry PROVE IInv'
<1>1. Taking /\ Building /\ Rewritable /\ file' = file /\ pc = "rebuild"
      /\ entry <= Len(file.entries)
  BY TwoParts DEF RebuildEntry, Write, Taking, Progress
<1>2. rebuilt \in Seq(Entries) /\ trailing \in Nat /\ LaidOut(rebuilt, DirectoryEnd, trailing)
  BY <1>1 DEF Building, Layout
<1>3. /\ DirectoryEnd \in Nat
      /\ NextPlace \in Nat /\ NextPlace >= trailing /\ NextPlace = WordAligned(trailing)
      /\ DirectoryEnd + NextPlace \in Nat /\ Even(DirectoryEnd + NextPlace)
  BY <1>1, <1>2, Aligned DEF Taking, NextPlace
<1>4. PICK e \in Entries : e = file.entries[entry]
  <2>1. file.entries \in Seq(Entries)
    BY <1>1, FileType DEF Taking
  <2>2. entry \in 1..Len(file.entries)
    BY <1>1, <2>1 DEF Building
  <2> QED
    BY <2>1, <2>2
<1>5. CASE /\ e.tag \in Replaced
           /\ rebuilt' = Append(rebuilt, Replacement(e.tag)) /\ entry' = entry + 1
           /\ UNCHANGED <<pc, strip, at, raw, trailing, out, answer>>
  <2>1. Replacement(e.tag) \in Entries /\ Inline(Replacement(e.tag))
    BY <1>1, <1>5, ReplacementType DEF Taking
  <2>2. LaidOut(Append(rebuilt, Replacement(e.tag)), DirectoryEnd, trailing)
    BY <1>2, <1>3, <2>1, LaidInline
  <2> QED
    BY <1>1, <1>2, <1>5, <2>1, <2>2, OneRebuilt
<1>6. CASE /\ Inline(e)
           /\ rebuilt' = Append(rebuilt, e) /\ entry' = entry + 1
           /\ UNCHANGED <<pc, strip, at, raw, trailing, out, answer>>
  <2>1. LaidOut(Append(rebuilt, e), DirectoryEnd, trailing)
    BY <1>2, <1>3, <1>6, LaidInline
  <2> QED
    BY <1>1, <1>2, <1>6, <2>1, OneRebuilt
<1>7. CASE /\ rebuilt' = Append(rebuilt, [e EXCEPT !.at = U32Of(DirectoryEnd + NextPlace)])
           /\ trailing' = NextPlace + ValueBytes(e) /\ entry' = entry + 1
           /\ UNCHANGED <<pc, strip, at, raw, out, answer>>
  <2>1. PICK place \in Nat, even \in Nat : place = NextPlace /\ even = DirectoryEnd + place
    BY <1>3
  <2>2. PICK moved \in Entries : moved = [e EXCEPT !.at = U32Of(even)]
    <3>1. U32Of(even) \in U32
      BY U32OfType
    <3> QED
      BY <3>1 DEF Entries
  <2>3. moved.at = U32Of(even) /\ ValueBytes(moved) = ValueBytes(e)
    BY <2>2 DEF Entries, ValueBytes
  <2>4. LaidOut(Append(rebuilt, moved), DirectoryEnd, place + ValueBytes(moved))
    BY <1>2, <1>3, <2>1, <2>3, LaidNext
  <2>5. place + ValueBytes(moved) \in Nat
    <3>1. ValueBytes(moved) \in Nat
      BY EntryType
    <3> QED
      BY <2>1, <3>1
  <2>6. rebuilt' = Append(rebuilt, moved) /\ trailing' = place + ValueBytes(moved)
    BY <1>7, <2>1, <2>2, <2>3
  <2> QED
    BY <1>1, <1>7, <2>4, <2>5, <2>6, OneRebuilt
<1>8. CASE Refuse
  BY <1>1, <1>8, RefuseKeeps
<1> QED
  BY <1>4, <1>5, <1>6, <1>7, <1>8 DEF RebuildEntry, Write

\* The entry of the pixels, when there is one, is inline, and the others are as
\* they were rebuilt.
LEMMA PatchedType ==
  ASSUME rebuilt \in Seq(Entries), NEW place \in Nat
  PROVE  /\ Patched(place) \in Seq(Entries) /\ DOMAIN Patched(place) = 1..Len(rebuilt)
         /\ \A k \in 1..Len(rebuilt) :
              ~Inline(Patched(place)[k]) => Patched(place)[k] = rebuilt[k]
<1>1. "StripOffsets" \in Tags /\ "LONG" \in {"SHORT", "LONG"}
  BY DEF Tags, ArrayTags
<1>2. PICK own \in Entries : own = Own("StripOffsets", "LONG", U32Of(place)) /\ Inline(own)
  BY <1>1, U32OfType, OwnType
<1>3. PICK n \in Nat : n = Len(rebuilt) /\ DOMAIN rebuilt = 1..n
  OBVIOUS
<1>4. \A k \in 1..n : rebuilt[k] \in Entries
  BY <1>3
<1>5. Patched(place) =
        [k \in 1..n |->
           IF k \in Positions("StripOffsets") /\ \A j \in Positions("StripOffsets") : k <= j
           THEN own ELSE rebuilt[k]]
  BY <1>2, <1>3 DEF Patched
<1>6. ASSUME NEW k \in 1..n
      PROVE  Patched(place)[k] \in {own, rebuilt[k]}
  BY <1>5
<1>7. Patched(place) \in [1..n -> Entries] /\ DOMAIN Patched(place) = 1..n
  BY <1>4, <1>5
<1>8. Patched(place) \in Seq(Entries)
  BY <1>7
<1> QED
  BY <1>2, <1>3, <1>6, <1>7, <1>8

LEMMA FinishKeeps == ASSUME IInv, Finish PROVE IInv'
<1>1. Taking /\ Building
  BY TwoParts
<1>2. rebuilt \in Seq(Entries) /\ trailing \in Nat
  BY <1>1 DEF Building
<1>3. PICK place \in Nat : place = DirectoryEnd + NextPlace
  BY <1>1, <1>2, Aligned DEF Taking
<1>4. PICK entries \in Seq(Entries) : entries = Patched(place)
  BY <1>2, PatchedType
<1>5. Len(raw) \in Nat
  BY <1>1 DEF Taking
<1>6. out' = [size |-> place + Len(raw), magic |-> TRUE, ifd |-> 8,
              entries |-> entries, pixelsAt |-> place]
  BY <1>3, <1>4 DEF Finish
<1>7. /\ out'.size = place + Len(raw) /\ out'.size \in Nat
      /\ out'.entries = entries /\ out'.pixelsAt = place
  BY <1>5, <1>6
<1>8. /\ UNCHANGED <<file, strip, at, raw, entry, rebuilt, trailing>>
      /\ pc' = "done" /\ answer' = "rewritten"
  BY DEF Finish
<1>9. DirectoryEnd' = DirectoryEnd /\ NextPlace' = NextPlace
  BY <1>8, SameFile DEF NextPlace
<1>10. Patched(out.pixelsAt)' = Patched(place)
  BY <1>7, <1>8 DEF Patched, Positions
<1>11. Finished'
  <2>1. out'.entries = Patched(out.pixelsAt)'
    BY <1>4, <1>7, <1>10
  <2>2. out'.pixelsAt = DirectoryEnd' + NextPlace' /\ out'.size = out'.pixelsAt + Len(raw')
    BY <1>3, <1>7, <1>8, <1>9
  <2> QED
    BY <1>8, <2>1, <2>2 DEF Finished
<1>12. Layout'
  BY <1>1, <1>8, <1>9 DEF Building, Layout
<1>13. Building'
  BY <1>1, <1>7, <1>8, <1>11, <1>12 DEF Building
<1>14. Taking'
  BY <1>1, <1>8 DEF Taking, Progress, UnpackedFromStrips
<1> QED
  BY <1>13, <1>14, TwoPartsNext

LEMMA StutterKeeps == ASSUME IInv, UNCHANGED vars PROVE IInv'
<1>1. Taking /\ Building /\ file' = file
  BY TwoParts DEF vars
<1>2. DirectoryEnd' = DirectoryEnd /\ Rewritable' = Rewritable /\ NextPlace' = NextPlace
      /\ Offsets' = Offsets /\ Counts' = Counts /\ Compression' = Compression
  BY <1>1, SameFile DEF vars, NextPlace
<1>3. Patched(out.pixelsAt)' = Patched(out.pixelsAt)
  BY DEF vars, Patched, Positions
<1>4. Finished'
  BY <1>1, <1>2, <1>3 DEF vars, Building, Finished
<1>5. Layout'
  BY <1>1, <1>2 DEF vars, Building, Layout
<1>6. Building'
  BY <1>1, <1>4, <1>5 DEF vars, Building
<1>7. UnpackedFromStrips'
  BY <1>1, <1>2 DEF vars, Taking, UnpackedFromStrips
<1>8. Progress'
  BY <1>1, <1>2 DEF vars, Taking, Progress
<1>9. Taking'
  BY <1>1, <1>7, <1>8 DEF vars, Taking
<1> QED
  BY <1>6, <1>9, TwoPartsNext

LEMMA StepIInv == IInv /\ [Next]_vars => IInv'
<1> SUFFICES ASSUME IInv, [Next]_vars PROVE IInv'
  OBVIOUS
<1>1. CASE CheckHeader
  BY <1>1, CheckHeaderKeeps
<1>2. CASE CheckTags
  BY <1>2, CheckTagsKeeps
<1>3. CASE ReadPacket
  BY <1>3, ReadPacketKeeps
<1>4. CASE EndStrip
  BY <1>4, EndStripKeeps
<1>5. CASE TrimToImage
  BY <1>5, TrimToImageKeeps
<1>6. CASE UndoByte
  BY <1>6, UndoByteKeeps
<1>7. CASE UndoEnd
  BY <1>7, UndoEndKeeps
<1>8. CASE RebuildEntry
  BY <1>8, RebuildEntryKeeps
<1>9. CASE Finish
  BY <1>9, FinishKeeps
<1>10. CASE UNCHANGED vars
  BY <1>10, StutterKeeps
<1> QED
  BY <1>1, <1>2, <1>3, <1>4, <1>5, <1>6, <1>7, <1>8, <1>9, <1>10 DEF Next

-----------------------------------------------------------------------------
(* The theorems.                                                           *)

LEMMA SpecIInv == Spec => []IInv
<1>1. Init => IInv
  BY InitIInv
<1>2. IInv /\ [Next]_vars => IInv'
  BY StepIInv
<1> QED
  BY <1>1, <1>2, PTL DEF Spec

\* RewriteCompressedTiff works on values of the types it declares: no offset of
\* the directory it writes is wider than 32 bits, and the buffer holds bytes.
THEOREM RewriteTypeCorrect == Spec => []TypeOK
<1>1. IInv => TypeOK
  BY DEF IInv
<1> QED
  BY <1>1, SpecIInv, PTL

\* DecodePackBits reads no byte beyond the end of its strip, whatever the signed
\* headers in the strip say, and every byte of the image comes from a strip.
THEOREM RewriteUnpacksFromStrips == Spec => []UnpackedFromStrips
<1>1. IInv => UnpackedFromStrips
  BY DEF IInv
<1> QED
  BY <1>1, SpecIInv, PTL

\* The parts of what has been rewritten are apart.
LEMMA RegionsApart == IInv => RegionsDisjoint
<1> SUFFICES ASSUME IInv, answer = "rewritten", out.pixelsAt <= MaxU32 PROVE RegionsDisjoint
  BY DEF RegionsDisjoint
<1>1. Taking /\ Building
  BY TwoParts
<1>2. rebuilt \in Seq(Entries) /\ trailing \in Nat
  BY <1>1 DEF Building
<1>3. /\ DirectoryEnd \in Nat
      /\ NextPlace \in Nat /\ NextPlace >= trailing /\ NextPlace = WordAligned(trailing)
      /\ DirectoryEnd + NextPlace \in Nat /\ Even(DirectoryEnd + NextPlace)
  BY <1>1, <1>2, Aligned DEF Taking, NextPlace
<1>4. PICK place \in Nat : place = DirectoryEnd + NextPlace /\ out.pixelsAt = place
  BY <1>1, <1>3 DEF Building, Finished
<1>6. DirectoryEnd + WordAligned(trailing) <= MaxU32
  BY <1>3, <1>4
<1>7. PICK entries \in Seq(Entries) :
        /\ entries = out.entries /\ DOMAIN entries = 1..Len(rebuilt)
        /\ \A k \in 1..Len(rebuilt) : ~Inline(entries[k]) => entries[k] = rebuilt[k]
  <2>1. out.entries = Patched(place)
    BY <1>1, <1>4 DEF Building, Finished
  <2> QED
    BY <1>2, <2>1, PatchedType
<1> DEFINE far == {k \in DOMAIN entries : ~Inline(entries[k])}
<1>8. \A k \in far : entries[k] \in Entries /\ k \in 1..Len(rebuilt)
  BY <1>7
<1>9. ASSUME NEW k \in far
      PROVE  /\ entries[k].at \in Nat /\ ValueBytes(entries[k]) \in Nat
             /\ Even(entries[k].at) /\ entries[k].at >= DirectoryEnd
             /\ entries[k].at + ValueBytes(entries[k]) <= DirectoryEnd + trailing
             /\ \A j \in far : j < k =>
                  entries[j].at + ValueBytes(entries[j]) <= entries[k].at
  <2>1. entries[k] = rebuilt[k] /\ \A j \in far : entries[j] = rebuilt[j]
    BY <1>7
  <2>2. entries[k].at \in Nat /\ ValueBytes(entries[k]) \in Nat
    BY <1>8, EntryType
  <2>3. \A j \in far : j < k => j \in 1..(k - 1)
    BY <1>8
  <2> QED
    BY <1>1, <1>6, <1>8, <2>1, <2>2, <2>3 DEF Building, Layout, LaidOut
<1>10. ASSUME NEW k \in far
       PROVE  /\ Even(entries[k].at)
              /\ Region(entries[k]) \subseteq DirectoryEnd..(place - 1)
  <2>1. PICK a \in Nat, b \in Nat : a = entries[k].at /\ b = ValueBytes(entries[k])
    BY <1>9
  <2>2. a >= DirectoryEnd /\ a + b <= place
    <3>1. a + b <= DirectoryEnd + trailing /\ a >= DirectoryEnd
      BY <1>9, <2>1
    <3> QED
      BY <1>2, <1>3, <1>4, <3>1
  <2>3. (a..(a + b - 1)) \subseteq DirectoryEnd..(place - 1)
    BY <1>3, <2>2
  <2> QED
    BY <1>9, <2>1, <2>3 DEF Region
<1>11. ASSUME NEW k \in far, NEW j \in far, j < k
       PROVE  Region(entries[k]) \cap Region(entries[j]) = {}
  <2>1. PICK a \in Nat, b \in Nat, c \in Nat, d \in Nat :
           /\ a = entries[k].at /\ b = ValueBytes(entries[k])
           /\ c = entries[j].at /\ d = ValueBytes(entries[j])
    BY <1>9
  <2>2. c + d <= a
    BY <1>9, <1>11, <2>1
  <2>3. (a..(a + b - 1)) \cap (c..(c + d - 1)) = {}
    BY <2>2
  <2> QED
    BY <2>1, <2>3 DEF Region
<1>12. ASSUME NEW k \in far, NEW j \in far \ {k}
       PROVE  Region(entries[k]) \cap Region(entries[j]) = {}
  <2>1. j < k \/ k < j
    BY <1>2, <1>8
  <2> QED
    BY <1>11, <2>1
<1>13. Even(place) /\ place >= DirectoryEnd
  BY <1>3, <1>4
<1> QED
  BY <1>4, <1>7, <1>10, <1>12, <1>13 DEF RegionsDisjoint, Even

\* The directory, the relocated values and the pixels of a stream that
\* RewriteCompressedTiff writes do not overlap, as long as 32-bit offsets can
\* address all of it.
THEOREM RewriteRegionsDisjoint == Spec => []RegionsDisjoint
BY RegionsApart, SpecIInv, PTL

-----------------------------------------------------------------------------
(* The strips: what their packets stand for.                               *)

\* What a packet stands for is a sequence of bytes, and it takes at least one.
LEMMA PacketTypes ==
  ASSUME NEW n \in Packets
  PROVE  /\ n \in Int /\ PacketSize(n) \in Nat \ {0}
         /\ \A a \in Nat : PacketBytes(n, a) \in Seq(SUBSET (Nat \X Nat))
<1>1. n \in Int
  BY HalfAssumption DEF Packets
<1>2. PacketSize(n) \in Nat \ {0}
  BY <1>1 DEF PacketSize
<1>3. ASSUME NEW a \in Nat PROVE PacketBytes(n, a) \in Seq(SUBSET (Nat \X Nat))
  <2>1. CASE n > 0
    <3>1. PacketBytes(n, a) = [k \in 1..n |-> {<<a + k, 0>>}]
      BY <1>1, <2>1 DEF PacketBytes
    <3>2. \A k \in 1..n : {<<a + k, 0>>} \in SUBSET (Nat \X Nat)
      BY <1>1
    <3> QED BY <1>1, <2>1, <3>1, <3>2
  <2>2. CASE n < 0
    <3>1. PacketBytes(n, a) = [k \in 1..(-n) |-> {<<a + 1, 0>>}]
      BY <1>1, <2>2 DEF PacketBytes
    <3>2. {<<a + 1, 0>>} \in SUBSET (Nat \X Nat) /\ -n \in Nat
      BY <1>1, <2>2
    <3> QED BY <3>1, <3>2
  <2>3. CASE n = 0
    BY <2>3 DEF PacketBytes
  <2> QED BY <1>1, <2>1, <2>2, <2>3
<1> QED BY <1>1, <1>2, <1>3

\* The ends of the packets satisfy the equation that defines them.
LEMMA EndsEquation ==
  ASSUME NEW p \in Seq(Packets)
  PROVE  /\ Ends(p) \in [0..Len(p) -> Nat] /\ Ends(p)[0] = 0
         /\ \A k \in 1..Len(p) : Ends(p)[k] = Ends(p)[k - 1] + PacketSize(p[k])
<1>1. PICK n \in Nat : n = Len(p) /\ \A k \in 1..n : PacketSize(p[k]) \in Nat
  <2>1. Len(p) \in Nat
    OBVIOUS
  <2>2. ASSUME NEW k \in 1..Len(p) PROVE PacketSize(p[k]) \in Nat
    <3>1. p[k] \in Packets
      OBVIOUS
    <3> QED BY <3>1, PacketTypes
  <2> QED BY <2>1, <2>2
<1>2. PICK g : g = [x \in (1..n) \X Nat |-> x[2] + PacketSize(p[x[1]])]
  OBVIOUS
<1>3. g \in [(1..n) \X Nat -> Nat]
  BY <1>1, <1>2
<1>4. ASSUME NEW k \in 1..n, NEW r \in Nat PROVE g[<<k, r>>] = r + PacketSize(p[k])
  BY <1>2
<1>5. PICK h \in [0..n -> Nat] : h[0] = 0 /\ \A k \in 1..n : h[k] = g[<<k, h[k - 1]>>]
  <2>1. Recursion(n, Nat, 0, g) # {}
    BY <1>3, RecursionExists, 0 \in Nat
  <2> QED BY <2>1 DEF Recursion
<1>6. h = [k \in 0..Len(p) |-> IF k = 0 THEN 0 ELSE h[k - 1] + PacketSize(p[k])]
  <2>1. ASSUME NEW k \in 1..n PROVE h[k] = h[k - 1] + PacketSize(p[k])
    <3>1. k - 1 \in 0..n
      OBVIOUS
    <3>2. h[k - 1] \in Nat
      BY ONLY <1>5, <3>1
    <3> QED BY <1>4, <1>5, <3>2
  <2>2. \A k \in 0..n : k = 0 \/ k \in 1..n
    BY <1>1
  <2>3. \A k \in 0..n : h[k] = IF k = 0 THEN 0 ELSE h[k - 1] + PacketSize(p[k])
    BY <1>5, <2>1, <2>2
  <2> QED BY <1>1, <1>5, <2>3
<1>7. PICK v : /\ v = [k \in 0..Len(p) |-> IF k = 0 THEN 0 ELSE v[k - 1] + PacketSize(p[k])]
               /\ Ends(p) = v
  BY <1>6 DEF Ends
<1>8. v \in [0..n -> Nat] /\ v[0] = 0 /\ \A k \in 1..n : v[k] = v[k - 1] + PacketSize(p[k])
  <2>1. v = [k \in 0..n |-> IF k = 0 THEN 0 ELSE v[k - 1] + PacketSize(p[k])]
    BY <1>1, <1>7
  <2>2. \A k \in 0..n : v[k] = IF k = 0 THEN 0 ELSE v[k - 1] + PacketSize(p[k])
    BY <2>1
  <2>3. v[0] = 0 /\ \A k \in 1..n : v[k] = v[k - 1] + PacketSize(p[k])
    <3>1. 0 \in 0..n /\ \A k \in 1..n : k \in 0..n /\ k # 0
      BY <1>1
    <3> QED BY <2>2, <3>1
  <2>4. v = [k \in 0..n |-> v[k]]
    BY <2>1
  <2>5. \A k \in 1..n : v[k - 1] \in Nat => v[k] = g[<<k, v[k - 1]>>]
    BY <1>4, <2>3
  <2>6. v \in Recursion(n, Nat, 0, g)
    BY <1>3, <2>3, <2>4, <2>5, RecursionIs, 0 \in Nat
  <2> QED BY <2>3, <2>6 DEF Recursion
<1> QED BY <1>1, <1>7, <1>8

\* u[k] is the buffer after the first k packets.
UnpacksTo(u, before, p, o) ==
  /\ u \in [0..Len(p) -> Seq(SUBSET (Nat \X Nat))]
  /\ u[0] = before
  /\ \A k \in 1..Len(p) : u[k] = u[k - 1] \o PacketBytes(p[k], o + Ends(p)[k - 1])

\* There is such a function, and Unpack is it.
LEMMA UnpackEquation ==
  ASSUME NEW p \in Seq(Packets), NEW before \in Seq(SUBSET (Nat \X Nat)), NEW o \in Nat
  PROVE  UnpacksTo(Unpack(before, p, o), before, p, o)
<1> DEFINE S == Seq(SUBSET (Nat \X Nat))
<1>0. PICK n \in Nat : n = Len(p)
  OBVIOUS
<1>1. PICK b \in [1..n -> S] :
        n = Len(p) /\ \A k \in 1..n : b[k] = PacketBytes(p[k], o + Ends(p)[k - 1])
  <2>2. ASSUME NEW k \in 1..n PROVE PacketBytes(p[k], o + Ends(p)[k - 1]) \in S
    <3>1. p[k] \in Packets /\ k - 1 \in 0..Len(p)
      BY <1>0
    <3>2. Ends(p) \in [0..Len(p) -> Nat]
      BY EndsEquation
    <3>3. Ends(p)[k - 1] \in Nat
      BY <3>1, <3>2
    <3>4. o + Ends(p)[k - 1] \in Nat
      BY <3>3
    <3> QED BY <3>1, <3>4, PacketTypes
  <2>3. PICK b : b = [k \in 1..n |-> PacketBytes(p[k], o + Ends(p)[k - 1])]
    OBVIOUS
  <2> QED BY <1>0, <2>2, <2>3
<1>2. PICK g : g = [x \in (1..n) \X S |-> x[2] \o b[x[1]]]
  OBVIOUS
<1>3. g \in [(1..n) \X S -> S]
  <2>1. ASSUME NEW x \in (1..n) \X S PROVE x[2] \o b[x[1]] \in S
    <3>1. x[2] \in S /\ b[x[1]] \in S
      BY <1>1
    <3> QED BY <3>1
  <2> QED BY <1>2, <2>1
<1>4. ASSUME NEW k \in 1..n, NEW r \in S PROVE g[<<k, r>>] = r \o b[k]
  BY <1>2
<1> HIDE DEF S
<1>5. PICK h \in [0..n -> S] : h[0] = before /\ \A k \in 1..n : h[k] = g[<<k, h[k - 1]>>]
  <2>1. Recursion(n, S, before, g) # {}
    BY <1>3, RecursionExists DEF S
  <2> QED BY <2>1 DEF Recursion
<1>6. h = [k \in 0..Len(p) |-> IF k = 0 THEN before
                               ELSE h[k - 1] \o PacketBytes(p[k], o + Ends(p)[k - 1])]
  <2>1. ASSUME NEW k \in 1..n PROVE h[k] = h[k - 1] \o PacketBytes(p[k], o + Ends(p)[k - 1])
    <3>1. k - 1 \in 0..n
      BY <1>0
    <3>2. h[k - 1] \in S
      BY <1>5, <3>1, Zenon
    <3> QED BY <1>1, <1>4, <1>5, <3>2
  <2>2. \A k \in 0..n : k = 0 \/ k \in 1..n
    BY <1>1
  <2>3. \A k \in 0..n : h[k] = IF k = 0 THEN before
                               ELSE h[k - 1] \o PacketBytes(p[k], o + Ends(p)[k - 1])
    BY <1>5, <2>1, <2>2
  <2> QED BY <1>1, <1>5, <2>3
<1>7. PICK v : /\ v = [k \in 0..Len(p) |-> IF k = 0 THEN before
                               ELSE v[k - 1] \o PacketBytes(p[k], o + Ends(p)[k - 1])]
               /\ Unpack(before, p, o) = v
  BY <1>6 DEF Unpack
<1>8. /\ v \in [0..n -> S] /\ v[0] = before
      /\ \A k \in 1..n : v[k] = v[k - 1] \o PacketBytes(p[k], o + Ends(p)[k - 1])
  <2>1. v = [k \in 0..n |-> IF k = 0 THEN before
                            ELSE v[k - 1] \o PacketBytes(p[k], o + Ends(p)[k - 1])]
    BY <1>1, <1>7
  <2>2. \A k \in 0..n : v[k] = IF k = 0 THEN before
                               ELSE v[k - 1] \o PacketBytes(p[k], o + Ends(p)[k - 1])
    BY <2>1
  <2>3. v[0] = before /\ \A k \in 1..n : v[k] = v[k - 1] \o PacketBytes(p[k], o + Ends(p)[k - 1])
    <3>1. 0 \in 0..n /\ \A k \in 1..n : k \in 0..n /\ k # 0
      BY <1>1
    <3> QED BY <2>2, <3>1
  <2>4. v = [k \in 0..n |-> v[k]]
    BY <2>1
  <2>5. ASSUME NEW k \in 1..n, v[k - 1] \in S PROVE v[k] = g[<<k, v[k - 1]>>]
    <3>1. v[k] = v[k - 1] \o b[k]
      BY <1>1, <2>3
    <3>2. g[<<k, v[k - 1]>>] = v[k - 1] \o b[k]
      BY <1>4, <2>5
    <3> QED BY <3>1, <3>2
  <2>7. before \in S /\ \A k \in 1..n : v[k - 1] \in S => v[k] = g[<<k, v[k - 1]>>]
    BY <2>5 DEF S
  <2>6. v \in Recursion(n, S, before, g)
    BY ONLY <1>3, <2>3, <2>4, <2>7, RecursionIs, n \in Nat
  <2> QED BY <2>3, <2>6 DEF Recursion
<1>9. UnpacksTo(v, before, p, o)
  BY ONLY <1>1, <1>8, Zenon DEF UnpacksTo, S
<1> QED BY ONLY <1>7, <1>9

\* A strip leaves a buffer of bytes.
LEMMA AfterStripType ==
  ASSUME NEW f \in Files, NEW before \in Seq(SUBSET (Nat \X Nat)), NEW s \in Nat, NEW o \in Nat,
         f.packets # <<>> => s \in 1..Len(f.packets)
  PROVE  AfterStrip(f, before, s, o) \in Seq(SUBSET (Nat \X Nat))
<1>1. f.packets \in Seq(Seq(Packets)) /\ f.yield \in [DOMAIN f.yield -> Nat]
  BY PacketsAssumption, FilesAssumption
<1>2. CASE f.packets # <<>>
  <2>1. PICK p \in Seq(Packets) : p = f.packets[s]
    <3>1. f.packets[s] \in Seq(Packets)
      BY <1>1, <1>2
    <3> QED BY <3>1
  <2>2. Len(p) \in 0..Len(p)
    OBVIOUS
  <2>3. UnpacksTo(Unpack(before, p, o), before, p, o)
    BY UnpackEquation
  <2>4. Unpack(before, p, o)[Len(p)] \in Seq(SUBSET (Nat \X Nat))
    BY <2>2, <2>3 DEF UnpacksTo
  <2> QED BY <1>2, <2>1, <2>4 DEF AfterStrip
<1>3. CASE f.packets = <<>> /\ o \in DOMAIN f.yield
  <2>1. PICK y \in Nat : y = f.yield[o]
    BY <1>1, <1>3
  <2>2. \A k \in 1..y : {<<o, k>>} \in SUBSET (Nat \X Nat)
    BY <2>1
  <2>3. [k \in 1..y |-> {<<o, k>>}] \in Seq(SUBSET (Nat \X Nat))
    BY <2>1, <2>2
  <2>4. AfterStrip(f, before, s, o) = before \o [k \in 1..y |-> {<<o, k>>}]
    BY <1>3, <2>1 DEF AfterStrip
  <2> QED BY <2>3, <2>4
<1>4. CASE f.packets = <<>> /\ o \notin DOMAIN f.yield
  BY <1>4 DEF AfterStrip
<1> QED BY <1>2, <1>3, <1>4

\* The buffer after each strip satisfies the equation that defines it.
LEMMA BufferEquation ==
  ASSUME NEW f \in Files, NEW offsets, NEW n \in Nat, n = Len(offsets),
         \A s \in 1..n : offsets[s] \in Nat,
         f.packets # <<>> => Len(f.packets) = n
  PROVE  /\ Buffer(f, offsets) \in [0..n -> Seq(SUBSET (Nat \X Nat))]
         /\ Buffer(f, offsets)[0] = <<>>
         /\ \A s \in 1..n :
              Buffer(f, offsets)[s] = AfterStrip(f, Buffer(f, offsets)[s - 1], s, offsets[s])
<1>1. PICK S : S = Seq(SUBSET (Nat \X Nat))
  OBVIOUS
<1>2. <<>> \in S
  BY <1>1
<1>3. PICK g : g = [x \in (1..n) \X S |-> AfterStrip(f, x[2], x[1], offsets[x[1]])]
  OBVIOUS
<1>4. g \in [(1..n) \X S -> S]
  <2>1. ASSUME NEW s \in 1..n, NEW r \in S PROVE AfterStrip(f, r, s, offsets[s]) \in S
    <3>1. offsets[s] \in Nat /\ s \in Nat /\ (f.packets # <<>> => s \in 1..Len(f.packets))
      OBVIOUS
    <3> QED BY <1>1, <3>1, AfterStripType
  <2>2. ASSUME NEW x \in (1..n) \X S PROVE AfterStrip(f, x[2], x[1], offsets[x[1]]) \in S
    <3>1. x[1] \in 1..n /\ x[2] \in S
      OBVIOUS
    <3> QED BY <2>1, <3>1
  <2> QED BY <1>3, <2>2
<1>5. ASSUME NEW s \in 1..n, NEW r \in S PROVE g[<<s, r>>] = AfterStrip(f, r, s, offsets[s])
  BY <1>3
<1>6. PICK h \in [0..n -> S] : h[0] = <<>> /\ \A s \in 1..n : h[s] = g[<<s, h[s - 1]>>]
  <2>1. Recursion(n, S, <<>>, g) # {}
    BY <1>2, <1>4, RecursionExists
  <2> QED BY <2>1 DEF Recursion
<1>7. h = [s \in 0..Len(offsets) |-> IF s = 0 THEN <<>> ELSE AfterStrip(f, h[s - 1], s, offsets[s])]
  <2>1. ASSUME NEW s \in 1..n PROVE h[s] = AfterStrip(f, h[s - 1], s, offsets[s])
    <3>1. s - 1 \in 0..n
      OBVIOUS
    <3>2. h[s - 1] \in S
      BY <1>6, <3>1, Zenon
    <3> QED BY <1>5, <1>6, <3>2
  <2>2. \A s \in 0..n : s = 0 \/ s \in 1..n
    OBVIOUS
  <2>3. \A s \in 0..n : h[s] = IF s = 0 THEN <<>> ELSE AfterStrip(f, h[s - 1], s, offsets[s])
    BY <1>6, <2>1, <2>2
  <2> QED BY <1>6, <2>3
<1>8. PICK v : /\ v = [s \in 0..Len(offsets) |-> IF s = 0 THEN <<>>
                                                ELSE AfterStrip(f, v[s - 1], s, offsets[s])]
               /\ Buffer(f, offsets) = v
  BY <1>7 DEF Buffer
<1>9. v = [s \in 0..n |-> IF s = 0 THEN <<>> ELSE AfterStrip(f, v[s - 1], s, offsets[s])]
  BY <1>8
<1>10. v[0] = <<>> /\ \A s \in 1..n : v[s] = AfterStrip(f, v[s - 1], s, offsets[s])
  <2>1. \A s \in 0..n : v[s] = IF s = 0 THEN <<>> ELSE AfterStrip(f, v[s - 1], s, offsets[s])
    BY <1>9
  <2>2. 0 \in 0..n /\ \A s \in 1..n : s \in 0..n /\ s # 0
    OBVIOUS
  <2> QED BY <2>1, <2>2
<1>11. v \in [0..n -> S]
  <2>1. v = [s \in 0..n |-> v[s]]
    BY <1>9
  <2>2. \A s \in 1..n : v[s - 1] \in S => v[s] = g[<<s, v[s - 1]>>]
    BY <1>5, <1>10
  <2>3. v \in Recursion(n, S, <<>>, g)
    BY <1>2, <1>4, <1>10, <2>1, <2>2, RecursionIs
  <2> QED BY <2>3 DEF Recursion
<1> QED BY <1>1, <1>8, <1>10, <1>11

-----------------------------------------------------------------------------
(* The buffer holds what the packets read so far stand for.                *)

\* The reader is at the end of some packet of its strip, and the buffer holds
\* what comes before.
AtPacket ==
  IF strip <= Len(Offsets) /\ file.packets # <<>>
  THEN \E j \in 0..Len(file.packets[strip]) :
         /\ at = Ends(file.packets[strip])[j]
         /\ raw = Unpack(Buffer(file, Offsets)[strip - 1], file.packets[strip], Offsets[strip])[j]
  ELSE raw = Buffer(file, Offsets)[strip - 1] /\ at = 0

Enough == AllWhole /\ Len(StripsContent) >= Expected

Unpacking ==
  PackedStream =>
    /\ pc = "strips" =>
         /\ \A s \in 1..(strip - 1) : Whole(file, s, Offsets[s], Counts[s])
         /\ AtPacket
    /\ pc \in {"undo", "rebuild"} => Enough
    /\ pc = "done" => (answer = "rewritten" <=> Enough)

\* What is said of the stream alone stays the same.
LEMMA SameStream ==
  ASSUME file' = file
  PROVE  /\ PackedStream' = PackedStream /\ Enough' = Enough /\ AllWhole' = AllWhole
         /\ StripsContent' = StripsContent /\ Expected' = Expected
         /\ HeaderInside' = HeaderInside
<1>1. /\ Offsets' = Offsets /\ Counts' = Counts /\ Compression' = Compression
      /\ Rewritable' = Rewritable
  BY SameFile
<1>2. HeaderInside' = HeaderInside
  BY DEF HeaderInside
<1>3. AllWhole' = AllWhole /\ StripsContent' = StripsContent
  BY <1>1 DEF AllWhole, StripsContent
<1>4. Expected' = Expected
  BY DEF Expected, Width, Height, Samples, ReadScalar, Has, Find, Positions, IntArray, ValuesInside
<1>5. PackedStream' = PackedStream
  BY <1>1, <1>2 DEF PackedStream, ValuesInside
<1> QED BY <1>2, <1>3, <1>4, <1>5 DEF Enough

\* What is known of a stream of packets.
LEMMA StreamFacts ==
  ASSUME file \in Files, PackedStream
  PROVE  /\ Rewritable /\ Len(Offsets) \in Nat
         /\ \A s \in 1..Len(Offsets) :
              /\ Offsets[s] \in Nat /\ Counts[s] \in Nat
              /\ Offsets[s] + Counts[s] <= file.size
              /\ file.packets # <<>> => file.packets[s] \in Seq(Packets)
         /\ Buffer(file, Offsets) \in [0..Len(Offsets) -> Seq(SUBSET (Nat \X Nat))]
         /\ Buffer(file, Offsets)[0] = <<>>
         /\ \A s \in 1..Len(Offsets) :
              Buffer(file, Offsets)[s]
                = AfterStrip(file, Buffer(file, Offsets)[s - 1], s, Offsets[s])
<1>1. PICK n \in Nat : n = Len(Offsets) /\ \A k \in 1..n : Offsets[k] \in Nat /\ Counts[k] \in Nat
  BY RewritableFacts DEF PackedStream
<1>2. file.packets \in Seq(Seq(Packets)) /\ (file.packets # <<>> => Len(file.packets) = n)
  BY <1>1, PacketsAssumption DEF PackedStream
<1>3. Offsets \in Seq(U32) /\ DOMAIN Offsets = 1..n
  <2>1. Has("StripOffsets")
    BY DEF PackedStream, Rewritable
  <2>2. Offsets \in Seq(U32)
    BY <2>1, FindType, EntryType DEF Offsets
  <2> QED BY <2>2, <1>1
<1>4. \A s \in 1..n : Offsets[s] + Counts[s] <= file.size
  BY <1>3 DEF PackedStream
<1>5. /\ Buffer(file, Offsets) \in [0..n -> Seq(SUBSET (Nat \X Nat))]
      /\ Buffer(file, Offsets)[0] = <<>>
      /\ \A s \in 1..n :
           Buffer(file, Offsets)[s]
             = AfterStrip(file, Buffer(file, Offsets)[s - 1], s, Offsets[s])
  BY <1>1, <1>2, BufferEquation
<1>6. \A s \in 1..n : file.packets # <<>> => file.packets[s] \in Seq(Packets)
  BY <1>2
<1>7. Rewritable
  BY DEF PackedStream
<1> QED BY <1>1, <1>4, <1>5, <1>6, <1>7

\* Packets follow each other.
LEMMA EndsGrow ==
  ASSUME NEW p \in Seq(Packets), NEW j \in 0..Len(p)
  PROVE  /\ Ends(p)[j] \in Nat
         /\ \A i \in 0..j : Ends(p)[i] \in Nat /\ Ends(p)[i] <= Ends(p)[j]
         /\ \A i \in 0..(j - 1) : Ends(p)[i] < Ends(p)[j]
<1>0. PICK n \in Nat : n = Len(p)
  OBVIOUS
<1>1. PICK e \in [0..n -> Nat] : e = Ends(p) /\ \A k \in 1..n : e[k] > e[k - 1]
  <2>2. PICK e \in [0..n -> Nat] : e = Ends(p)
    BY <1>0, EndsEquation
  <2>3. ASSUME NEW k \in 1..n PROVE e[k] > e[k - 1]
    <3>1. PICK z \in Nat \ {0} : z = PacketSize(p[k])
      <4>1. p[k] \in Packets
        BY <1>0
      <4> QED BY <4>1, PacketTypes
    <3>2. e[k] = e[k - 1] + z
      BY <1>0, <2>2, <3>1, EndsEquation
    <3>3. k - 1 \in 0..n
      BY <1>0
    <3>4. e[k - 1] \in Nat
      BY <2>2, <3>3
    <3> QED BY <3>1, <3>2, <3>4
  <2> QED BY <2>2, <2>3
<1>2. PICK K : K = {k \in 0..n : \A i \in 0..(k - 1) : e[i] < e[k]}
  OBVIOUS
<1>3. 0 \in K /\ K \in SUBSET (0..n)
  BY <1>2
<1>4. ASSUME NEW k \in 0..(n - 1), k \in K PROVE k + 1 \in K
  <2>1. k \in 0..n /\ k + 1 \in 0..n /\ k + 1 \in 1..n /\ (k + 1) - 1 = k
    BY <1>4
  <2>2. e[k] \in Nat /\ e[k + 1] \in Nat /\ e[k + 1] > e[k]
    BY <1>1, <2>1
  <2>3. ASSUME NEW i \in 0..k PROVE e[i] < e[k + 1]
    <3>1. i = k \/ i \in 0..(k - 1)
      BY <2>1
    <3>2. i \in 0..n
      BY <2>1
    <3>3. e[i] \in Nat
      BY <3>2
    <3>4. i \in 0..(k - 1) => e[i] < e[k]
      BY <1>2, <1>4
    <3> QED BY <2>2, <3>1, <3>3, <3>4
  <2> QED BY <1>2, <2>1, <2>3
<1>5. j \in K
  BY <1>0, <1>3, <1>4, Induction
<1>6. \A i \in 0..(j - 1) : e[i] < e[j]
  BY <1>2, <1>5
<1>7. \A i \in 0..j : e[i] \in Nat /\ (i = j \/ i \in 0..(j - 1))
  BY <1>0
<1>8. e[j] \in Nat /\ \A i \in 0..j : e[i] \in Nat /\ e[i] <= e[j]
  <2>1. j \in 0..j
    OBVIOUS
  <2>2. e[j] \in Nat
    BY <1>7, <2>1
  <2>3. ASSUME NEW i \in 0..j PROVE e[i] \in Nat /\ e[i] <= e[j]
    BY <1>6, <1>7, <2>2
  <2> QED BY <2>2, <2>3
<1> QED BY <1>1, <1>6, <1>8, Zenon

\* The header in front of a packet is the packet's.
LEMMA HeaderOfPacket ==
  ASSUME NEW n \in Packets, NEW b, b = HeaderByte(n)
  PROVE  /\ n > 0 => Signed(b) = n - 1
         /\ n < 0 => Signed(b) = 1 + n /\ Signed(b) < 0 /\ Signed(b) # -Half
         /\ n = 0 => Signed(b) = -Half
         /\ Half \in Nat \ {0} /\ n \in Int
<1>1. PICK half \in Nat \ {0} : half = Half
  BY HalfAssumption
<1>2. n \in Int /\ n >= -half /\ n <= half /\ n # -1
  BY <1>1 DEF Packets
<1>3. CASE n > 0
  <2>1. b = n - 1
    BY <1>2, <1>3 DEF HeaderByte
  <2>2. b < half
    BY <1>2, <2>1
  <2>3. Signed(b) = n - 1
    BY <1>1, <2>1, <2>2 DEF Signed
  <2> QED BY <1>1, <1>2, <1>3, <2>3
<1>4. CASE n < 0
  <2>1. b = 2 * half + 1 + n
    BY <1>1, <1>2, <1>4 DEF HeaderByte
  <2>2. ~(b < half)
    BY <1>2, <1>4, <2>1
  <2>3. Signed(b) = 1 + n
    BY <1>1, <1>2, <2>1, <2>2 DEF Signed
  <2> QED BY <1>1, <1>2, <1>4, <2>3
<1>5. CASE n = 0
  <2>1. b = half
    BY <1>1, <1>5 DEF HeaderByte
  <2>2. Signed(b) = -half
    BY <1>1, <2>1 DEF Signed
  <2> QED BY <1>1, <1>5, <2>2
<1> QED BY <1>1, <1>2, <1>3, <1>4, <1>5

\* Where a packet begins, ReadPacket reads that packet: to its end if the strip
\* has it whole.
PacketAt(p, j, o, count) ==
  /\ j < Len(p)
  /\ Header = Signed(HeaderByte(p[j + 1]))
  /\ Ends(p)[j + 1] = at + PacketSize(p[j + 1])
  /\ Whole(file, strip, o, count) => at + PacketSize(p[j + 1]) <= count

\* The step of the decoder at a packet reads that packet.
LEMMA PacketRead ==
  ASSUME file \in Files, PackedStream, file.packets # <<>>, strip \in 1..Len(Offsets),
         NEW o \in Nat, o = Offsets[strip], NEW count \in Nat, count = Counts[strip],
         NEW p \in Seq(Packets), p = file.packets[strip],
         NEW j \in 0..Len(p), at = Ends(p)[j], at < count
  PROVE  PacketAt(p, j, o, count)
<1>1. Len(p) \in Nat /\ Len(p) \in 0..Len(p)
  OBVIOUS
<1>2. DOMAIN Offsets = 1..Len(Offsets)
  <2>1. Has("StripOffsets")
    BY DEF PackedStream, Rewritable
  <2>2. Offsets \in Seq(U32)
    BY <2>1, FindType, EntryType DEF Offsets
  <2> QED BY <2>2
<1>3. /\ HasPackets(file, p, o)
      /\ Whole(file, strip, o, count) \/ CutOff(p, count)
  BY <1>2 DEF PackedStream
<1>4. /\ Ends(p)[Len(p)] \in Nat
      /\ \A i \in 0..Len(p) : Ends(p)[i] \in Nat /\ Ends(p)[i] <= Ends(p)[Len(p)]
  BY <1>1, EndsGrow
<1>5. count <= Ends(p)[Len(p)]
  <2>1. Whole(file, strip, o, count) => count = Ends(p)[Len(p)]
    BY DEF Whole
  <2>2. CutOff(p, count) => count < Ends(p)[Len(p)]
    BY DEF CutOff
  <2> QED BY <1>3, <1>4, <2>1, <2>2
<1>6. j # Len(p)
  <2>1. SUFFICES ASSUME j = Len(p) PROVE FALSE
    OBVIOUS
  <2> QED BY <1>4, <1>5, <2>1
<1>7. j < Len(p) /\ j + 1 \in 1..Len(p) /\ j + 1 \in 0..Len(p) /\ (j + 1) - 1 = j
  BY <1>1, <1>6
<1>8. Header = Signed(HeaderByte(p[j + 1]))
  <2>1. DOMAIN p = 1..Len(p)
    OBVIOUS
  <2>2. o + at \in DOMAIN file.bytes /\ file.bytes[o + at] = HeaderByte(p[j + 1])
    BY <1>3, <1>7, <2>1 DEF HasPackets
  <2>3. ByteAt(at) = file.bytes[o + at]
    BY <2>2 DEF ByteAt
  <2> QED BY <2>2, <2>3 DEF Header
<1>9. Ends(p)[j + 1] = at + PacketSize(p[j + 1])
  BY <1>7, EndsEquation
<1>10. ASSUME Whole(file, strip, o, count) PROVE at + PacketSize(p[j + 1]) <= count
  <2>1. count = Ends(p)[Len(p)]
    BY <1>10 DEF Whole
  <2>2. Ends(p)[j + 1] <= Ends(p)[Len(p)]
    BY <1>4, <1>7
  <2> QED BY <1>9, <2>1, <2>2
<1> QED BY <1>7, <1>8, <1>9, <1>10 DEF PacketAt

\* One packet more is in the buffer, or the strip is cut off.
LEMMA ReadPacketUnpacks ==
  ASSUME IInv, Unpacking, PackedStream, ReadPacket PROVE Unpacking'
<1>1. /\ Taking /\ Building /\ pc = "strips" /\ file' = file /\ file \in Files
      /\ strip <= Len(Offsets) /\ Compression = PackBits
  BY TwoParts DEF ReadPacket, Taking
<1>2. file.packets # <<>>
  BY <1>1 DEF PackedStream
<1>3. strip \in 1..Len(Offsets) /\ strip \in Nat /\ at \in Nat
  BY <1>1, StreamFacts DEF Taking
<1>4. PICK o \in Nat, count \in Nat : o = Offsets[strip] /\ count = Counts[strip]
  BY <1>1, <1>3, StreamFacts
<1>5. PICK p \in Seq(Packets) : p = file.packets[strip]
  BY <1>1, <1>2, <1>3, StreamFacts
<1>6. PICK before \in Seq(SUBSET (Nat \X Nat)) : before = Buffer(file, Offsets)[strip - 1]
  <2>1. strip - 1 \in 0..Len(Offsets)
    BY <1>1, <1>3
  <2>2. Buffer(file, Offsets) \in [0..Len(Offsets) -> Seq(SUBSET (Nat \X Nat))]
    BY <1>1, StreamFacts
  <2>3. Buffer(file, Offsets)[strip - 1] \in Seq(SUBSET (Nat \X Nat))
    BY <2>1, <2>2
  <2> QED BY <2>3
<1>7. /\ \A s \in 1..(strip - 1) : Whole(file, s, Offsets[s], Counts[s])
      /\ AtPacket
  BY <1>1 DEF Unpacking
<1>8. PICK j \in 0..Len(p) : at = Ends(p)[j] /\ raw = Unpack(before, p, o)[j]
  BY <1>1, <1>2, <1>4, <1>5, <1>6, <1>7 DEF AtPacket
<1>9. at < count
  BY <1>4 DEF ReadPacket
<1>10. /\ j < Len(p) /\ Ends(p)[j + 1] = at + PacketSize(p[j + 1])
       /\ Header = Signed(HeaderByte(p[j + 1]))
       /\ Whole(file, strip, o, count) => at + PacketSize(p[j + 1]) <= count
  <2>1. at = Ends(p)[j]
    BY <1>8
  <2>2. PacketAt(p, j, o, count)
    <3>1. /\ file \in Files /\ PackedStream /\ file.packets # <<>> /\ strip \in 1..Len(Offsets)
          /\ o \in Nat /\ o = Offsets[strip] /\ count \in Nat /\ count = Counts[strip]
          /\ p \in Seq(Packets) /\ p = file.packets[strip] /\ at < count
      BY <1>1, <1>2, <1>3, <1>4, <1>5, <1>9
    <3>2. j \in 0..Len(p) /\ at = Ends(p)[j]
      BY <2>1
    <3> QED BY ONLY <3>1, <3>2, PacketRead
  <2> QED BY <2>2 DEF PacketAt
<1>11. PICK n \in Packets : n = p[j + 1]
  <2>1. j + 1 \in 1..Len(p)
    BY <1>10
  <2> QED BY <2>1
<1>12. /\ j + 1 \in 1..Len(p) /\ j + 1 \in 0..Len(p) /\ (j + 1) - 1 = j
  BY <1>10
<1>13. Unpack(before, p, o)[j + 1] = raw \o PacketBytes(n, o + at)
  <2>1. Unpack(before, p, o)[j + 1]
          = Unpack(before, p, o)[(j + 1) - 1] \o PacketBytes(p[j + 1], o + Ends(p)[(j + 1) - 1])
    <3>1. UnpacksTo(Unpack(before, p, o), before, p, o)
      BY UnpackEquation
    <3> QED BY ONLY <1>12, <3>1 DEF UnpacksTo
  <2> QED BY <1>8, <1>11, <1>12, <2>1
<1>14. PICK h : h = Header
  OBVIOUS
<1>15. /\ n > 0 => h = n - 1
       /\ n < 0 => h = 1 + n /\ h < 0 /\ h # -Half
       /\ n = 0 => h = -Half
       /\ Half \in Nat \ {0} /\ n \in Int /\ h \in Int
  BY <1>10, <1>11, <1>14, HeaderOfPacket
<1>16. ASSUME AddBytes(PacketBytes(n, o + at)), at' = at + PacketSize(n), strip' = strip
       PROVE  Unpacking'
  <2>1. /\ raw' = Unpack(before, p, o)[j + 1] /\ at' = Ends(p)[j + 1] /\ pc' = "strips"
    BY <1>1, <1>10, <1>11, <1>13, <1>16 DEF AddBytes
  <2>2. Offsets' = Offsets /\ Counts' = Counts
    BY <1>1, SameFile
  <2>3. AtPacket'
    BY <1>1, <1>2, <1>4, <1>5, <1>6, <1>12, <1>16, <2>1, <2>2 DEF AtPacket
  <2> QED BY <1>1, <1>7, <1>16, <2>1, <2>2, <2>3 DEF Unpacking
<1>17. CASE Literal(h) /\ strip' = strip
  <2>1. h >= 0 /\ AddBytes([k \in 1..(h + 1) |-> FromStrip(at + k)]) /\ at' = at + 1 + h + 1
    BY <1>17 DEF Literal
  <2>2. n > 0 /\ h + 1 = n /\ at + 1 + h + 1 = at + (n + 1)
    BY <1>3, <1>15, <2>1
  <2>3. PacketSize(n) = n + 1 /\ PacketBytes(n, o + at) = [k \in 1..n |-> {<<(o + at) + k, 0>>}]
    BY <1>15, <2>2 DEF PacketSize, PacketBytes
  <2>4. \A k \in 1..n : FromStrip(at + k) = {<<(o + at) + k, 0>>}
    <3>1. \A k \in 1..n : o + (at + k) = (o + at) + k
      BY <1>3, <1>15
    <3> QED BY <1>4, <3>1 DEF FromStrip
  <2>5. [k \in 1..(h + 1) |-> FromStrip(at + k)] = PacketBytes(n, o + at)
    BY <2>2, <2>3, <2>4
  <2> QED BY <1>16, <1>17, <2>1, <2>2, <2>3, <2>5
<1>18. CASE Repeat(h) /\ strip' = strip
  <2>1. h < 0 /\ h # -Half /\ AddBytes([k \in 1..(1 - h) |-> FromStrip(at + 1)]) /\ at' = at + 2
    BY <1>18 DEF Repeat, IsRepeat
  <2>2. n < 0 /\ 1 - h = -n
    BY <1>15, <2>1
  <2>3. PacketSize(n) = 2 /\ PacketBytes(n, o + at) = [k \in 1..(-n) |-> {<<(o + at) + 1, 0>>}]
    BY <1>15, <2>2 DEF PacketSize, PacketBytes
  <2>4. FromStrip(at + 1) = {<<(o + at) + 1, 0>>}
    <3>1. o + (at + 1) = (o + at) + 1
      BY <1>3
    <3> QED BY <1>4, <3>1 DEF FromStrip
  <2>5. [k \in 1..(1 - h) |-> FromStrip(at + 1)] = PacketBytes(n, o + at)
    BY <2>2, <2>3, <2>4
  <2> QED BY <1>16, <1>18, <2>1, <2>3, <2>5
<1>19. CASE NoOp(h) /\ strip' = strip
  <2>1. h < 0 /\ h = -Half /\ AddBytes(<<>>) /\ at' = at + 1
    BY <1>19 DEF NoOp, IsRepeat, NoOpEnd
  <2>2. n = 0
    BY <1>15, <2>1
  <2>3. PacketSize(n) = 1 /\ PacketBytes(n, o + at) = <<>>
    BY <2>2 DEF PacketSize, PacketBytes
  <2> QED BY <1>16, <1>19, <2>1, <2>3
<1>20. CASE Truncated(h) /\ Refuse
  <2>1. ~(at + PacketSize(n) <= count)
    <3>1. CASE h >= 0 /\ ~LiteralFits(h)
      <4>1. n > 0 /\ at + 1 + h + 1 = at + (n + 1)
        BY <1>3, <1>15, <3>1
      <4>2. PacketSize(n) = n + 1
        BY <1>15, <4>1 DEF PacketSize
      <4> QED BY <1>4, <3>1, <4>1, <4>2 DEF LiteralFits
    <3>2. CASE IsRepeat(h) /\ at + 1 >= count
      <4>1. n < 0
        BY <1>15, <3>2 DEF IsRepeat
      <4>2. PacketSize(n) = 2
        BY <1>15, <4>1 DEF PacketSize
      <4> QED BY <1>3, <3>2, <4>2
    <3> QED BY <1>4, <1>20, <3>1, <3>2 DEF Truncated
  <2>2. ~Whole(file, strip, o, count)
    BY <1>10, <1>11, <2>1
  <2>3. ~AllWhole
    <3>1. DOMAIN Offsets = 1..Len(Offsets)
      <4>1. Has("StripOffsets")
        BY DEF PackedStream, Rewritable
      <4>2. Offsets \in Seq(U32)
        BY <1>1, <4>1, FindType, EntryType DEF Offsets
      <4> QED BY <4>2
    <3> QED BY <1>3, <1>4, <2>2, <3>1 DEF AllWhole
  <2>4. ~Enough' /\ pc' = "done" /\ answer' = "refused"
    BY <1>1, <1>20, <2>3, SameStream DEF Enough, Refuse
  <2> QED BY <2>4 DEF Unpacking
<1> QED BY <1>14, <1>17, <1>18, <1>19, <1>20 DEF ReadPacket

\* The table of strips is a sequence.
LEMMA StripTable ==
  ASSUME file \in Files, Rewritable
  PROVE  DOMAIN Offsets = 1..Len(Offsets)
<1>1. Has("StripOffsets")
  BY DEF Rewritable
<1>2. Offsets \in Seq(U32)
  BY <1>1, FindType, EntryType DEF Offsets
<1> QED BY <1>2

\* The first strip begins with nothing in the buffer.
LEMMA CheckTagsUnpacks ==
  ASSUME IInv, PackedStream, CheckTags PROVE Unpacking'
<1>1. Taking /\ pc = "tags" /\ file' = file /\ file \in Files /\ Rewritable
  BY TwoParts DEF CheckTags, Taking, PackedStream
<1>2. pc' = "strips" /\ strip' = 1 /\ at' = 0 /\ raw' = <<>>
  BY <1>1 DEF CheckTags, Advance, Taking, Progress
<1>3. Offsets' = Offsets /\ Counts' = Counts
  BY <1>1, SameFile
<1>4. Buffer(file, Offsets)[0] = <<>> /\ 0 \in Nat
  BY <1>1, StreamFacts
<1>5. AtPacket'
  <2>1. CASE 1 <= Len(Offsets) /\ file.packets # <<>>
    <3>1. PICK p \in Seq(Packets) : p = file.packets[1]
      <4>1. 1 \in 1..Len(Offsets)
        BY <1>1, <2>1, StreamFacts
      <4> QED BY <1>1, <2>1, <4>1, StreamFacts
    <3>2. PICK o \in Nat : o = Offsets[1]
      <4>1. 1 \in 1..Len(Offsets)
        BY <1>1, <2>1, StreamFacts
      <4> QED BY <1>1, <4>1, StreamFacts
    <3>3. 0 \in 0..Len(p) /\ <<>> \in Seq(SUBSET (Nat \X Nat)) /\ 1 - 1 = 0
      OBVIOUS
    <3>4. Ends(p)[0] = 0 /\ Unpack(<<>>, p, o)[0] = <<>>
      <4>1. UnpacksTo(Unpack(<<>>, p, o), <<>>, p, o)
        BY <3>3, UnpackEquation
      <4>2. Unpack(<<>>, p, o)[0] = <<>>
        BY ONLY <4>1 DEF UnpacksTo
      <4> QED BY <4>2, EndsEquation
    <3> QED BY <1>1, <1>2, <1>3, <1>4, <2>1, <3>1, <3>2, <3>3, <3>4 DEF AtPacket
  <2>2. CASE ~(1 <= Len(Offsets) /\ file.packets # <<>>)
    <3>1. 1 - 1 = 0
      OBVIOUS
    <3> QED BY <1>1, <1>2, <1>3, <1>4, <2>2, <3>1 DEF AtPacket
  <2> QED BY <2>1, <2>2
<1>6. \A s \in 1..(strip' - 1) : Whole(file, s, Offsets[s], Counts[s])
  BY <1>2
<1> QED BY <1>1, <1>2, <1>3, <1>5, <1>6 DEF Unpacking

\* The next strip begins with the content of those before it in the buffer.
LEMMA NextStrip ==
  ASSUME IInv, Unpacking, PackedStream, pc = "strips", strip \in 1..Len(Offsets), file' = file,
         pc' = "strips", strip' = strip + 1, at' = 0,
         Whole(file, strip, Offsets[strip], Counts[strip]),
         raw' = Buffer(file, Offsets)[strip]
  PROVE  Unpacking'
<1>1. Taking /\ file \in Files /\ Len(Offsets) \in Nat
  BY TwoParts, StreamFacts DEF Taking
<1>2. Offsets' = Offsets /\ Counts' = Counts
  BY SameFile
<1>3. (strip + 1) - 1 = strip /\ strip \in Nat /\ strip \in 0..Len(Offsets)
  BY <1>1
<1>4. PICK before \in Seq(SUBSET (Nat \X Nat)) : before = Buffer(file, Offsets)[strip]
  <2>1. Buffer(file, Offsets) \in [0..Len(Offsets) -> Seq(SUBSET (Nat \X Nat))]
    BY <1>1, StreamFacts
  <2>2. Buffer(file, Offsets)[strip] \in Seq(SUBSET (Nat \X Nat))
    BY <1>3, <2>1
  <2> QED BY <2>2
<1>5. AtPacket'
  <2>1. CASE strip + 1 <= Len(Offsets) /\ file.packets # <<>>
    <3>1. strip + 1 \in 1..Len(Offsets)
      BY <1>1, <1>3, <2>1
    <3>2. PICK p \in Seq(Packets) : p = file.packets[strip + 1]
      BY <1>1, <2>1, <3>1, StreamFacts
    <3>3. PICK o \in Nat : o = Offsets[strip + 1]
      BY <1>1, <3>1, StreamFacts
    <3>4. 0 \in 0..Len(p)
      OBVIOUS
    <3>5. Ends(p)[0] = 0 /\ Unpack(before, p, o)[0] = before
      <4>1. UnpacksTo(Unpack(before, p, o), before, p, o)
        BY UnpackEquation
      <4>2. Unpack(before, p, o)[0] = before
        BY ONLY <4>1 DEF UnpacksTo
      <4> QED BY <4>2, EndsEquation
    <3> QED BY <1>2, <1>3, <1>4, <2>1, <3>2, <3>3, <3>4, <3>5 DEF AtPacket
  <2>2. CASE ~(strip + 1 <= Len(Offsets) /\ file.packets # <<>>)
    BY <1>2, <1>3, <2>2 DEF AtPacket
  <2> QED BY <2>1, <2>2
<1>6. \A s \in 1..strip : Whole(file, s, Offsets[s], Counts[s])
  <2>1. \A s \in 1..(strip - 1) : Whole(file, s, Offsets[s], Counts[s])
    BY DEF Unpacking
  <2>2. \A s \in 1..strip : s = strip \/ s \in 1..(strip - 1)
    BY <1>3
  <2> QED BY <2>1, <2>2
<1> QED BY <1>2, <1>3, <1>5, <1>6 DEF Unpacking

\* The end of a strip is reached when it has been unpacked, or is refused.
LEMMA EndStripUnpacks ==
  ASSUME IInv, Unpacking, PackedStream, EndStrip PROVE Unpacking'
<1>1. /\ Taking /\ Building /\ pc = "strips" /\ file' = file /\ file \in Files /\ Rewritable
      /\ strip <= Len(Offsets)
  BY TwoParts DEF EndStrip, Taking, PackedStream
<1>2. strip \in 1..Len(Offsets) /\ strip \in Nat
  BY <1>1, StreamFacts DEF Taking
<1>3. PICK o \in Nat, count \in Nat : o = Offsets[strip] /\ count = Counts[strip]
  BY <1>1, <1>2, StreamFacts
<1>4. AtPacket /\ (Compression = PackBits <=> file.packets # <<>>)
  BY <1>1 DEF Unpacking, PackedStream
<1>5. Buffer(file, Offsets)[strip] = AfterStrip(file, Buffer(file, Offsets)[strip - 1], strip, o)
  BY <1>1, <1>2, <1>3, StreamFacts
<1>6. CASE StripInside /\ Decompressed /\ strip' = strip + 1 /\ at' = 0
  <2>1. file.packets = <<>> /\ o \in DOMAIN file.yield /\ pc' = "strips"
        /\ raw' = raw \o [k \in 1..file.yield[o] |-> {<<o, k>>}]
    BY <1>1, <1>3, <1>4, <1>6 DEF Decompressed, AddBytes
  <2>2. raw = Buffer(file, Offsets)[strip - 1]
    BY <1>4, <2>1 DEF AtPacket
  <2>3. raw' = Buffer(file, Offsets)[strip]
    BY <1>5, <2>1, <2>2 DEF AfterStrip
  <2>4. Whole(file, strip, o, count)
    BY <2>1 DEF Whole
  <2> QED BY <1>1, <1>2, <1>3, <1>6, <2>1, <2>3, <2>4, NextStrip
<1>7. CASE StripInside /\ EndPackBits /\ strip' = strip + 1 /\ at' = 0
  <2>1. file.packets # <<>> /\ at = count /\ pc' = "strips" /\ raw' = raw \o <<>>
    BY <1>1, <1>3, <1>4, <1>7 DEF EndPackBits, AddBytes
  <2>2. raw' = raw
    <3>1. raw \in Seq(SUBSET (Nat \X Nat))
      BY <1>1 DEF Taking
    <3> QED BY <2>1, <3>1
  <2>3. PICK p \in Seq(Packets) : p = file.packets[strip]
    BY <1>1, <1>2, <2>1, StreamFacts
  <2>4. PICK j \in 0..Len(p) :
          at = Ends(p)[j] /\ raw = Unpack(Buffer(file, Offsets)[strip - 1], p, o)[j]
    BY <1>1, <1>3, <1>4, <2>1, <2>3 DEF AtPacket
  <2>5. Len(p) \in Nat /\ Len(p) \in 0..Len(p)
    OBVIOUS
  <2>6. Whole(file, strip, o, count) \/ CutOff(p, count)
    BY <1>1, <1>2, <1>3, <2>1, <2>3, StripTable DEF PackedStream
  <2>7. j = Len(p)
    <3>1. SUFFICES ASSUME j # Len(p) PROVE FALSE
      OBVIOUS
    <3>2. j \in 0..(Len(p) - 1) /\ Len(p) - 1 \in 0..Len(p) /\ j \in 0..(Len(p) - 1)
      BY <2>5, <3>1
    <3>3. Ends(p)[j] < Ends(p)[Len(p)] /\ Ends(p)[Len(p)] \in Nat /\ Ends(p)[j] \in Nat
      BY <2>5, <3>2, EndsGrow
    <3>4. Ends(p)[j] <= Ends(p)[Len(p) - 1] /\ Ends(p)[Len(p) - 1] \in Nat
      BY <3>2, EndsGrow
    <3>5. ~Whole(file, strip, o, count)
      BY <2>1, <2>3, <2>4, <3>3 DEF Whole
    <3>6. ~CutOff(p, count)
      BY <2>1, <2>4, <3>3, <3>4 DEF CutOff
    <3> QED BY <2>6, <3>5, <3>6
  <2>8. Whole(file, strip, o, count)
    BY <2>1, <2>3, <2>4, <2>7 DEF Whole
  <2>9. raw' = Buffer(file, Offsets)[strip]
    BY <1>5, <2>1, <2>2, <2>3, <2>4, <2>7 DEF AfterStrip
  <2> QED BY <1>1, <1>2, <1>3, <1>7, <2>1, <2>8, <2>9, NextStrip
<1>8. CASE Undecodable /\ Refuse
  <2>1. StripInside
    BY <1>1, <1>2, StreamFacts DEF StripInside
  <2>2. file.packets = <<>> /\ o \notin DOMAIN file.yield
    BY <1>3, <1>4, <1>8, <2>1 DEF Undecodable
  <2>3. ~AllWhole
    BY <1>1, <1>2, <1>3, <2>2, StripTable DEF AllWhole, Whole
  <2>4. ~Enough' /\ pc' = "done" /\ answer' = "refused"
    BY <1>1, <1>8, <2>3, SameStream DEF Enough, Refuse
  <2> QED BY <2>4 DEF Unpacking
<1> QED BY <1>6, <1>7, <1>8 DEF EndStrip

\* All strips have been unpacked when the buffer is cut to the size of the image.
LEMMA TrimUnpacks ==
  ASSUME IInv, Unpacking, PackedStream, TrimToImage PROVE Unpacking'
<1>1. /\ Taking /\ Building /\ pc = "strips" /\ file' = file /\ file \in Files /\ Rewritable
      /\ strip = Len(Offsets) + 1
  BY TwoParts DEF TrimToImage, Taking, PackedStream
<1>2. PICK n \in Nat : n = Len(Offsets)
  BY <1>1, StreamFacts
<1>3. ~(strip <= n) /\ strip - 1 = n
  BY <1>1, <1>2
<1>4. raw = StripsContent
  BY <1>1, <1>2, <1>3 DEF Unpacking, AtPacket, StripsContent
<1>5. AllWhole
  BY <1>1, <1>2, <1>3, StripTable DEF Unpacking, AllWhole
<1>6. CASE Len(raw) >= Expected /\ pc' \in {"undo", "rebuild"}
  <2>1. Enough'
    BY <1>1, <1>4, <1>5, <1>6, SameStream DEF Enough
  <2> QED BY <1>6, <2>1 DEF Unpacking
<1>7. CASE Len(raw) < Expected /\ Refuse
  <2>1. Len(raw) \in Nat /\ Expected \in Nat
    BY <1>1, ExpectedType DEF Taking
  <2>2. ~(Len(StripsContent) >= Expected)
    BY <1>4, <1>7, <2>1
  <2>3. ~Enough' /\ pc' = "done" /\ answer' = "refused"
    BY <1>1, <1>7, <2>2, SameStream DEF Enough, Refuse
  <2> QED BY <2>3 DEF Unpacking
<1> QED BY <1>6, <1>7 DEF TrimToImage

LEMMA UnpackingInit == Init => Unpacking
BY DEF Init, Unpacking

LEMMA UnpackingStep == ASSUME IInv, Unpacking, [Next]_vars PROVE Unpacking'
<1>1. file' = file
  BY DEF Next, vars, CheckHeader, CheckTags, ReadPacket, EndStrip, TrimToImage, UndoByte, UndoEnd,
         RebuildEntry, Write, Finish
<1> SUFFICES ASSUME PackedStream PROVE Unpacking'
  BY <1>1, SameStream DEF Unpacking
<1>3. Taking /\ Building
  BY TwoParts
<1>4. CASE CheckHeader
  <2>1. pc' = "tags"
    BY <1>4 DEF CheckHeader, PackedStream, Advance
  <2> QED BY <2>1 DEF Unpacking
<1>5. CASE CheckTags
  BY <1>5, CheckTagsUnpacks
<1>6. CASE ReadPacket
  BY <1>6, ReadPacketUnpacks
<1>7. CASE EndStrip
  BY <1>7, EndStripUnpacks
<1>8. CASE TrimToImage
  BY <1>8, TrimUnpacks
<1>9. CASE UndoByte \/ UndoEnd
  <2>1. pc = "undo" /\ pc' \in {"undo", "rebuild"}
    BY <1>9 DEF UndoByte, UndoEnd, Advance
  <2>2. Enough'
    BY <1>1, <2>1, SameStream DEF Unpacking
  <2> QED BY <2>1, <2>2 DEF Unpacking
<1>10. CASE RebuildEntry
  <2>1. pc = "rebuild" /\ Enough'
    BY <1>1, <1>10, SameStream DEF RebuildEntry, Write, Unpacking
  <2>2. entry \in DOMAIN file.entries
    <3>1. file.entries \in Seq(Entries)
      BY <1>3, FileType DEF Taking
    <3> QED BY <1>3, <1>10, <3>1 DEF RebuildEntry, Write, Building
  <2>3. ValuesInside(file, file.entries[entry])
    BY <2>2 DEF PackedStream
  <2>4. pc' = "rebuild"
    BY <1>10, <2>1, <2>3 DEF RebuildEntry, Write
  <2> QED BY <2>1, <2>4 DEF Unpacking
<1>11. CASE Finish
  <2>1. pc = "rebuild" /\ Enough' /\ pc' = "done" /\ answer' = "rewritten"
    BY <1>1, <1>11, SameStream DEF Finish, Unpacking
  <2> QED BY <2>1 DEF Unpacking
<1>12. CASE UNCHANGED vars
  <2>1. /\ pc' = pc /\ strip' = strip /\ at' = at /\ raw' = raw /\ answer' = answer
        /\ Offsets' = Offsets /\ Counts' = Counts /\ Enough' = Enough
    BY <1>1, <1>12, SameFile, SameStream DEF vars
  <2>2. AtPacket' = AtPacket
    BY <1>1, <2>1 DEF AtPacket
  <2> QED BY <1>1, <2>1, <2>2 DEF Unpacking
<1> QED BY <1>4, <1>5, <1>6, <1>7, <1>8, <1>9, <1>10, <1>11, <1>12 DEF Next

LEMMA UnpackingNext == IInv /\ Unpacking /\ [Next]_vars => Unpacking'
BY UnpackingStep

\* Every PackBits packet is unpacked to what it stands for, and a stream that only
\* its strips can be a reason to refuse is refused for a good one.
THEOREM RewriteUnpacksWhatWasPacked == Spec => []UnpacksWhatWasPacked
<1>1. IInv /\ Unpacking => UnpacksWhatWasPacked
  <2> SUFFICES ASSUME IInv, Unpacking, PackedStream PROVE UnpacksWhatWasPacked
    BY DEF UnpacksWhatWasPacked
  <2>2. Taking /\ file \in Files /\ Rewritable
    BY TwoParts DEF Taking, PackedStream
  <2>3. ASSUME pc = "strips", strip > Len(Offsets) PROVE AllWhole /\ raw = StripsContent
    <3>1. PICK n \in Nat : n = Len(Offsets)
      BY <2>2, StreamFacts
    <3>2. strip = n + 1
      BY <2>2, <2>3, <3>1 DEF Taking, Progress
    <3>3. ~(strip <= n) /\ strip - 1 = n
      BY <3>1, <3>2
    <3> QED BY <2>2, <2>3, <3>1, <3>3, StripTable
            DEF Unpacking, AtPacket, AllWhole, StripsContent
  <2> QED BY <2>3 DEF Unpacking, Enough, UnpacksWhatWasPacked
<1> QED BY InitIInv, UnpackingInit, StepIInv, UnpackingNext, <1>1, PTL DEF Spec

-----------------------------------------------------------------------------
(* The directory as the decoder's definitions read it.                     *)

\* The operators of the format that the decoder's module has from TiffFile and
\* the library are the ones used here.
LEMMA SameFormat ==
  /\ Raster!ScalarTags = ScalarTags /\ Raster!ArrayTags = ArrayTags
  /\ \A f, e : Raster!ValuesInside(f, e) = ValuesInside(f, e)
  /\ \A f : Raster!DirectoryInside(f) = DirectoryInside(f)
  /\ \A S : Raster!Cardinality(S) = Cardinality(S)
<1>1. Raster!ScalarTags = ScalarTags /\ Raster!ArrayTags = ArrayTags
  BY DEF Raster!ScalarTags, ScalarTags, Raster!ArrayTags, ArrayTags
<1>2. \A f, e : Raster!ValuesInside(f, e) = ValuesInside(f, e)
  BY DEF Raster!ValuesInside, ValuesInside, Raster!Inline, Inline,
         Raster!ValueBytes, ValueBytes, Raster!TypeSize, TypeSize
<1>3. \A f : Raster!DirectoryInside(f) = DirectoryInside(f)
  BY DEF Raster!DirectoryInside, DirectoryInside
<1>4. \A S : Raster!Cardinality(S) = Cardinality(S)
  BY DEF Raster!Cardinality, Cardinality
<1> QED BY <1>1, <1>2, <1>3, <1>4

\* The kth entry is the only one with this tag; no entry has it.
OnlyAt(entries, tag, k) ==
  k \in 1..Len(entries) /\ \A j \in 1..Len(entries) : entries[j].tag = tag <=> j = k
NoneWith(entries, tag) == \A j \in 1..Len(entries) : entries[j].tag # tag

\* The values of a tag that is given once or not at all.
LEMMA ValuesOnly ==
  ASSUME NEW f, f.entries \in Seq(Entries), NEW tag, NEW default
  PROVE  /\ NoneWith(f.entries, tag) => Raster!Values(f, tag, default) = default
         /\ \A k : OnlyAt(f.entries, tag, k) => Raster!Values(f, tag, default) = f.entries[k].vals
<1>1. PICK entries \in Seq(Entries) : entries = f.entries
  OBVIOUS
<1>2. PICK found : found = {k \in DOMAIN entries : entries[k].tag = tag}
  OBVIOUS
<1>3. Raster!Values(f, tag, default)
        = IF found = {} THEN default ELSE entries[Raster!Max(found)].vals
  BY <1>1, <1>2 DEF Raster!Values
<1>4. DOMAIN entries = 1..Len(entries) /\ Len(entries) \in Nat
  OBVIOUS
<1>5. NoneWith(entries, tag) => found = {}
  BY <1>2, <1>4 DEF NoneWith
<1>6. ASSUME NEW k, OnlyAt(entries, tag, k) PROVE found # {} /\ Raster!Max(found) = k
  <2>1. found = {k} /\ k \in Int
    BY <1>2, <1>4, <1>6 DEF OnlyAt
  <2>2. Raster!Max(found) = CHOOSE x \in found : \A y \in found : x >= y
    BY DEF Raster!Max
  <2> QED BY <2>1, <2>2
<1> QED BY <1>1, <1>3, <1>5, <1>6

\* A field the directory does not have is the default, one it has once its first value.
LEMMA ScalarOnly ==
  ASSUME NEW f, f.entries \in Seq(Entries), NEW tag, NEW default
  PROVE  /\ NoneWith(f.entries, tag) => Raster!Scalar(f, tag, default) = default
         /\ \A k : OnlyAt(f.entries, tag, k) /\ f.entries[k].vals # <<>> =>
              Raster!Scalar(f, tag, default) = f.entries[k].vals[1]
<1>1. Raster!Scalar(f, tag, default) = Head(Raster!Values(f, tag, <<default>>))
  BY DEF Raster!Scalar
<1>2. ASSUME NEW k, OnlyAt(f.entries, tag, k), f.entries[k].vals # <<>>
      PROVE  Raster!Scalar(f, tag, default) = f.entries[k].vals[1]
  <2>1. Raster!Values(f, tag, <<default>>) = f.entries[k].vals
    BY <1>2, ValuesOnly
  <2>2. f.entries[k].vals \in Seq(U32)
    <3>1. f.entries[k] \in Entries
      BY <1>2, ElementOf DEF OnlyAt
    <3> QED BY <3>1 DEF Entries
  <2> QED BY <1>1, <1>2, <2>1, <2>2
<1>3. ASSUME NoneWith(f.entries, tag) PROVE Raster!Scalar(f, tag, default) = default
  <2>1. Raster!Values(f, tag, <<default>>) = <<default>>
    BY <1>3, ValuesOnly
  <2> QED BY <1>1, <2>1
<1> QED BY <1>2, <1>3

\* The rewriter finds the same entry.
LEMMA FindOnly ==
  ASSUME file \in Files, NEW tag
  PROVE  /\ NoneWith(file.entries, tag) => ~Has(tag)
         /\ \A k : OnlyAt(file.entries, tag, k) =>
              Has(tag) /\ Find(tag) = file.entries[k] /\ Positions(tag) = {k}
<1>1. DOMAIN file.entries = 1..Len(file.entries)
  BY FileType
<1>2. NoneWith(file.entries, tag) => ~Has(tag)
  BY <1>1 DEF NoneWith, Has, Positions
<1>3. ASSUME NEW k, OnlyAt(file.entries, tag, k)
      PROVE  Has(tag) /\ Find(tag) = file.entries[k] /\ Positions(tag) = {k}
  <2>1. Positions(tag) = {k} /\ k \in Int
    BY <1>1, <1>3 DEF OnlyAt, Positions
  <2>2. (CHOOSE i \in {k} : \A j \in {k} : i <= j) = k
    BY <2>1
  <2> QED BY <2>1, <2>2 DEF Has, Find
<1> QED BY <1>2, <1>3

\* Every tag is given once or not at all.
LEMMA TagCases ==
  ASSUME file \in Files, UniqueTags, NEW tag
  PROVE  NoneWith(file.entries, tag) \/ \E k : OnlyAt(file.entries, tag, k)
<1>1. DOMAIN file.entries = 1..Len(file.entries)
  BY FileType
<1> QED BY <1>1 DEF UniqueTags, NoneWith, OnlyAt

\* An entry that can be read as numbers.
Numbers(e) == e.type \in {"BYTE", "SHORT", "LONG"} /\ ValuesInside(file, e)

\* A field of numbers is read as its values.
LEMMA NumbersRead ==
  ASSUME NEW e, Numbers(e) PROVE IntArray(e)
BY DEF Numbers, IntArray, TypeSize

\* Both read the same scalar.
LEMMA SameScalar ==
  ASSUME file \in Files, UniqueTags, NEW tag, NEW default,
         \A k \in 1..Len(file.entries) : file.entries[k].tag = tag =>
           Numbers(file.entries[k]) /\ Len(file.entries[k].vals) = 1
  PROVE  /\ ReadScalar(tag, default) = Raster!Scalar(file, tag, default)
         /\ Raster!Scalar(file, tag, default) # default => Has(tag)
<1>1. file.entries \in Seq(Entries)
  BY FileType
<1>2. CASE NoneWith(file.entries, tag)
  BY <1>1, <1>2, FindOnly, ScalarOnly DEF ReadScalar
<1>3. CASE \E k : OnlyAt(file.entries, tag, k)
  <2>1. PICK k : OnlyAt(file.entries, tag, k)
    BY <1>3
  <2>2. PICK e \in Entries : e = file.entries[k] /\ Numbers(e) /\ Len(e.vals) = 1
    <3>1. k \in 1..Len(file.entries) /\ file.entries[k].tag = tag
      BY <2>1 DEF OnlyAt
    <3>2. file.entries[k] \in Entries
      BY <1>1, <3>1, ElementOf
    <3> QED BY <3>1, <3>2
  <2>3. e.vals # <<>>
    <3>1. PICK v : v = e.vals /\ Len(v) = 1
      BY <2>2
    <3>2. Len(<<>>) = 0
      OBVIOUS
    <3>3. v # <<>>
      BY <3>1, <3>2
    <3> QED BY <3>1, <3>3
  <2>4. Has(tag) /\ Find(tag) = e /\ Raster!Scalar(file, tag, default) = e.vals[1]
    BY <1>1, <2>1, <2>2, <2>3, FindOnly, ScalarOnly
  <2> QED BY <2>2, <2>3, <2>4, NumbersRead DEF ReadScalar
<1> QED BY <1>2, <1>3, TagCases

\* Both read the same values.
LEMMA SameArray ==
  ASSUME file \in Files, UniqueTags, NEW tag,
         \A k \in 1..Len(file.entries) : file.entries[k].tag = tag => Numbers(file.entries[k])
  PROVE  /\ Has(tag) => IntArray(Find(tag)) /\ Raster!Values(file, tag, <<>>) = Find(tag).vals
         /\ ~Has(tag) => Raster!Values(file, tag, <<>>) = <<>>
<1>1. file.entries \in Seq(Entries)
  BY FileType
<1>2. CASE NoneWith(file.entries, tag)
  BY <1>1, <1>2, FindOnly, ValuesOnly
<1>3. CASE \E k : OnlyAt(file.entries, tag, k)
  <2>1. PICK k : OnlyAt(file.entries, tag, k)
    BY <1>3
  <2>2. Numbers(file.entries[k])
    BY <2>1 DEF OnlyAt
  <2> QED BY <1>1, <2>1, <2>2, FindOnly, ValuesOnly, NumbersRead
<1> QED BY <1>2, <1>3, TagCases

-----------------------------------------------------------------------------
(* A compressed image is one the rewriter takes, and has the geometry that *)
(* the rewriter reads.                                                     *)

SameGeometry ==
  LET g == Raster!Geometry(file) IN
  /\ g.width = Width /\ g.length = Height /\ g.samples = Samples
  /\ g.offsets = Offsets /\ g.counts = Counts
  /\ Raster!Scalar(file, "Predictor", 1) = Predictor

\* Where the decoder reads each part of the geometry.
LEMMA GeometryFields ==
  ASSUME NEW f
  PROVE  LET g == Raster!Geometry(f) IN
         /\ g.width = Raster!Scalar(f, "ImageWidth", 0)
         /\ g.length = Raster!Scalar(f, "ImageLength", 0)
         /\ g.samples = Raster!Scalar(f, "SamplesPerPixel", 1)
         /\ g.rows = IF Raster!Scalar(f, "RowsPerStrip", MaxU32) = MaxU32 THEN g.length
                     ELSE Raster!Scalar(f, "RowsPerStrip", MaxU32)
         /\ g.photometric = Raster!Scalar(f, "Photometric", MaxU32)
         /\ g.bits = Raster!Values(f, "BitsPerSample", <<>>)
         /\ g.offsets = Raster!Values(f, "StripOffsets", <<>>)
         /\ g.counts = Raster!Values(f, "StripByteCounts", <<>>)
BY DEF Raster!Geometry

\* Its entries can be read.
LEMMA ImageEntries ==
  ASSUME file \in Files, CompressedImage
  PROVE  \A k \in 1..Len(file.entries) :
           LET e == file.entries[k] IN
           /\ e.tag \in ScalarTags \cup ArrayTags => Numbers(e)
           /\ e.tag \in ScalarTags => Len(e.vals) = 1
           /\ e.tag = "Predictor" => Numbers(e) /\ e.vals \in {<<1>>, <<2>>}
           /\ e.tag \notin {"TileWidth", "TileOffsets"}
<1>1. DOMAIN file.entries = 1..Len(file.entries)
  BY FileType
<1>2. ASSUME NEW k \in 1..Len(file.entries), NEW e, e = file.entries[k]
      PROVE  /\ e.tag \in ScalarTags \cup ArrayTags => Numbers(e)
             /\ e.tag \in ScalarTags => Len(e.vals) = 1
             /\ e.tag = "Predictor" => Numbers(e) /\ e.vals \in {<<1>>, <<2>>}
             /\ e.tag \notin {"TileWidth", "TileOffsets"}
  <2>1. ValuesInside(file, e) /\ PredictorKnown(e) /\ e.tag \notin {"TileWidth", "TileOffsets"}
    BY <1>1, <1>2 DEF CompressedImage
  <2>2. Raster!WellFormed(file)
    BY DEF CompressedImage
  <2>3. e.tag \in ScalarTags \cup ArrayTags =>
          /\ e.type \in {"BYTE", "SHORT", "LONG"}
          /\ e.tag \in ScalarTags => Len(e.vals) = 1
    BY <1>1, <1>2, <2>2, SameFormat DEF Raster!WellFormed
  <2> QED BY <2>1, <2>3 DEF Numbers, PredictorKnown
<1> QED BY <1>2

\* What the tags of a compressed image say.
LEMMA ImageTags ==
  ASSUME file \in Files, CompressedImage
  PROVE  /\ SameGeometry
         /\ Compression = Raster!Scalar(file, "Compression", 1)
         /\ ReadScalar("PlanarConfig", 1) = Raster!Scalar(file, "PlanarConfig", 1)
         /\ Width # 0 => Has("ImageWidth")
         /\ Height # 0 => Has("ImageLength")
<1>1. UniqueTags
  BY DEF CompressedImage
<1>2. ASSUME NEW tag \in ScalarTags, NEW default
      PROVE  /\ ReadScalar(tag, default) = Raster!Scalar(file, tag, default)
             /\ Raster!Scalar(file, tag, default) # default => Has(tag)
  <2>1. \A k \in 1..Len(file.entries) : file.entries[k].tag = tag =>
          Numbers(file.entries[k]) /\ Len(file.entries[k].vals) = 1
    BY ImageEntries
  <2> QED BY <1>1, <2>1, SameScalar
<1>3. Predictor = Raster!Scalar(file, "Predictor", 1)
  <2>1. \A k \in 1..Len(file.entries) : file.entries[k].tag = "Predictor" =>
          Numbers(file.entries[k]) /\ Len(file.entries[k].vals) = 1
    <3>1. Len(<<1>>) = 1 /\ Len(<<2>>) = 1
      OBVIOUS
    <3> QED BY <3>1, ImageEntries
  <2> QED BY <1>1, <2>1, SameScalar DEF Predictor
<1>4. /\ "ImageWidth" \in ScalarTags /\ "ImageLength" \in ScalarTags
      /\ "SamplesPerPixel" \in ScalarTags /\ "Compression" \in ScalarTags
      /\ "PlanarConfig" \in ScalarTags
  BY DEF ScalarTags
<1>5. /\ Width = Raster!Scalar(file, "ImageWidth", 0)
      /\ Height = Raster!Scalar(file, "ImageLength", 0)
      /\ Samples = Raster!Scalar(file, "SamplesPerPixel", 1)
      /\ Compression = Raster!Scalar(file, "Compression", 1)
      /\ ReadScalar("PlanarConfig", 1) = Raster!Scalar(file, "PlanarConfig", 1)
      /\ Width # 0 => Has("ImageWidth")
      /\ Height # 0 => Has("ImageLength")
  BY <1>2, <1>4 DEF Width, Height, Samples, Compression
<1>6. ASSUME NEW tag \in {"StripOffsets", "StripByteCounts"},
             Raster!Values(file, tag, <<>>) # <<>>
      PROVE  Has(tag) /\ IntArray(Find(tag)) /\ Raster!Values(file, tag, <<>>) = Find(tag).vals
  <2>1. \A k \in 1..Len(file.entries) : file.entries[k].tag = tag => Numbers(file.entries[k])
    BY ImageEntries DEF ArrayTags
  <2> QED BY <1>1, <1>6, <2>1, SameArray
<1>7. PICK g : g = Raster!Geometry(file)
  OBVIOUS
<1>8. /\ g.width = Width /\ g.length = Height /\ g.samples = Samples
      /\ g.offsets = Raster!Values(file, "StripOffsets", <<>>)
      /\ g.counts = Raster!Values(file, "StripByteCounts", <<>>)
  BY <1>5, <1>7, GeometryFields
<1>9. /\ Len(g.offsets) = Len(g.counts) /\ g.length > 0
      /\ UNION {Raster!Rows(g, s) : s \in DOMAIN g.offsets} = 0..(g.length - 1)
  BY <1>7 DEF CompressedImage, StripsWhole, Raster!BaselineImage
<1>10. g.offsets # <<>>
  <2>1. SUFFICES ASSUME g.offsets = <<>> PROVE FALSE
    OBVIOUS
  <2>2. DOMAIN g.offsets = {}
    BY <2>1
  <2>3. 0..(g.length - 1) = {}
    BY <1>9, <2>2
  <2>4. g.length \in Nat
    <3>1. 0 \in U32 /\ U32 \subseteq Nat
      BY MaxU32Assumption DEF U32
    <3> QED BY <1>8, <3>1, ScalarType DEF Height
  <2>5. 0 \in 0..(g.length - 1)
    BY <1>9, <2>4
  <2> QED BY <2>3, <2>5
<1>11. g.offsets = Offsets /\ Offsets \in Seq(U32)
  <2>1. Has("StripOffsets") /\ g.offsets = Offsets
    BY <1>6, <1>8, <1>10 DEF Offsets
  <2> QED BY <2>1, FindType, EntryType DEF Offsets
<1>12. g.counts # <<>>
  <2>1. PICK v \in Seq(U32) : v = g.offsets /\ v # <<>>
    BY <1>10, <1>11
  <2>2. Len(v) # 0 /\ Len(<<>>) = 0
    BY <2>1
  <2> QED BY <1>9, <2>1, <2>2
<1>13. g.counts = Counts
  BY <1>6, <1>8, <1>12 DEF Counts
<1> QED BY <1>3, <1>5, <1>7, <1>8, <1>11, <1>13 DEF SameGeometry

\* The rewriter takes it.
LEMMA ImageRewritable ==
  ASSUME file \in Files, CompressedImage
  PROVE  Rewritable
<1>1. UniqueTags
  BY DEF CompressedImage
<1>2. PICK g : g = Raster!Geometry(file)
  OBVIOUS
<1>3. /\ g.width = Width /\ g.length = Height /\ g.samples = Samples
      /\ g.offsets = Offsets /\ g.counts = Counts
      /\ Raster!Scalar(file, "Predictor", 1) = Predictor
      /\ g.offsets = Raster!Values(file, "StripOffsets", <<>>)
      /\ g.counts = Raster!Values(file, "StripByteCounts", <<>>)
      /\ g.bits = Raster!Values(file, "BitsPerSample", <<>>)
  BY <1>2, ImageTags, GeometryFields DEF SameGeometry
<1>4. /\ Len(g.offsets) = Len(g.counts)
      /\ Raster!Scalar(file, "PlanarConfig", 1) = 1
      /\ g.width > 0 /\ g.length > 0 /\ g.samples \in {1, 3}
      /\ g.bits \in {<<8>>, <<8, 8, 8>>}
      /\ UNION {Raster!Rows(g, s) : s \in DOMAIN g.offsets} = 0..(g.length - 1)
  BY <1>2 DEF CompressedImage, StripsWhole, Raster!BaselineImage
<1>5. Width \in U32 /\ Height \in U32 /\ U32 \subseteq Nat
  <2>1. 0 \in U32 /\ U32 \subseteq Nat
    BY MaxU32Assumption DEF U32
  <2> QED BY <2>1, ScalarType DEF Width, Height
<1>6. Width # 0 /\ Height # 0 /\ Samples # 0 /\ Has("ImageWidth") /\ Has("ImageLength")
  <2>1. Width # 0 /\ Height # 0 /\ Samples # 0
    BY <1>3, <1>4, <1>5
  <2> QED BY <2>1, ImageTags
<1>7. ASSUME NEW tag \in ArrayTags
      PROVE  /\ Has(tag) => IntArray(Find(tag)) /\ Raster!Values(file, tag, <<>>) = Find(tag).vals
             /\ ~Has(tag) => Raster!Values(file, tag, <<>>) = <<>>
  <2>1. \A k \in 1..Len(file.entries) : file.entries[k].tag = tag => Numbers(file.entries[k])
    BY ImageEntries
  <2> QED BY <1>1, <2>1, SameArray
<1>8. "BitsPerSample" \in ArrayTags /\ "StripOffsets" \in ArrayTags /\ "StripByteCounts" \in ArrayTags
  BY DEF ArrayTags
<1>9. ReadScalar("BitsPerSample", 1) = 8
  <2>1. g.bits # <<>> /\ g.bits[1] = 8
    <3>1. <<8>>[1] = 8 /\ <<8, 8, 8>>[1] = 8 /\ <<8>> # <<>> /\ <<8, 8, 8>> # <<>>
      OBVIOUS
    <3> QED BY <1>4, <3>1
  <2>2. /\ Has("BitsPerSample") /\ IntArray(Find("BitsPerSample"))
        /\ g.bits = Find("BitsPerSample").vals
    BY <1>3, <1>7, <1>8, <2>1
  <2> QED BY <2>1, <2>2 DEF ReadScalar
<1>10. Offsets # <<>>
  <2>1. SUFFICES ASSUME Offsets = <<>> PROVE FALSE
    OBVIOUS
  <2>2. DOMAIN g.offsets = {}
    <3>1. g.offsets = <<>>
      BY <1>3, <2>1
    <3> QED BY <3>1
  <2>3. 0..(g.length - 1) = {}
    BY <1>4, <2>2
  <2>4. 0 \in 0..(g.length - 1)
    BY <1>3, <1>4, <1>5
  <2> QED BY <2>3, <2>4
<1>11. Has("StripOffsets") /\ IntArray(Find("StripOffsets"))
  BY <1>3, <1>7, <1>8, <1>10
<1>12. Counts # <<>>
  <2>1. PICK v \in Seq(U32) : v = Offsets /\ v # <<>>
    BY <1>10, <1>11, FindType, EntryType DEF Offsets
  <2>2. Len(v) # 0 /\ Len(<<>>) = 0
    BY <2>1
  <2> QED BY <1>3, <1>4, <2>1, <2>2
<1>13. Has("StripByteCounts") /\ IntArray(Find("StripByteCounts"))
  BY <1>3, <1>7, <1>8, <1>12
<1>14. ~Has("TileWidth") /\ ~Has("TileOffsets")
  <2>1. DOMAIN file.entries = 1..Len(file.entries)
    BY FileType
  <2> QED BY <2>1, ImageEntries DEF Has, Positions
<1>15. Predictor \in {1, 2}
  <2>1. CASE NoneWith(file.entries, "Predictor")
    BY <2>1, <1>3, FileType, ScalarOnly
  <2>2. CASE \E k : OnlyAt(file.entries, "Predictor", k)
    <3>1. PICK k : OnlyAt(file.entries, "Predictor", k)
      BY <2>2
    <3>2. file.entries[k].vals \in {<<1>>, <<2>>}
      BY <3>1, ImageEntries DEF OnlyAt
    <3>3. <<1>> # <<>> /\ <<2>> # <<>> /\ <<1>>[1] = 1 /\ <<2>>[1] = 2
      OBVIOUS
    <3>4. file.entries[k].vals # <<>> /\ file.entries[k].vals[1] \in {1, 2}
      BY <3>2, <3>3
    <3> QED BY <1>3, <3>1, <3>4, FileType, ScalarOnly
  <2> QED BY <1>1, <2>1, <2>2, TagCases
<1>16. Compression \in Compressions /\ ReadScalar("PlanarConfig", 1) = 1
  BY <1>4, ImageTags DEF CompressedImage
<1>17. \A tag \in {"ImageWidth", "ImageLength", "StripOffsets", "StripByteCounts"} : Has(tag)
  BY <1>6, <1>11, <1>13
<1>18. Len(Offsets) = Len(Counts)
  BY <1>3, <1>4
<1> QED BY <1>6, <1>9, <1>10, <1>11, <1>13, <1>14, <1>15, <1>16, <1>17, <1>18 DEF Rewritable

\* Only its strips can be a reason to refuse it, and they are none.
LEMMA ImageTaken ==
  ASSUME file \in Files, CompressedImage
  PROVE  PackedStream /\ AllWhole
<1>1. Rewritable /\ HeaderInside
  BY ImageRewritable DEF CompressedImage
<1>2. \A k \in DOMAIN file.entries : ValuesInside(file, file.entries[k])
  BY DEF CompressedImage
<1>3. Compression = PackBits <=> file.packets # <<>>
  BY ImageTags DEF CompressedImage
<1>4. StripsWhole(Offsets, Counts)
  <2>1. /\ Raster!Geometry(file).offsets = Offsets /\ Raster!Geometry(file).counts = Counts
        /\ StripsWhole(Raster!Geometry(file).offsets, Raster!Geometry(file).counts)
    BY ImageTags DEF CompressedImage, SameGeometry
  <2> QED BY <2>1
<1> QED BY <1>1, <1>2, <1>3, <1>4 DEF StripsWhole, PackedStream, AllWhole

-----------------------------------------------------------------------------
(* The bytes of the strips, one after the other.                           *)

\* Unpacking adds to what is in the buffer before.
LEMMA UnpackAppends ==
  ASSUME NEW p \in Seq(Packets), NEW before \in Seq(SUBSET (Nat \X Nat)), NEW o \in Nat
  PROVE  Unpack(before, p, o)[Len(p)] = before \o Unpack(<<>>, p, o)[Len(p)]
<1>0. PICK n \in Nat : n = Len(p)
  OBVIOUS
<1>1. PICK T : T = SUBSET (Nat \X Nat) /\ before \in Seq(T) /\ <<>> \in Seq(T)
  BY EmptySeq
<1>2. PICK u, e : u = Unpack(before, p, o) /\ e = Unpack(<<>>, p, o)
  OBVIOUS
<1>3. /\ u[0] = before /\ e \in [0..n -> Seq(T)] /\ e[0] = <<>>
      /\ \A k \in 1..n : u[k] = u[k - 1] \o PacketBytes(p[k], o + Ends(p)[k - 1])
      /\ \A k \in 1..n : e[k] = e[k - 1] \o PacketBytes(p[k], o + Ends(p)[k - 1])
  <2>1. /\ u[0] = before
        /\ \A k \in 1..n : u[k] = u[k - 1] \o PacketBytes(p[k], o + Ends(p)[k - 1])
    <3>1. UnpacksTo(Unpack(before, p, o), before, p, o)
      BY UnpackEquation
    <3> QED BY <1>0, <1>2, <3>1 DEF UnpacksTo
  <2>2. <<>> \in Seq(SUBSET (Nat \X Nat))
    BY <1>1
  <2>3. /\ e \in [0..n -> Seq(T)] /\ e[0] = <<>>
        /\ \A k \in 1..n : e[k] = e[k - 1] \o PacketBytes(p[k], o + Ends(p)[k - 1])
    <3>1. UnpacksTo(Unpack(<<>>, p, o), <<>>, p, o)
      BY <2>2, UnpackEquation
    <3> QED BY <1>0, <1>1, <1>2, <3>1 DEF UnpacksTo
  <2> QED BY <2>1, <2>3
<1>4. PICK K : K = {k \in 0..n : u[k] = before \o e[k]}
  OBVIOUS
<1>5. 0 \in K /\ K \in SUBSET (0..n)
  <2>1. \A U : \A x \in Seq(U) : x \o <<>> = x
    BY ONLY ConcatEmptySeq
  <2>2. before \o <<>> = before
    BY ONLY <1>1, <2>1, Zenon
  <2>3. 0 \in 0..n
    OBVIOUS
  <2> QED BY <1>3, <1>4, <2>2, <2>3
<1>6. ASSUME NEW k \in 0..(n - 1), k \in K PROVE k + 1 \in K
  <2>1. k \in 0..n /\ k + 1 \in 0..n /\ k + 1 \in 1..n /\ (k + 1) - 1 = k
    BY <1>0
  <2>2. PICK b \in Seq(T) : b = PacketBytes(p[k + 1], o + Ends(p)[k])
    <3>1. p[k + 1] \in Packets /\ k \in 0..Len(p)
      BY <1>0, <2>1
    <3>2. Ends(p)[k] \in Nat
      BY <3>1, EndsGrow
    <3>3. o + Ends(p)[k] \in Nat
      BY <3>2
    <3>4. PacketBytes(p[k + 1], o + Ends(p)[k]) \in Seq(T)
      BY <1>1, <3>1, <3>3, PacketTypes
    <3> QED BY <3>4
  <2>3. u[k + 1] = u[k] \o b /\ e[k + 1] = e[k] \o b
    BY <1>3, <2>1, <2>2
  <2>4. u[k] = before \o e[k]
    BY <1>4, <1>6
  <2>5. e[k] \in Seq(T)
    BY <1>3, <2>1
  <2>6. (before \o e[k]) \o b = before \o (e[k] \o b)
    <3>1. before \in Seq(T) /\ e[k] \in Seq(T) /\ b \in Seq(T)
      BY <1>1, <2>2, <2>5
    <3>2. Associates(before, e[k], b)
      BY ONLY <3>1, Associative, Zenon
    <3> QED BY ONLY <3>2 DEF Associates
  <2>7. u[k + 1] = before \o e[k + 1]
    BY ONLY <2>3, <2>4, <2>6
  <2> QED BY ONLY <1>4, <2>1, <2>7
<1>7. n \in K
  <2>1. K = 0..n
    BY <1>5, <1>6, Induction
  <2> QED BY <2>1
<1> QED BY <1>0, <1>2, <1>4, <1>7

\* So does a strip.
LEMMA StripAppends ==
  ASSUME NEW f \in Files, NEW before \in Seq(SUBSET (Nat \X Nat)), NEW s \in Nat, NEW o \in Nat,
         f.packets # <<>> => s \in 1..Len(f.packets)
  PROVE  AfterStrip(f, before, s, o) = before \o AfterStrip(f, <<>>, s, o)
<1>1. f.packets \in Seq(Seq(Packets)) /\ f.yield \in [DOMAIN f.yield -> Nat]
  BY PacketsAssumption, FilesAssumption
<1>2. CASE f.packets # <<>>
  <2>1. PICK p \in Seq(Packets) : p = f.packets[s]
    <3>1. f.packets[s] \in Seq(Packets)
      BY <1>1, <1>2
    <3> QED BY <3>1
  <2>2. /\ AfterStrip(f, before, s, o) = Unpack(before, p, o)[Len(p)]
        /\ AfterStrip(f, <<>>, s, o) = Unpack(<<>>, p, o)[Len(p)]
    BY <1>2, <2>1 DEF AfterStrip
  <2> QED BY <2>2, UnpackAppends
<1>3. CASE f.packets = <<>> /\ o \in DOMAIN f.yield
  <2>1. PICK y \in Nat : y = f.yield[o]
    BY <1>1, <1>3
  <2>2. \A k \in 1..y : {<<o, k>>} \in SUBSET (Nat \X Nat)
    BY <2>1
  <2>3. PICK b \in Seq(SUBSET (Nat \X Nat)) : b = [k \in 1..y |-> {<<o, k>>}]
    <3>1. [k \in 1..y |-> {<<o, k>>}] \in [1..y -> SUBSET (Nat \X Nat)]
      BY <2>2
    <3>2. \A z \in [1..y -> SUBSET (Nat \X Nat)] : z \in Seq(SUBSET (Nat \X Nat))
      BY <2>1
    <3> QED BY <3>1, <3>2
  <2>4. AfterStrip(f, before, s, o) = before \o b /\ AfterStrip(f, <<>>, s, o) = <<>> \o b
    BY <1>3, <2>1, <2>3 DEF AfterStrip
  <2>5. <<>> \o b = b
    BY ConcatEmptySeq
  <2> QED BY <2>4, <2>5
<1>4. CASE f.packets = <<>> /\ o \notin DOMAIN f.yield
  <2>1. AfterStrip(f, before, s, o) = before /\ AfterStrip(f, <<>>, s, o) = <<>>
    BY <1>4 DEF AfterStrip
  <2>2. before \o <<>> = before
    BY ConcatEmptySeq
  <2> QED BY <2>1, <2>2
<1> QED BY <1>2, <1>3, <1>4

\* The strips of a compressed image are all full but the last, which ends with
\* the image, and they decompress to their rows at least.
LEMMA ImageStrips ==
  ASSUME file \in Files, CompressedImage
  PROVE  \E R \in Nat \ {0} :
           /\ SizesFine(Height, R, Len(Offsets))
           /\ \A s \in 1..Len(Offsets) :
                /\ Raster!StripBytes(Raster!Geometry(file), s) = CountOf(Height, R, s) * RowBytes
                /\ CountOf(Height, R, s) \in Nat
                /\ Len(StripContent(s)) >= Raster!StripBytes(Raster!Geometry(file), s)
<1>1. PICK g : g = Raster!Geometry(file)
  OBVIOUS
<1>2. PICK n \in Nat : n = Len(Offsets) /\ DOMAIN Offsets = 1..n
  BY ImageRewritable, RewritableFacts, StripTable
<1>3. /\ g.width = Width /\ g.length = Height /\ g.samples = Samples /\ g.offsets = Offsets
  BY <1>1, ImageTags DEF SameGeometry
<1>4. Height \in Nat \ {0} /\ Width \in Nat /\ Samples \in Nat /\ RowBytes = Width * Samples
  BY ImageRewritable, RewritableFacts DEF RowBytes
<1>5. /\ g.rows > 0
      /\ \A s \in DOMAIN g.offsets :
           /\ Raster!Rows(g, s) # {}
           /\ Raster!StripBytes(g, s) <= [r \in DOMAIN g.offsets |-> Len(StripContent(r))][s]
      /\ UNION {Raster!Rows(g, s) : s \in DOMAIN g.offsets} = 0..(g.length - 1)
  BY <1>1 DEF CompressedImage, Raster!BaselineImage
<1>6. PICK R \in Nat \ {0} : R = g.rows
  <2>1. g.rows = IF Raster!Scalar(file, "RowsPerStrip", MaxU32) = MaxU32 THEN g.length
                 ELSE Raster!Scalar(file, "RowsPerStrip", MaxU32)
    BY <1>1, GeometryFields
  <2>2. Raster!Scalar(file, "RowsPerStrip", MaxU32) \in Nat
    <3>1. UniqueTags /\ "RowsPerStrip" \in ScalarTags
      BY DEF CompressedImage, ScalarTags
    <3>2. \A k \in 1..Len(file.entries) : file.entries[k].tag = "RowsPerStrip" =>
            Numbers(file.entries[k]) /\ Len(file.entries[k].vals) = 1
      BY <3>1, ImageEntries
    <3>3. ReadScalar("RowsPerStrip", MaxU32) = Raster!Scalar(file, "RowsPerStrip", MaxU32)
      BY <3>1, <3>2, SameScalar
    <3>4. MaxU32 \in U32 /\ U32 \subseteq Nat
      BY MaxU32Assumption DEF U32
    <3> QED BY <3>3, <3>4, ScalarType
  <2>3. g.rows \in Nat
    BY <1>3, <1>4, <2>1, <2>2
  <2> QED BY <1>5, <2>3
<1>7. \A s : Raster!Rows(g, s) = RowsOf(Height, R, s)
  BY <1>3, <1>6 DEF Raster!Rows, RowsOf
<1>8. SizesFine(Height, R, n)
  <2>1. \A s \in 1..n : RowsOf(Height, R, s) # {}
    BY <1>2, <1>3, <1>5, <1>7
  <2>2. UNION {RowsOf(Height, R, s) : s \in 1..n} = 0..(Height - 1)
    <3>1. UNION {Raster!Rows(g, s) : s \in 1..n} = UNION {RowsOf(Height, R, s) : s \in 1..n}
      BY <1>7
    <3>2. UNION {Raster!Rows(g, s) : s \in 1..n} = 0..(Height - 1)
      BY <1>2, <1>3, <1>5
    <3> QED BY <3>1, <3>2
  <2>3. n = (Height + R - 1) \div R
    BY <1>4, <2>1, <2>2, StripsCover
  <2> QED BY <1>4, <2>3, StripSizes
<1>9. ASSUME NEW s \in 1..n
      PROVE  /\ Raster!StripBytes(g, s) = CountOf(Height, R, s) * RowBytes
             /\ CountOf(Height, R, s) \in Nat
             /\ Len(StripContent(s)) >= Raster!StripBytes(g, s)
  <2>1. s \in Nat \ {0} /\ (s - 1) * R < Height
    BY <1>8 DEF SizesFine
  <2>2. /\ Cardinality(RowsOf(Height, R, s)) = CountOf(Height, R, s)
        /\ CountOf(Height, R, s) \in 1..R
    BY <1>4, <2>1, RowsCount
  <2>3. PICK c \in Nat : c = CountOf(Height, R, s)
    BY <2>2
  <2>4. Raster!StripBytes(g, s) = c * Width * Samples
    BY <1>3, <1>7, <2>2, <2>3, SameFormat DEF Raster!StripBytes
  <2>5. c * Width * Samples = c * RowBytes
    BY <1>4
  <2>6. PICK y \in Nat : y = Raster!StripBytes(g, s)
    <3>1. c * Width * Samples \in Nat
      BY <1>4
    <3> QED BY <2>4, <3>1
  <2>7. y <= Len(StripContent(s))
    BY <1>2, <1>3, <1>5, <2>6
  <2>8. Len(StripContent(s)) \in Nat
    <3>1. file.packets # <<>> => s \in 1..Len(file.packets)
      <4>1. PackedStream
        BY ImageTaken
      <4> QED BY <1>2, <4>1 DEF PackedStream
    <3>2. Offsets[s] \in Nat
      BY <1>2, ImageRewritable, RewritableFacts
    <3>3. <<>> \in Seq(SUBSET (Nat \X Nat))
      OBVIOUS
    <3>4. AfterStrip(file, <<>>, s, Offsets[s]) \in Seq(SUBSET (Nat \X Nat))
      BY <2>1, <3>1, <3>2, <3>3, AfterStripType
    <3>5. StripContent(s) \in Seq(SUBSET (Nat \X Nat))
      BY <1>1, <1>3, <3>4 DEF StripContent
    <3> QED BY <3>5, LenProperties
  <2>9. Len(StripContent(s)) >= y
    BY <2>6, <2>7, <2>8
  <2> QED BY <2>3, <2>4, <2>5, <2>6, <2>9
<1> QED BY <1>1, <1>2, <1>6, <1>8, <1>9

\* The buffer grows by what each strip decompresses to.
LEMMA BufferGrows ==
  ASSUME file \in Files, CompressedImage
  PROVE  /\ Buffer(file, Offsets) \in [0..Len(Offsets) -> Seq(SUBSET (Nat \X Nat))]
         /\ Buffer(file, Offsets)[0] = <<>>
         /\ \A s \in 1..Len(Offsets) :
              /\ StripContent(s) \in Seq(SUBSET (Nat \X Nat))
              /\ Buffer(file, Offsets)[s] = Buffer(file, Offsets)[s - 1] \o StripContent(s)
<1>1. PackedStream
  BY ImageTaken
<1>2. PICK n \in Nat : n = Len(Offsets) /\ \A s \in 1..n : Offsets[s] \in Nat
  BY <1>1, StreamFacts
<1>3. PICK b : b = Buffer(file, Offsets)
  OBVIOUS
<1>4. /\ b \in [0..n -> Seq(SUBSET (Nat \X Nat))] /\ b[0] = <<>>
      /\ \A s \in 1..n : b[s] = AfterStrip(file, b[s - 1], s, Offsets[s])
  BY <1>1, <1>2, <1>3, StreamFacts
<1>5. ASSUME NEW s \in 1..n
      PROVE  StripContent(s) \in Seq(SUBSET (Nat \X Nat)) /\ b[s] = b[s - 1] \o StripContent(s)
  <2>1. PICK o \in Nat : o = Offsets[s]
    BY <1>2
  <2>2. s \in Nat /\ (file.packets # <<>> => s \in 1..Len(file.packets))
    BY <1>1, <1>2 DEF PackedStream
  <2>3. StripContent(s) = AfterStrip(file, <<>>, s, o)
    BY <2>1, ImageTags DEF StripContent, SameGeometry
  <2>4. PICK before \in Seq(SUBSET (Nat \X Nat)) : before = b[s - 1]
    <3>1. s - 1 \in 0..n
      BY <1>2
    <3> QED BY <1>4, <3>1
  <2>5. AfterStrip(file, before, s, o) = before \o AfterStrip(file, <<>>, s, o)
    BY <2>2, StripAppends
  <2>6. <<>> \in Seq(SUBSET (Nat \X Nat))
    OBVIOUS
  <2>7. AfterStrip(file, <<>>, s, o) \in Seq(SUBSET (Nat \X Nat))
    BY <2>2, <2>6, AfterStripType
  <2> QED BY <1>4, <2>1, <2>3, <2>4, <2>5, <2>7
<1> QED BY <1>2, <1>3, <1>4, <1>5

\* A product that fits in 64 bits.
LEMMA Mul64Fits ==
  ASSUME NEW a \in Nat, NEW b \in Nat, a * b <= MaxU64
  PROVE  Mul64(a, b) = a * b
<1>1. PICK m \in Nat : m = MaxU64
  <2>1. (MaxU32 + 1) * (MaxU32 + 1) \in Nat \ {0}
    BY MaxU32Assumption, SMT
  <2> QED BY <2>1 DEF MaxU64
<1>2. PICK p \in Nat : p = a * b
  OBVIOUS
<1>3. p % (m + 1) = p
  BY <1>1, <1>2
<1> QED BY <1>1, <1>2, <1>3 DEF Mul64

\* The size of an image that fits is the one it has.
LEMMA ExpectedSize ==
  ASSUME file \in Files, CompressedImage, SizeFits
  PROVE  Expected = Height * RowBytes
<1>1. PICK w \in Nat, h \in Nat, n \in Nat \ {0} : w = Width /\ h = Height /\ n = Samples
  BY ImageRewritable, RewritableFacts
<1>2. w * h * n <= MaxU64
  BY <1>1, ImageTags DEF SizeFits, SameGeometry
<1>3. w * h <= MaxU64
  <2>1. PICK p \in Nat : p = w * h
    OBVIOUS
  <2>2. 1 * p <= n * p
    BY MulMono
  <2>3. p <= p * n
    BY <2>2
  <2>4. MaxU64 \in Nat /\ p * n \in Nat
    <3>1. (MaxU32 + 1) * (MaxU32 + 1) \in Nat \ {0}
      BY MaxU32Assumption, SMT
    <3> QED BY <3>1 DEF MaxU64
  <2> QED BY <1>2, <2>1, <2>3, <2>4
<1>4. Mul64(w, h) = w * h /\ w * h \in Nat
  BY <1>3, Mul64Fits
<1>5. Mul64(w * h, n) = w * h * n
  BY <1>2, <1>4, Mul64Fits
<1>6. w * h * n = h * (w * n)
  OBVIOUS
<1> QED BY <1>1, <1>4, <1>5, <1>6 DEF Expected, RowBytes

\* The bytes of the picture are the buffer's, as many as the rewriter keeps.
LEMMA PictureIs ==
  ASSUME file \in Files, CompressedImage, ExactStrips, SizeFits
  PROVE  /\ StripsContent \in Seq(SUBSET (Nat \X Nat))
         /\ Expected \in Nat /\ Len(StripsContent) >= Expected
         /\ PictureBytes = SubSeq(StripsContent, 1, Expected)
<1>1. PICK T : T = SUBSET (Nat \X Nat)
  OBVIOUS
<1>2. PICK n \in Nat \ {0}, R \in Nat \ {0} :
        /\ n = Len(Offsets) /\ SizesFine(Height, R, n)
        /\ \A s \in 1..n :
             /\ Raster!StripBytes(Raster!Geometry(file), s) = CountOf(Height, R, s) * RowBytes
             /\ CountOf(Height, R, s) \in Nat
             /\ Len(StripContent(s)) >= Raster!StripBytes(Raster!Geometry(file), s)
  <2>1. Len(Offsets) \in Nat
    BY ImageRewritable, RewritableFacts
  <2> QED BY <2>1, ImageStrips DEF SizesFine
<1>3. PICK h \in Nat, w \in Nat : h = Height /\ w = RowBytes
  BY ImageRewritable, RewritableFacts
<1>4. PICK b \in [0..n -> Seq(T)], c \in [1..n -> Seq(T)] :
        /\ b = Buffer(file, Offsets) /\ b[0] = <<>>
        /\ \A s \in 1..n : c[s] = StripContent(s) /\ b[s] = b[s - 1] \o c[s]
  <2>1. PICK c : c = [s \in 1..n |-> StripContent(s)]
    OBVIOUS
  <2>2. /\ Buffer(file, Offsets) \in [0..Len(Offsets) -> Seq(SUBSET (Nat \X Nat))]
        /\ Buffer(file, Offsets)[0] = <<>>
        /\ \A s \in 1..Len(Offsets) :
             /\ StripContent(s) \in Seq(SUBSET (Nat \X Nat))
             /\ Buffer(file, Offsets)[s] = Buffer(file, Offsets)[s - 1] \o StripContent(s)
    BY BufferGrows
  <2>3. /\ Buffer(file, Offsets) \in [0..n -> Seq(T)]
        /\ \A s \in 1..n :
             /\ StripContent(s) \in Seq(T)
             /\ Buffer(file, Offsets)[s] = Buffer(file, Offsets)[s - 1] \o StripContent(s)
    BY ONLY <1>1, <1>2, <2>2
  <2>4. c \in [1..n -> Seq(T)]
    BY ONLY <2>1, <2>3
  <2> QED BY <2>1, <2>2, <2>3, <2>4
<1>5. PICK Z \in Nat : Z = R * w
  OBVIOUS
<1>6. PICK last \in Nat : last = CountOf(h, R, n) /\ last = h - (n - 1) * R
  <2>1. n \in 1..n /\ CountOf(h, R, n) \in Nat
    BY <1>2, <1>3
  <2> QED BY <1>2, <1>3, <2>1 DEF SizesFine
<1>7. (n - 1) * Z + last * w = h * w
  BY <1>3, <1>5, <1>6, AllRows
<1>8. \A s \in 1..(n - 1) : Len(c[s]) = Z
  <2>1. ASSUME NEW s \in 1..(n - 1) PROVE Len(c[s]) = Z
    <3>1. s \in 1..n
      BY <1>2
    <3>2. Raster!Geometry(file).offsets = Offsets
      BY ImageTags DEF SameGeometry
    <3>3. Len(StripContent(s)) = Raster!StripBytes(Raster!Geometry(file), s)
      BY <1>2, <3>2 DEF ExactStrips
    <3>4. CountOf(h, R, s) = R
      BY <1>2, <1>3 DEF SizesFine
    <3> QED BY <1>2, <1>3, <1>4, <1>5, <3>1, <3>3, <3>4
  <2> QED BY <2>1
<1>9. Len(b[n - 1]) = (n - 1) * Z
  <2>1. PICK K : K = {s \in 0..(n - 1) : Len(b[s]) = s * Z}
    OBVIOUS
  <2>2. 0 \in K /\ K \in SUBSET (0..(n - 1))
    <3>1. Len(<<>>) = 0 /\ 0 * Z = 0
      OBVIOUS
    <3> QED BY <1>2, <1>4, <2>1, <3>1
  <2>3. ASSUME NEW s \in 0..((n - 1) - 1), s \in K PROVE s + 1 \in K
    <3>1. /\ s + 1 \in 1..n /\ s + 1 \in 0..(n - 1) /\ s + 1 \in 1..(n - 1) /\ (s + 1) - 1 = s
          /\ s \in 0..n /\ s \in Nat
      BY <1>2
    <3>2. b[s + 1] = b[s] \o c[s + 1] /\ b[s] \in Seq(T) /\ c[s + 1] \in Seq(T)
      BY <1>4, <3>1
    <3>3. Len(b[s + 1]) = Len(b[s]) + Len(c[s + 1])
      BY <3>2, ConcatProperties
    <3>4. Len(b[s]) = s * Z /\ Len(c[s + 1]) = Z
      BY <1>8, <2>1, <2>3, <3>1
    <3>5. (s + 1) * Z = s * Z + Z
      BY <3>1
    <3> QED BY <2>1, <3>1, <3>3, <3>4, <3>5
  <2>4. PICK m \in Nat : m = n - 1
    OBVIOUS
  <2>5. K = 0..m
    <3>1. \A k \in 0..(m - 1) : k \in K => k + 1 \in K
      BY <2>3, <2>4
    <3>2. 0 \in K /\ K \in SUBSET (0..m)
      BY <2>2, <2>4
    <3> QED BY <2>4, <3>1, <3>2, Induction
  <2>6. n - 1 \in K
    BY <2>4, <2>5
  <2> QED BY <2>1, <2>6
<1>10. PICK before \in Seq(T), end \in Seq(T) :
         /\ before = b[n - 1] /\ end = c[n] /\ b[n] = before \o end
  <2>1. n - 1 \in 0..n /\ n \in 1..n
    BY <1>2
  <2> QED BY <1>4, <2>1
<1>11. PICK m \in Nat : m = last * w /\ m \in 0..Len(end)
  <2>1. last * w \in Nat /\ n \in 1..n
    BY <1>2
  <2>2. Len(end) >= last * w
    BY <1>2, <1>3, <1>4, <1>6, <1>10, <2>1
  <2>3. Len(end) \in Nat
    BY <1>10, LenProperties
  <2> QED BY <2>1, <2>2, <2>3
<1>12. Expected = Len(before) + m /\ Len(before) \in Nat
  <2>1. Expected = h * w
    BY <1>3, ExpectedSize
  <2> QED BY <1>7, <1>9, <1>10, <1>11, <2>1, LenProperties
<1>13. StripsContent = before \o end /\ StripsContent \in Seq(T)
       /\ Len(StripsContent) = Len(before) + Len(end)
  <2>1. StripsContent = before \o end
    BY <1>2, <1>4, <1>10 DEF StripsContent
  <2> QED BY <1>10, <2>1, ConcatProperties
<1>14. SubSeq(StripsContent, 1, Expected) = before \o SubSeq(end, 1, m)
  <2>1. SubSeq(before \o end, 1, Len(before) + m) = before \o SubSeq(end, 1, m)
    <3>1. \A U : \A s, t \in Seq(U) : \A k \in 0..Len(t) :
            SubSeq(s \o t, 1, Len(s) + k) = s \o SubSeq(t, 1, k)
      BY ONLY ConcatPrefix
    <3>2. before \in Seq(T) /\ end \in Seq(T) /\ m \in 0..Len(end)
      BY <1>11
    <3>3. \A k \in 0..Len(end) :
            SubSeq(before \o end, 1, Len(before) + k) = before \o SubSeq(end, 1, k)
      BY ONLY <3>1, <3>2
    <3> QED BY ONLY <3>2, <3>3
  <2> QED BY <1>12, <1>13, <2>1
<1>15. PICK seqs : seqs = [s \in 1..n |-> SubSeq(c[s], 1, Raster!StripBytes(Raster!Geometry(file), s))]
  OBVIOUS
<1>16. PictureBytes = Raster!FlattenSeq(seqs)
  <2>1. Raster!Geometry(file).offsets = Offsets /\ DOMAIN Offsets = 1..n
    BY <1>2, ImageTags, ImageRewritable, StripTable DEF SameGeometry
  <2>2. seqs = [s \in 1..n |-> SubSeq(StripContent(s), 1, Raster!StripBytes(Raster!Geometry(file), s))]
    BY <1>4, <1>15
  <2> QED BY <2>1, <2>2 DEF PictureBytes
<1>17. \A s \in 1..(n - 1) : seqs[s] = c[s]
  <2>1. ASSUME NEW s \in 1..(n - 1) PROVE seqs[s] = c[s]
    <3>1. s \in 1..n
      BY <1>2
    <3>2. Raster!StripBytes(Raster!Geometry(file), s) = Len(c[s])
      <4>1. CountOf(h, R, s) = R
        BY <1>2, <1>3 DEF SizesFine
      <4> QED BY <1>2, <1>3, <1>5, <1>8, <3>1, <4>1
    <3>3. c[s] \in Seq(T)
      BY <1>4, <3>1
    <3>4. SubSeq(c[s], 1, Len(c[s])) = c[s]
      BY <3>3, SubSeqFull
    <3> QED BY <1>15, <3>1, <3>2, <3>4
  <2> QED BY <2>1
<1>18. seqs[n] = SubSeq(end, 1, m)
  <2>1. n \in 1..n
    BY <1>2
  <2>2. Raster!StripBytes(Raster!Geometry(file), n) = m
    BY <1>2, <1>3, <1>6, <1>11, <2>1
  <2> QED BY <1>10, <1>15, <2>1, <2>2
<1>19. PICK W : W = [i \in 1..n |-> IF i < n THEN b[i] ELSE before \o seqs[n]]
  OBVIOUS
<1>20. Chain(seqs, n, W)
  <2>1. ASSUME NEW i \in 1..n PROVE W[i] = IF i = 1 THEN seqs[i] ELSE W[i - 1] \o seqs[i]
    <3>1. CASE i = 1 /\ i < n
      <4>1. W[1] = b[1] /\ b[1] = b[0] \o c[1] /\ c[1] \in Seq(T) /\ seqs[1] = c[1]
        <5>1. 1 \in 1..n /\ 1 - 1 = 0 /\ 1 \in 1..(n - 1)
          BY <1>2, <3>1
        <5> QED BY <1>4, <1>17, <1>19, <3>1, <5>1
      <4>2. b[0] \o c[1] = c[1]
        BY <1>4, <4>1, ConcatEmptySeq
      <4> QED BY <3>1, <4>1, <4>2
    <3>2. CASE i = 1 /\ i = n
      <4>1. W[1] = before \o seqs[1] /\ before = <<>>
        <5>1. n - 1 = 0 /\ 1 \in 1..n /\ ~(1 < n)
          BY <3>2
        <5> QED BY <1>4, <1>10, <1>19, <3>2, <5>1
      <4>2. SubSeq(end, 1, m) \in Seq(T)
        <5>1. \A k \in 1..m : end[k] \in T
          BY <1>10, <1>11, ElementOf
        <5>2. 1 \in Int /\ m \in Int
          OBVIOUS
        <5> QED BY <5>1, <5>2, SubSeqProperties
      <4>3. <<>> \o SubSeq(end, 1, m) = SubSeq(end, 1, m)
        BY <4>2, ConcatEmptySeq
      <4> QED BY <1>18, <3>2, <4>1, <4>3
    <3>3. CASE i # 1 /\ i < n
      <4>1. i - 1 \in 1..n /\ i - 1 < n /\ i \in 1..(n - 1)
        BY <1>2, <3>3
      <4> QED BY <1>4, <1>17, <1>19, <3>3, <4>1
    <3>4. CASE i # 1 /\ i = n
      <4>1. i - 1 \in 1..n /\ i - 1 < n /\ ~(i < n)
        BY <1>2, <3>4
      <4> QED BY <1>10, <1>19, <3>4, <4>1
    <3> QED BY <1>2, <3>1, <3>2, <3>3, <3>4
  <2>2. W = [i \in 1..n |-> W[i]]
    BY <1>19
  <2> QED BY <2>1, <2>2 DEF Chain
<1>21. Raster!FlattenSeq(seqs) = W[n]
  <2>1. Len(seqs) = n
    BY <1>15
  <2>2. Raster!FlattenSeq(seqs) = (CHOOSE flatten : Chain(seqs, n, flatten))[n]
    BY <2>1 DEF Raster!FlattenSeq, Chain
  <2> QED BY <1>20, <2>2, ChainIs
<1>22. W[n] = before \o seqs[n]
  BY <1>2, <1>19
<1> QED BY <1>1, <1>11, <1>12, <1>13, <1>14, <1>16, <1>18, <1>21, <1>22

\* The samples that are added up in one are those that are in the sample before it
\* of its row and channel, and itself.
SummandsOf(a, R, s) ==
  /\ a % R >= s =>
       /\ a + 1 - s \in 1..a
       /\ Summands(a + 1, R, s) = Summands(a + 1 - s, R, s) \cup {a + 1}
  /\ a % R < s => Summands(a + 1, R, s) = {a + 1}

\* The sample one pixel to the left has the same summands but the sample itself.
LEMMA SummandsStep ==
  ASSUME NEW R \in Nat \ {0}, NEW s \in Nat \ {0}, NEW a \in Nat
  PROVE  SummandsOf(a, R, s)
<1>1. PICK q \in Nat, c \in Nat, Z \in Nat : q = a \div R /\ c = a % R /\ Z = R * q /\ a = Z + c /\ c < R
  <2>1. a % R \in Nat /\ a \div R \in Nat /\ a = R * (a \div R) + (a % R) /\ a % R < R
    BY DivMod
  <2> QED BY <2>1
<1>2. PICK n \in Nat : n = a + 1
  OBVIOUS
<1>3. ASSUME NEW m \in Summands(n, R, s), m # n
      PROVE  m \in 1..(n - s) /\ Z <= m - 1 /\ m % s = n % s /\ (m - 1) \div R = q
  <2>1. m \in 1..n /\ m \in Nat /\ m < n /\ m - 1 \in Nat
    BY <1>3 DEF Summands
  <2>2. m % s = n % s /\ (m - 1) \div R = q
    <3>1. (m - 1) \div R = (n - 1) \div R /\ m % s = n % s
      BY DEF Summands
    <3>2. n - 1 = a
      BY <1>2
    <3> QED BY <1>1, <3>1, <3>2
  <2>3. m + s <= n
    BY <2>1, <2>2, SameRemainder
  <2>4. R * ((m - 1) \div R) <= m - 1
    <3>1. PICK b \in Nat : b = m - 1
      BY <2>1
    <3>2. b % R \in Nat /\ b \div R \in Nat /\ b = R * (b \div R) + (b % R)
      BY DivMod
    <3> QED BY <3>1, <3>2
  <2> QED BY <1>1, <2>1, <2>2, <2>3, <2>4
<1>4. n \in Summands(n, R, s)
  BY <1>2 DEF Summands
<1>5. CASE c >= s
  <2>1. PICK b \in Nat : b = a - s /\ Z <= b /\ b < Z + R
    BY <1>1, <1>5
  <2>2. b \div R = q
    BY <1>1, <2>1, DivUnique
  <2>3. PICK k \in Nat : k = n - s /\ k - 1 = b /\ k \in 1..a /\ s <= n
    BY <1>2, <2>1
  <2>4. k % s = n % s
    BY <2>3, RemainderBelow
  <2>5. ASSUME NEW m \in Summands(n, R, s), m # n PROVE m \in Summands(k, R, s)
    BY <1>3, <2>2, <2>3, <2>4, <2>5 DEF Summands
  <2>6. ASSUME NEW m \in Summands(k, R, s) PROVE m \in Summands(n, R, s)
    <3>1. m \in 1..k /\ (m - 1) \div R = q /\ m % s = n % s
      BY <2>2, <2>3, <2>4 DEF Summands
    <3>2. m \in 1..n /\ n - 1 = a
      BY <1>2, <2>3, <3>1
    <3> QED BY <1>1, <3>1, <3>2 DEF Summands
  <2>7. Summands(n, R, s) = Summands(k, R, s) \cup {n}
    BY <1>4, <2>5, <2>6
  <2>8. ~(a % R < s)
    BY <1>1, <1>5
  <2> QED BY <1>2, <2>3, <2>7, <2>8 DEF SummandsOf
<1>6. CASE c < s
  <2>1. ASSUME NEW m \in Summands(n, R, s), m # n PROVE FALSE
    <3>1. m \in 1..(n - s) /\ Z <= m - 1
      BY <1>3, <2>1
    <3> QED BY <1>1, <1>2, <1>6, <3>1
  <2>2. Summands(n, R, s) = {n}
    BY <1>4, <2>1
  <2>3. ~(a % R >= s)
    BY <1>1, <1>6
  <2> QED BY <1>2, <2>2, <2>3 DEF SummandsOf
<1> QED BY <1>1, <1>5, <1>6 DEF SummandsOf

-----------------------------------------------------------------------------
(* The predictor is undone sample by sample.                               *)

Trimmed == SubSeq(StripsContent, 1, Expected)

\* The nth sample is restored once the predictor has been undone up to it.
Parts(n) ==
  IF Predictor = 2 /\ (pc = "undo" => n <= at) THEN Summands(n, RowBytes, Samples) ELSE {n}

\* The samples are those of the image, added up as far as they are.
Restored ==
  /\ PackedStream /\ Expected = Height * RowBytes
  /\ pc \in {"undo", "rebuild"} \/ answer = "rewritten"
  => /\ pc = "undo" => Predictor = 2
     /\ Len(raw) = Expected
     /\ \A n \in 1..Expected : raw[n] = UNION {Trimmed[m] : m \in Parts(n)}

\* What a stream says of its image stays the same.
LEMMA SameImage ==
  ASSUME file' = file
  PROVE  /\ Trimmed' = Trimmed /\ RowBytes' = RowBytes /\ Height' = Height /\ Samples' = Samples
         /\ Predictor' = Predictor /\ PackedStream' = PackedStream /\ Expected' = Expected
<1>1. PackedStream' = PackedStream /\ StripsContent' = StripsContent /\ Expected' = Expected
  BY SameStream
<1>2. /\ RowBytes' = RowBytes /\ Height' = Height /\ Samples' = Samples /\ Predictor' = Predictor
  BY DEF RowBytes, Height, Width, Samples, Predictor, ReadScalar, Has, Find, Positions, IntArray,
         ValuesInside
<1> QED BY <1>1, <1>2 DEF Trimmed

LEMMA RestoredInit == Init => Restored
BY DEF Init, Restored

\* The strips, cut to the size of the image, are the samples before the predictor is undone.
LEMMA TrimRestores ==
  ASSUME IInv, Unpacking, TrimToImage, PackedStream PROVE Restored'
<1>1. /\ Taking /\ Building /\ file' = file /\ file \in Files /\ pc = "strips"
      /\ strip = Len(Offsets) + 1 /\ Rewritable
  BY TwoParts DEF TrimToImage, Taking, PackedStream
<1>2. PICK last \in Nat : last = Len(Offsets)
  BY <1>1, StreamFacts
<1>3. ~(strip <= last) /\ strip - 1 = last
  BY <1>1, <1>2
<1>4. raw = StripsContent
  BY <1>1, <1>2, <1>3 DEF Unpacking, AtPacket, StripsContent
<1>5. at = 0 /\ answer # "rewritten"
  BY <1>1 DEF Taking, Progress, Building, Finished
<1>6. CASE Refuse
  BY <1>6 DEF Refuse, Restored
<1>7. CASE /\ Len(raw) >= Expected
           /\ raw' = SubSeq(raw, 1, Expected)
           /\ pc' = IF Predictor = 2 THEN "undo" ELSE "rebuild"
           /\ at' = at
  <2>1. PICK e \in Nat : e = Expected
    BY <1>1, ExpectedType
  <2>2. PICK T : T = SUBSET (Nat \X Nat) /\ raw \in Seq(T)
    BY <1>1 DEF Taking
  <2>11. PICK v \in Seq(T) : v = raw
    BY <2>2
  <2>3. 0 + e <= Len(v) /\ 0 \in Nat
    <3>1. Len(v) >= e
      BY <1>7, <2>1, <2>11
    <3>2. Len(v) \in Nat
      OBVIOUS
    <3> QED BY <3>1, <3>2
  <2>4. SubSeq(v, 0 + 1, 0 + e) = [k \in 1..e |-> v[0 + k]]
    BY <2>3, SubSeqShape
  <2>5. Len(raw') = e
    <3>1. raw' = [k \in 1..e |-> v[0 + k]]
      BY <1>7, <2>1, <2>11, <2>4
    <3> QED BY <3>1
  <2>6. raw' = Trimmed
    BY <1>4, <1>7 DEF Trimmed
  <2>7. \A n \in 1..e : Parts(n)' = {n}
    <3>1. ASSUME NEW n \in 1..e PROVE Parts(n)' = {n}
      <4>1. ~(n <= at')
        BY <1>5, <1>7
      <4>2. ~(Predictor' = 2 /\ (pc' = "undo" => n <= at'))
        BY <1>1, <1>7, <4>1, SameImage
      <4> QED BY <4>2 DEF Parts
    <3> QED BY <3>1
  <2>8. \A n \in 1..e : raw'[n] = UNION {Trimmed'[m] : m \in Parts(n)'}
    <3>1. Trimmed' = Trimmed
      BY <1>1, SameImage
    <3> QED BY <2>6, <2>7, <3>1
  <2>9. Expected' = e
    BY <1>1, <2>1, SameImage
  <2>10. pc' = "undo" => Predictor' = 2
    BY <1>1, <1>7, SameImage
  <2> QED BY <2>5, <2>8, <2>9, <2>10 DEF Restored
<1> QED BY <1>6, <1>7 DEF TrimToImage

\* A sample that is added up is added to the one that its own summands are in.
LEMMA UndoRestores ==
  ASSUME IInv, Restored, UndoByte, PackedStream, Expected = Height * RowBytes PROVE Restored'
<1>1. /\ Taking /\ file' = file /\ file \in Files /\ pc = "undo" /\ pc' = "undo"
      /\ at < Len(raw) /\ at' = at + 1 /\ Rewritable
  BY TwoParts DEF UndoByte, Taking, PackedStream
<1>2. PICK R \in Nat \ {0}, s \in Nat \ {0}, h \in Nat : R = RowBytes /\ s = Samples /\ h = Height
  BY <1>1, RewritableFacts
<1>3. PICK a \in Nat, e \in Nat : a = at /\ e = Expected
  BY <1>1, ExpectedType DEF Taking
<1>4. /\ Len(raw) = e /\ a < e /\ e = h * R
      /\ \A n \in 1..e : raw[n] = UNION {Trimmed[m] : m \in Parts(n)}
  BY <1>1, <1>2, <1>3 DEF Restored
<1>5. Predictor = 2 /\ Predictor' = 2
  BY <1>1, SameImage DEF Restored
<1>6. /\ Parts(a + 1) = {a + 1}
      /\ \A n \in 1..e : n <= a => Parts(n) = Summands(n, R, s)
      /\ \A n \in 1..e : n > a => Parts(n) = {n}
  BY <1>1, <1>2, <1>3, <1>5 DEF Parts
<1>7. /\ \A n \in 1..e : n <= a + 1 => Parts(n)' = Summands(n, R, s)
      /\ \A n \in 1..e : n > a + 1 => Parts(n)' = {n}
  <2>1. RowBytes' = R /\ Samples' = s
    BY <1>1, <1>2, SameImage
  <2> QED BY <1>1, <1>3, <1>5, <2>1 DEF Parts
<1>8. a + 1 \in 1..e
  BY <1>3, <1>4
<1>9. InWholeRow
  <2>1. PICK q \in Nat : q = a \div R
    BY DivMod
  <2>2. q < h
    BY <1>4, <2>1, RowInGrid
  <2>3. (q + 1) * R <= h * R
    <3>1. q + 1 <= h /\ q + 1 \in Nat
      BY <2>2
    <3> QED BY <3>1, MulMono
  <2>4. R * q + R <= e
    BY <1>4, <2>3
  <2> QED BY <1>2, <1>3, <1>4, <2>1, <2>2, <2>4 DEF InWholeRow
<1>10. PICK r : r = raw
  OBVIOUS
<1>11. r \in Seq(SUBSET (Nat \X Nat)) /\ DOMAIN r = 1..e
  BY <1>1, <1>4, <1>10 DEF Taking
<1>12. PICK t : t = Trimmed /\ t = Trimmed'
  BY <1>1, SameImage
<1>13. /\ DOMAIN raw' = 1..e /\ Len(raw') = e
       /\ \A n \in 1..e : n # a + 1 => raw'[n] = r[n]
       /\ raw'[a + 1] = IF Differenced THEN r[a + 1] \cup r[a + 1 - s] ELSE r[a + 1]
  <2>1. raw' = IF Differenced THEN [r EXCEPT ![a + 1] = r[a + 1] \cup r[a + 1 - s]] ELSE r
    BY <1>2, <1>3, <1>10 DEF UndoByte
  <2>2. r = [n \in 1..e |-> r[n]]
    BY <1>11
  <2>3. DOMAIN raw' = 1..e
    BY <1>11, <2>1
  <2>4. Len(raw') = e
    <3>1. raw' = [n \in 1..e |-> raw'[n]]
      BY <2>1, <2>2
    <3> QED BY <3>1
  <2> QED BY <1>8, <1>11, <2>1, <2>3, <2>4
<1>14. Differenced <=> a % R >= s
  BY <1>2, <1>3, <1>9 DEF Differenced
<1>15. r[a + 1] = t[a + 1]
  <2>1. r[a + 1] = UNION {t[m] : m \in {a + 1}}
    BY <1>4, <1>6, <1>8, <1>10, <1>12
  <2> QED BY <2>1
<1>16. raw'[a + 1] = UNION {t[m] : m \in Summands(a + 1, R, s)}
  <2>1. CASE a % R >= s
    <3>1. /\ a + 1 - s \in 1..a
          /\ Summands(a + 1, R, s) = Summands(a + 1 - s, R, s) \cup {a + 1}
      <4>1. SummandsOf(a, R, s)
        BY SummandsStep
      <4> QED BY <2>1, <4>1 DEF SummandsOf
    <3>2. a + 1 - s \in 1..e /\ a + 1 - s <= a
      BY <1>4, <3>1
    <3>3. r[a + 1 - s] = UNION {t[m] : m \in Summands(a + 1 - s, R, s)}
      <4>1. Parts(a + 1 - s) = Summands(a + 1 - s, R, s)
        BY <1>6, <3>2
      <4> QED BY <1>4, <1>10, <1>12, <3>2, <4>1
    <3>4. raw'[a + 1] = t[a + 1] \cup UNION {t[m] : m \in Summands(a + 1 - s, R, s)}
      BY <1>13, <1>14, <1>15, <2>1, <3>3
    <3> QED BY <3>1, <3>4
  <2>2. CASE a % R < s
    <3>1. Summands(a + 1, R, s) = {a + 1}
      <4>1. SummandsOf(a, R, s)
        BY SummandsStep
      <4> QED BY <2>2, <4>1 DEF SummandsOf
    <3>2. ~(a % R >= s)
      <4>1. a % R \in Nat
        BY DivMod
      <4> QED BY <2>2, <4>1
    <3>3. raw'[a + 1] = t[a + 1]
      BY <1>13, <1>14, <1>15, <3>2
    <3> QED BY <3>1, <3>3
  <2>3. a % R \in Nat
    BY DivMod
  <2> QED BY <2>1, <2>2, <2>3
<1>17. ASSUME NEW n \in 1..e PROVE raw'[n] = UNION {t[m] : m \in Parts(n)'}
  <2>1. CASE n = a + 1
    <3>1. Parts(n)' = Summands(a + 1, R, s)
      BY <1>7, <1>8, <2>1
    <3> QED BY <1>16, <2>1, <3>1
  <2>2. CASE n # a + 1
    <3>1. Parts(n)' = Parts(n)
      <4>1. CASE n <= a
        <5>1. n <= a + 1
          BY <4>1
        <5> QED BY <1>6, <1>7, <4>1, <5>1
      <4>2. CASE ~(n <= a)
        <5>1. n > a /\ n > a + 1
          BY <2>2, <4>2
        <5> QED BY <1>6, <1>7, <5>1
      <4> QED BY <4>1, <4>2
    <3>2. raw'[n] = r[n]
      BY <1>13, <2>2
    <3>3. r[n] = UNION {t[m] : m \in Parts(n)}
      BY <1>4, <1>10, <1>12
    <3> QED BY <3>1, <3>2, <3>3
  <2> QED BY <2>1, <2>2
<1>18. Expected' = e
  BY <1>1, <1>3, SameImage
<1> QED BY <1>5, <1>12, <1>13, <1>17, <1>18 DEF Restored

\* Once it has been undone the samples stay as they are.
LEMMA RestoredStays ==
  ASSUME file \in Files, file' = file, raw' = raw, Restored, pc \in {"undo", "rebuild"} \/ answer = "rewritten",
         pc' # "undo", pc = "undo" => at = Len(raw)
  PROVE  Restored'
<1> SUFFICES ASSUME PackedStream, Expected = Height * RowBytes PROVE Restored'
  BY SameImage DEF Restored
<1>1. Rewritable
  BY DEF PackedStream
<1>2. PICK e \in Nat : e = Expected
  BY <1>1, ExpectedType
<1>3. /\ Len(raw) = e
      /\ pc = "undo" => at = e
      /\ \A n \in 1..e : raw[n] = UNION {Trimmed[m] : m \in Parts(n)}
  BY <1>2 DEF Restored
<1>4. ASSUME NEW n \in 1..e PROVE Parts(n)' = Parts(n)
  <2>1. /\ RowBytes' = RowBytes /\ Samples' = Samples /\ Predictor' = Predictor
    BY SameImage
  <2>2. pc = "undo" => n <= at
    BY <1>3
  <2> QED BY <2>1, <2>2 DEF Parts
<1>5. \A n \in 1..e : raw'[n] = UNION {Trimmed'[m] : m \in Parts(n)'}
  BY <1>3, <1>4, SameImage
<1>6. Len(raw') = e /\ Expected' = e
  BY <1>2, <1>3, SameImage
<1> QED BY <1>5, <1>6 DEF Restored

LEMMA RestoredStep == ASSUME IInv, Unpacking, Restored, [Next]_vars PROVE Restored'
<1>1. /\ file' = file /\ file \in Files /\ Taking
      /\ pc # "done" => answer # "rewritten"
  BY TwoParts DEF Next, vars, CheckHeader, CheckTags, ReadPacket, EndStrip, TrimToImage, UndoByte,
                  UndoEnd, RebuildEntry, Write, Finish, Taking, Building, Finished
<1> SUFFICES ASSUME PackedStream, Expected = Height * RowBytes PROVE Restored'
  BY <1>1, SameImage DEF Restored
<1>2. CASE CheckHeader \/ CheckTags \/ ReadPacket \/ EndStrip
  <2>1. pc \in {"header", "tags", "strips"} /\ answer # "rewritten"
    BY <1>1, <1>2 DEF CheckHeader, CheckTags, ReadPacket, EndStrip
  <2>2. pc' \in {"tags", "strips", "done"} /\ answer' # "rewritten"
    BY <1>2, <2>1 DEF CheckHeader, CheckTags, ReadPacket, EndStrip, Advance, Refuse, AddBytes,
       Decompressed, EndPackBits, Literal, Repeat, NoOp
  <2> QED BY <2>2 DEF Restored
<1>3. CASE TrimToImage
  BY <1>3, TrimRestores
<1>4. CASE UndoByte
  BY <1>4, UndoRestores
<1>5. CASE UndoEnd
  BY <1>1, <1>5, RestoredStays DEF UndoEnd, Advance
<1>6. CASE RebuildEntry
  <2>1. pc = "rebuild" /\ raw' = raw
    BY <1>6 DEF RebuildEntry, Write, Refuse
  <2>2. pc' # "undo"
    BY <1>6, <2>1 DEF RebuildEntry, Write, Refuse
  <2> QED BY <1>1, <2>1, <2>2, RestoredStays
<1>7. CASE Finish
  <2>1. pc = "rebuild" /\ raw' = raw /\ pc' = "done"
    BY <1>7 DEF Finish
  <2> QED BY <1>1, <2>1, RestoredStays
<1>8. CASE UNCHANGED vars
  <2>1. /\ pc' = pc /\ at' = at /\ raw' = raw /\ answer' = answer
        /\ RowBytes' = RowBytes /\ Samples' = Samples /\ Predictor' = Predictor
        /\ Trimmed' = Trimmed /\ Expected' = Expected
    BY <1>1, <1>8, SameImage DEF vars
  <2>2. \A n : Parts(n)' = Parts(n)
    BY <2>1 DEF Parts
  <2> QED BY <2>1, <2>2 DEF Restored
<1> QED BY <1>2, <1>3, <1>4, <1>5, <1>6, <1>7, <1>8 DEF Next

LEMMA RestoredNext == IInv /\ Unpacking /\ Restored /\ [Next]_vars => Restored'
BY RestoredStep

-----------------------------------------------------------------------------
(* The rebuilt entries say what those of the stream say.                   *)

\* x is what entry e is rebuilt to, but for the place of its values.
Rebuilds(x, e) ==
  IF e.tag \in Replaced THEN x = Replacement(e.tag)
  ELSE x.tag = e.tag /\ x.type = e.type /\ x.vals = e.vals

Carried ==
  /\ pc \notin {"rebuild", "done"} => rebuilt = <<>>
  /\ \A k \in 1..Len(rebuilt) : Rebuilds(rebuilt[k], file.entries[k])
  /\ answer = "rewritten" =>
       out.magic /\ out.ifd = 8 /\ Len(rebuilt) = Len(file.entries)

LEMMA CarriedInit == Init => Carried
BY DEF Init, Carried

\* The replacements depend on the image and on how many bytes there are.
LEMMA SameReplacement ==
  ASSUME file' = file, Len(raw') = Len(raw) PROVE \A tag : Replacement(tag)' = Replacement(tag)
<1>1. Height' = Height
  BY SameImage
<1> QED BY <1>1 DEF Replacement

\* Nothing has been rebuilt yet, or nothing else happens.
LEMMA CarriedStays ==
  ASSUME Carried, file' = file, rebuilt' = rebuilt, answer' # "rewritten",
         \/ pc \notin {"rebuild", "done"}
         \/ pc = "rebuild" /\ pc' \in {"rebuild", "done"} /\ raw' = raw
  PROVE  Carried'
<1>1. CASE pc \notin {"rebuild", "done"}
  <2>1. rebuilt' = <<>> /\ Len(rebuilt') = 0
    BY <1>1 DEF Carried
  <2> QED BY <2>1 DEF Carried
<1>2. CASE pc = "rebuild" /\ pc' \in {"rebuild", "done"} /\ raw' = raw
  <2>1. \A tag : Replacement(tag)' = Replacement(tag)
    BY <1>2, SameReplacement
  <2> QED BY <1>2, <2>1 DEF Carried, Rebuilds
<1> QED BY <1>1, <1>2

\* An entry is replaced or carried over.
LEMMA RebuildCarries == ASSUME IInv, Carried, RebuildEntry PROVE Carried'
<1>1. /\ Taking /\ Building /\ file' = file /\ pc = "rebuild" /\ raw' = raw
      /\ entry <= Len(file.entries) /\ answer # "rewritten"
  BY TwoParts DEF RebuildEntry, Write, Refuse, Building, Finished
<1>2. PICK e : e = file.entries[entry]
  OBVIOUS
<1>3. CASE Refuse
  BY <1>1, <1>3, CarriedStays DEF Refuse
<1>4. ASSUME NEW x, rebuilt' = Append(rebuilt, x), pc' = pc, answer' = answer, Rebuilds(x, e),
             x \in Entries
      PROVE  Carried'
  <2>1. PICK r \in Seq(Entries) : r = rebuilt
    BY <1>1 DEF Building
  <2>2. entry = Len(r) + 1 /\ Len(r) \in Nat
    BY <1>1, <2>1 DEF Building
  <2>3. \A tag : Replacement(tag)' = Replacement(tag)
    BY <1>1, SameReplacement
  <2>4. /\ Len(Append(r, x)) = Len(r) + 1
        /\ \A k \in 1..Len(r) : Append(r, x)[k] = r[k]
        /\ Append(r, x)[Len(r) + 1] = x
    BY <1>4
  <2>5. ASSUME NEW k \in 1..Len(rebuilt') PROVE Rebuilds(rebuilt[k], file.entries[k])'
    <3>1. CASE k = Len(r) + 1
      <4>1. rebuilt'[k] = x /\ file'.entries[k] = e
        BY <1>1, <1>2, <1>4, <2>1, <2>2, <2>4, <3>1
      <4> QED BY <1>4, <2>3, <4>1 DEF Rebuilds
    <3>2. CASE k # Len(r) + 1
      <4>1. k \in 1..Len(r)
        BY <1>4, <2>1, <2>2, <2>4, <3>2
      <4>2. rebuilt'[k] = rebuilt[k] /\ Rebuilds(rebuilt[k], file.entries[k])
        BY <1>4, <2>1, <2>4, <4>1 DEF Carried
      <4> QED BY <1>1, <2>3, <4>2 DEF Rebuilds
    <3> QED BY <3>1, <3>2
  <2> QED BY <1>1, <1>4, <2>5 DEF Carried
<1>5. e \in Entries
  <2>1. file.entries \in Seq(Entries)
    BY <1>1, FileType DEF Taking
  <2>2. entry \in 1..Len(file.entries)
    BY <1>1, <2>1 DEF Building
  <2> QED BY <1>2, <2>1, <2>2
<1>6. CASE /\ e.tag \in Replaced
           /\ rebuilt' = Append(rebuilt, Replacement(e.tag)) /\ UNCHANGED <<pc, answer>>
  <2>1. Replacement(e.tag) \in Entries
    BY <1>1, <1>6, ReplacementType DEF Taking, Progress
  <2>2. Rebuilds(Replacement(e.tag), e)
    BY <1>6 DEF Rebuilds
  <2> QED BY <1>4, <1>6, <2>1, <2>2
<1>7. CASE e.tag \notin Replaced /\ rebuilt' = Append(rebuilt, e) /\ UNCHANGED <<pc, answer>>
  BY <1>4, <1>5, <1>7 DEF Rebuilds
<1>8. CASE /\ e.tag \notin Replaced
           /\ rebuilt' = Append(rebuilt, [e EXCEPT !.at = U32Of(DirectoryEnd + NextPlace)])
           /\ UNCHANGED <<pc, answer>>
  <2>1. DirectoryEnd + NextPlace \in Nat
    BY <1>1, Aligned DEF Taking, Building, NextPlace
  <2>2. U32Of(DirectoryEnd + NextPlace) \in U32
    BY <2>1, U32OfType
  <2>3. PICK moved : moved = [e EXCEPT !.at = U32Of(DirectoryEnd + NextPlace)]
    OBVIOUS
  <2>4. moved \in Entries /\ Rebuilds(moved, e)
    BY <1>5, <1>8, <2>2, <2>3 DEF Entries, Rebuilds
  <2> QED BY <1>4, <1>8, <2>3, <2>4
<1> QED BY <1>2, <1>3, <1>6, <1>7, <1>8 DEF RebuildEntry, Write

\* The rewritten directory has all entries.
LEMMA FinishCarries == ASSUME IInv, Carried, Finish PROVE Carried'
<1>1. /\ file' = file /\ raw' = raw /\ rebuilt' = rebuilt /\ pc' = "done"
      /\ out'.magic /\ out'.ifd = 8 /\ entry = Len(file.entries) + 1
  BY DEF Finish
<1>2. \A tag : Replacement(tag)' = Replacement(tag)
  BY <1>1, SameReplacement
<1>3. Len(rebuilt) = Len(file.entries)
  <2>1. Len(file.entries) \in Nat /\ Len(rebuilt) = entry - 1
    BY FileType, TwoParts DEF Taking, Building
  <2> QED BY <1>1, <2>1
<1> QED BY <1>1, <1>2, <1>3 DEF Carried, Rebuilds

LEMMA CarriedStep == ASSUME IInv, Carried, [Next]_vars PROVE Carried'
<1>1. file' = file /\ (pc # "done" => answer # "rewritten")
  BY TwoParts DEF Next, vars, CheckHeader, CheckTags, ReadPacket, EndStrip, TrimToImage, UndoByte,
                  UndoEnd, RebuildEntry, Write, Finish, Building, Finished
<1>2. CASE CheckHeader \/ CheckTags \/ UndoByte \/ UndoEnd
  <2>1. pc \notin {"rebuild", "done"} /\ rebuilt' = rebuilt /\ answer' # "rewritten"
    BY <1>1, <1>2 DEF CheckHeader, CheckTags, UndoByte, UndoEnd, Advance, Refuse
  <2> QED BY <1>1, <2>1, CarriedStays
<1>3. CASE ReadPacket \/ EndStrip
  <2>1. pc \notin {"rebuild", "done"} /\ rebuilt' = rebuilt /\ answer' # "rewritten"
    BY <1>1, <1>3 DEF ReadPacket, EndStrip, Refuse, AddBytes, Decompressed, EndPackBits, Literal,
       Repeat, NoOp
  <2> QED BY <1>1, <2>1, CarriedStays
<1>4. CASE TrimToImage
  <2>1. pc \notin {"rebuild", "done"} /\ rebuilt' = rebuilt /\ answer' # "rewritten"
    BY <1>1, <1>4 DEF TrimToImage, Refuse
  <2> QED BY <1>1, <2>1, CarriedStays
<1>5. CASE RebuildEntry
  BY <1>5, RebuildCarries
<1>6. CASE Finish
  BY <1>6, FinishCarries
<1>7. CASE UNCHANGED vars
  <2>1. \A tag : Replacement(tag)' = Replacement(tag)
    BY <1>1, <1>7, SameReplacement DEF vars
  <2> QED BY <1>7, <2>1 DEF vars, Carried, Rebuilds
<1> QED BY <1>2, <1>3, <1>4, <1>5, <1>6, <1>7 DEF Next

LEMMA CarriedNext == IInv /\ Carried /\ [Next]_vars => Carried'
BY CarriedStep

-----------------------------------------------------------------------------
(* What the rewritten stream says.                                         *)

\* Entry x of the rewritten stream says what entry e of the original says, or
\* what is true of the new strip.
Says(x, e) ==
  /\ x.tag = e.tag
  /\ x.vals = CASE e.tag \in {"Compression", "Predictor"} -> <<1>>
                [] e.tag = "RowsPerStrip" -> <<Height>>
                [] e.tag = "StripOffsets" -> <<out.pixelsAt>>
                [] e.tag = "StripByteCounts" -> <<Len(raw)>>
                [] OTHER -> e.vals
  /\ IF e.tag \in Replaced THEN x.type \in {"SHORT", "LONG"} /\ Inline(x) ELSE x.type = e.type

\* A compressed image has been rewritten, and 32-bit offsets can address the result.
Produced ==
  /\ IInv /\ Unpacking /\ Restored /\ Carried
  /\ CompressedImage /\ SizeFits /\ answer = "rewritten" /\ out.size <= MaxU32

\* The parts of the rewritten stream, none of whose numbers has wrapped.
LEMMA ProducedParts ==
  ASSUME Produced
  PROVE  /\ file \in Files /\ Taking /\ Building /\ Rewritable
         /\ out.pixelsAt \in Nat /\ Len(raw) \in Nat /\ out.size = out.pixelsAt + Len(raw)
         /\ U32Of(out.pixelsAt) = out.pixelsAt /\ U32Of(Len(raw)) = Len(raw)
         /\ out.pixelsAt >= DirectoryEnd /\ DirectoryEnd \in Nat
         /\ out.entries = Patched(out.pixelsAt)
<1>1. /\ Taking /\ Building /\ file \in Files /\ Rewritable /\ answer = "rewritten"
      /\ out.size <= MaxU32
  BY TwoParts, ImageRewritable DEF Produced, Taking
<1>2. /\ out.pixelsAt = DirectoryEnd + NextPlace /\ out.size = out.pixelsAt + Len(raw)
      /\ out.entries = Patched(out.pixelsAt)
  BY <1>1 DEF Building, Finished
<1>3. DirectoryEnd \in Nat /\ NextPlace \in Nat /\ DirectoryEnd + NextPlace >= DirectoryEnd
  BY <1>1, Aligned DEF Building, NextPlace
<1>4. PICK place \in Nat, n \in Nat : place = out.pixelsAt /\ n = Len(raw)
  <2>1. Len(raw) \in Nat
    BY <1>1 DEF Taking
  <2>2. out.pixelsAt \in Nat
    BY <1>2, <1>3
  <2> QED BY <2>1, <2>2
<1>5. place <= MaxU32 /\ n <= MaxU32
  BY <1>1, <1>2, <1>4, MaxU32Assumption
<1>6. U32Of(place) = place /\ U32Of(n) = n
  BY <1>5, U32OfType
<1> QED BY <1>1, <1>2, <1>3, <1>4, <1>6

\* Each entry of the rewritten stream says what it should.
LEMMA ProducedEntries ==
  ASSUME Produced
  PROVE  /\ out.entries \in Seq(Entries) /\ Len(out.entries) = Len(file.entries)
         /\ \A k \in 1..Len(file.entries) : Says(out.entries[k], file.entries[k])
<1>1. /\ file \in Files /\ Building /\ Taking /\ Rewritable /\ out.entries = Patched(out.pixelsAt)
      /\ UniqueTags /\ Carried
  BY ProducedParts DEF Produced, CompressedImage
<1>2. PICK place \in Nat, n \in Nat : place = out.pixelsAt /\ n = Len(raw)
                                      /\ U32Of(place) = place /\ U32Of(n) = n
  BY ProducedParts
<1>3. PICK m \in Nat : m = Len(file.entries) /\ m = Len(rebuilt) /\ DOMAIN file.entries = 1..m
                       /\ DOMAIN rebuilt = 1..m
  <2>1. file.entries \in Seq(Entries) /\ rebuilt \in Seq(Entries)
    BY <1>1, FileType DEF Building
  <2>2. Len(rebuilt) = Len(file.entries)
    BY DEF Produced, Carried
  <2> QED BY <2>1, <2>2
<1>4. out.entries \in Seq(Entries) /\ DOMAIN out.entries = 1..m
  BY <1>1, <1>2, <1>3, PatchedType DEF Building
<1>5. Len(out.entries) = m
  BY <1>3, <1>4
<1>6. ASSUME NEW k \in 1..m, NEW e, e = file.entries[k]
      PROVE  Says(out.entries[k], e)
  <2>1. out.entries[k] = IF k \in Positions("StripOffsets")
                            /\ \A j \in Positions("StripOffsets") : k <= j
                         THEN Own("StripOffsets", "LONG", place) ELSE rebuilt[k]
    BY <1>1, <1>2, <1>3 DEF Patched
  <2>2. Rebuilds(rebuilt[k], e)
    BY <1>1, <1>3, <1>6 DEF Carried
  <2>3. CASE e.tag = "StripOffsets"
    <3>1. k \in Positions("StripOffsets") /\ \A j \in Positions("StripOffsets") : j = k
      BY <1>1, <1>3, <1>6, <2>3 DEF Positions, UniqueTags
    <3>2. out.entries[k] = Own("StripOffsets", "LONG", place)
      BY <2>1, <3>1
    <3>3. place \in U32 /\ "StripOffsets" \in Tags
      BY <1>2, U32OfType DEF Tags, ArrayTags
    <3>4. Inline(Own("StripOffsets", "LONG", place))
      BY <3>3, OwnType
    <3> QED BY <1>2, <2>3, <3>2, <3>4 DEF Says, Own, Replaced
  <2>4. CASE e.tag # "StripOffsets"
    <3>1. out.entries[k] = rebuilt[k]
      BY <1>3, <1>6, <2>1, <2>4 DEF Positions
    <3>2. CASE e.tag \in Replaced
      <4>1. rebuilt[k] = Replacement(e.tag)
        BY <2>2, <3>2 DEF Rebuilds
      <4>2. Inline(Replacement(e.tag))
        BY <1>1, <3>2, ReplacementType DEF Taking
      <4>3. CASE e.tag \in {"Compression", "Predictor"}
        BY <3>1, <3>2, <4>1, <4>2, <4>3 DEF Says, Own, Replacement
      <4>4. CASE e.tag = "RowsPerStrip"
        BY <3>1, <3>2, <4>1, <4>2, <4>4 DEF Says, Own, Replacement
      <4>5. CASE e.tag = "StripByteCounts"
        BY <1>2, <3>1, <3>2, <4>1, <4>2, <4>5 DEF Says, Own, Replacement
      <4> QED BY <2>4, <3>2, <4>3, <4>4, <4>5 DEF Replaced
    <3>3. CASE e.tag \notin Replaced
      BY <2>2, <3>1, <3>3 DEF Rebuilds, Says, Replaced
    <3> QED BY <3>2, <3>3
  <2> QED BY <2>3, <2>4
<1> QED BY <1>3, <1>4, <1>5, <1>6

\* The tags that are not replaced have the values they had.
LEMMA ProducedSame ==
  ASSUME Produced, NEW tag, tag \notin Replaced, NEW default
  PROVE  /\ Raster!Values(out, tag, default) = Raster!Values(file, tag, default)
         /\ Raster!Scalar(out, tag, default) = Raster!Scalar(file, tag, default)
<1>1. /\ file \in Files /\ UniqueTags /\ file.entries \in Seq(Entries)
      /\ out.entries \in Seq(Entries) /\ Len(out.entries) = Len(file.entries)
      /\ \A k \in 1..Len(file.entries) : Says(out.entries[k], file.entries[k])
  BY ProducedParts, ProducedEntries, FileType DEF Produced, CompressedImage
<1>2. \A k \in 1..Len(file.entries) : out.entries[k].tag = file.entries[k].tag
  BY <1>1 DEF Says
<1>3. ASSUME NEW d PROVE Raster!Values(out, tag, d) = Raster!Values(file, tag, d)
  <2>1. CASE NoneWith(file.entries, tag)
    <3>1. NoneWith(out.entries, tag)
      BY <1>1, <1>2, <2>1 DEF NoneWith
    <3> QED BY <1>1, <2>1, <3>1, ValuesOnly
  <2>2. CASE \E k : OnlyAt(file.entries, tag, k)
    <3>1. PICK k : OnlyAt(file.entries, tag, k)
      BY <2>2
    <3>2. OnlyAt(out.entries, tag, k) /\ k \in 1..Len(file.entries) /\ file.entries[k].tag = tag
      BY <1>1, <1>2, <3>1 DEF OnlyAt
    <3>3. out.entries[k].vals = file.entries[k].vals
      BY <1>1, <3>2 DEF Says, Replaced
    <3>4. /\ Raster!Values(out, tag, d) = out.entries[k].vals
          /\ Raster!Values(file, tag, d) = file.entries[k].vals
      BY <1>1, <3>1, <3>2, ValuesOnly
    <3> QED BY <3>3, <3>4
  <2> QED BY <1>1, <2>1, <2>2, TagCases
<1> QED BY <1>3 DEF Raster!Scalar

\* The tags that are have the values of the single strip.
LEMMA ProducedNew ==
  ASSUME Produced
  PROVE  /\ Raster!Scalar(out, "Compression", 1) = 1
         /\ Raster!Scalar(out, "RowsPerStrip", MaxU32) \in {MaxU32, Height}
         /\ Raster!Values(out, "StripOffsets", <<>>) = <<out.pixelsAt>>
         /\ Raster!Values(out, "StripByteCounts", <<>>) = <<Len(raw)>>
<1>1. /\ file \in Files /\ UniqueTags /\ file.entries \in Seq(Entries) /\ Rewritable
      /\ out.entries \in Seq(Entries) /\ Len(out.entries) = Len(file.entries)
      /\ \A k \in 1..Len(file.entries) : Says(out.entries[k], file.entries[k])
  BY ProducedParts, ProducedEntries, FileType DEF Produced, CompressedImage
<1>2. \A k \in 1..Len(file.entries) : out.entries[k].tag = file.entries[k].tag
  BY <1>1 DEF Says
<1>3. ASSUME NEW tag, NEW d
      PROVE  \/ NoneWith(file.entries, tag) /\ Raster!Values(out, tag, d) = d
             \/ \E k \in 1..Len(file.entries) :
                  file.entries[k].tag = tag /\ Raster!Values(out, tag, d) = out.entries[k].vals
  <2>1. CASE NoneWith(file.entries, tag)
    <3>1. NoneWith(out.entries, tag)
      BY <1>1, <1>2, <2>1 DEF NoneWith
    <3> QED BY <1>1, <2>1, <3>1, ValuesOnly
  <2>2. CASE \E k : OnlyAt(file.entries, tag, k)
    <3>1. PICK k : OnlyAt(file.entries, tag, k)
      BY <2>2
    <3>2. OnlyAt(out.entries, tag, k) /\ k \in 1..Len(file.entries) /\ file.entries[k].tag = tag
      BY <1>1, <1>2, <3>1 DEF OnlyAt
    <3>3. Raster!Values(out, tag, d) = out.entries[k].vals
      BY <1>1, <3>2, ValuesOnly
    <3> QED BY <3>2, <3>3
  <2> QED BY <1>1, <2>1, <2>2, TagCases
<1>4. Raster!Values(out, "Compression", <<1>>) = <<1>>
  <2>1. \A k \in 1..Len(file.entries) :
          file.entries[k].tag = "Compression" => out.entries[k].vals = <<1>>
    BY <1>1 DEF Says
  <2> QED BY <1>3, <2>1
<1>5. Raster!Values(out, "RowsPerStrip", <<MaxU32>>) \in {<<MaxU32>>, <<Height>>}
  <2>1. \A k \in 1..Len(file.entries) :
          file.entries[k].tag = "RowsPerStrip" => out.entries[k].vals = <<Height>>
    BY <1>1 DEF Says
  <2> QED BY <1>3, <2>1
<1>6. ~NoneWith(file.entries, "StripOffsets") /\ ~NoneWith(file.entries, "StripByteCounts")
  BY <1>1, FindOnly DEF Rewritable
<1>7. Raster!Values(out, "StripOffsets", <<>>) = <<out.pixelsAt>>
  <2>1. \A k \in 1..Len(file.entries) :
          file.entries[k].tag = "StripOffsets" => out.entries[k].vals = <<out.pixelsAt>>
    BY <1>1 DEF Says
  <2>2. \/ NoneWith(file.entries, "StripOffsets")
        \/ \E k \in 1..Len(file.entries) :
             /\ file.entries[k].tag = "StripOffsets"
             /\ Raster!Values(out, "StripOffsets", <<>>) = out.entries[k].vals
    BY <1>3
  <2> QED BY <1>6, <2>1, <2>2
<1>8. Raster!Values(out, "StripByteCounts", <<>>) = <<Len(raw)>>
  <2>1. \A k \in 1..Len(file.entries) :
          file.entries[k].tag = "StripByteCounts" => out.entries[k].vals = <<Len(raw)>>
    BY <1>1 DEF Says
  <2>2. \/ NoneWith(file.entries, "StripByteCounts")
        \/ \E k \in 1..Len(file.entries) :
             /\ file.entries[k].tag = "StripByteCounts"
             /\ Raster!Values(out, "StripByteCounts", <<>>) = out.entries[k].vals
    BY <1>3
  <2> QED BY <1>6, <2>1, <2>2
<1>9. \A x : Head(<<x>>) = x
  OBVIOUS
<1> QED BY <1>4, <1>5, <1>7, <1>8, <1>9 DEF Raster!Scalar

\* Its geometry: that of the image, in one strip.
LEMMA ProducedGeometry ==
  ASSUME Produced
  PROVE  LET g == Raster!Geometry(out)
             o == Raster!Geometry(file)
         IN  /\ g.width = Width /\ g.length = Height /\ g.samples = Samples /\ g.rows = Height
             /\ g.photometric = o.photometric /\ g.bits = o.bits
             /\ g.offsets = <<out.pixelsAt>> /\ g.counts = <<Len(raw)>>
<1>1. PICK g, o : g = Raster!Geometry(out) /\ o = Raster!Geometry(file)
  OBVIOUS
<1>2. o.width = Width /\ o.length = Height /\ o.samples = Samples
  BY <1>1, ProducedParts, ImageTags DEF Produced, SameGeometry
<1>3. /\ Raster!Scalar(out, "ImageWidth", 0) = Raster!Scalar(file, "ImageWidth", 0)
      /\ Raster!Scalar(out, "ImageLength", 0) = Raster!Scalar(file, "ImageLength", 0)
      /\ Raster!Scalar(out, "SamplesPerPixel", 1) = Raster!Scalar(file, "SamplesPerPixel", 1)
      /\ Raster!Scalar(out, "Photometric", MaxU32) = Raster!Scalar(file, "Photometric", MaxU32)
      /\ Raster!Values(out, "BitsPerSample", <<>>) = Raster!Values(file, "BitsPerSample", <<>>)
  <2>1. \A tag \in {"ImageWidth", "ImageLength", "SamplesPerPixel", "Photometric", "BitsPerSample"} :
          tag \notin Replaced
    BY DEF Replaced
  <2> QED BY <2>1, ProducedSame
<1>4. g.width = o.width /\ g.length = o.length /\ g.samples = o.samples
      /\ g.photometric = o.photometric /\ g.bits = o.bits
  BY <1>1, <1>3, GeometryFields
<1>5. g.rows = Height
  <2>1. g.rows = IF Raster!Scalar(out, "RowsPerStrip", MaxU32) = MaxU32 THEN g.length
                 ELSE Raster!Scalar(out, "RowsPerStrip", MaxU32)
    BY <1>1, GeometryFields
  <2> QED BY <1>2, <1>4, <2>1, ProducedNew
<1>6. g.offsets = <<out.pixelsAt>> /\ g.counts = <<Len(raw)>>
  BY <1>1, GeometryFields, ProducedNew
<1> QED BY <1>1, <1>2, <1>4, <1>5, <1>6

\* The strip is as long as the image is large.
LEMMA ProducedSize ==
  ASSUME Produced
  PROVE  /\ Len(raw) = Expected /\ Expected = Height * RowBytes /\ PackedStream
         /\ \A n \in 1..Expected : raw[n] = UNION {Trimmed[m] : m \in Parts(n)}
<1>1. file \in Files /\ CompressedImage /\ SizeFits /\ answer = "rewritten" /\ Restored
  BY ProducedParts DEF Produced
<1>2. PackedStream /\ Expected = Height * RowBytes
  BY <1>1, ImageTaken, ExpectedSize
<1> QED BY <1>1, <1>2 DEF Restored

\* The one strip of the rewritten stream is all of its samples.
LEMMA ProducedStrip ==
  ASSUME Produced
  PROVE  LET g == Raster!Geometry(out)
         IN  /\ Raster!Rows(g, 1) = 0..(Height - 1) /\ Raster!Rows(g, 1) # {}
             /\ Raster!StripBytes(g, 1) = Len(raw)
<1>1. PICK g : g = Raster!Geometry(out)
  OBVIOUS
<1>2. PICK h \in Nat \ {0}, w \in Nat \ {0}, n \in Nat \ {0} :
        h = Height /\ w = Width /\ n = Samples
  BY ProducedParts, RewritableFacts
<1>3. g.length = h /\ g.rows = h /\ g.width = w /\ g.samples = n
  BY <1>1, <1>2, ProducedGeometry
<1>4. Raster!Rows(g, 1) = 0..(h - 1)
  <2>1. Raster!Rows(g, 1) = {r \in 0..(h - 1) : r >= (1 - 1) * h /\ r < 1 * h}
    BY <1>3 DEF Raster!Rows
  <2>2. ASSUME NEW r \in 0..(h - 1) PROVE r >= (1 - 1) * h /\ r < 1 * h
    <3>1. (1 - 1) * h = 0 /\ 1 * h = h
      OBVIOUS
    <3> QED BY <3>1
  <2>3. {r \in 0..(h - 1) : r >= (1 - 1) * h /\ r < 1 * h} = 0..(h - 1)
    BY ONLY <2>2, Zenon
  <2> QED BY ONLY <2>1, <2>3
<1>5. Cardinality(0..(h - 1)) = h
  <2>1. 0 \in Int /\ h - 1 \in Int /\ ~(0 > h - 1) /\ (h - 1) - 0 + 1 = h
    OBVIOUS
  <2> QED BY <2>1, FS_Interval
<1>6. Raster!StripBytes(g, 1) = h * w * n
  BY <1>3, <1>4, <1>5, SameFormat DEF Raster!StripBytes
<1>7. Len(raw) = h * (w * n)
  BY <1>2, ProducedSize DEF RowBytes
<1>8. h * w * n = h * (w * n)
  OBVIOUS
<1>9. 0 \in 0..(h - 1)
  OBVIOUS
<1> QED BY <1>1, <1>2, <1>4, <1>6, <1>7, <1>8, <1>9

\* Its directory can be read.
LEMMA ProducedWellFormed ==
  ASSUME Produced
  PROVE  Raster!WellFormed(out)
<1>1. /\ file \in Files /\ CompressedImage /\ answer = "rewritten" /\ out.size <= MaxU32
      /\ out.magic /\ out.ifd = 8 /\ IInv
  BY ProducedParts DEF Produced, Carried
<1>2. PICK m \in Nat, place \in Nat, n \in Nat, end \in Nat :
        /\ m = Len(file.entries) /\ place = out.pixelsAt /\ n = Len(raw) /\ end = DirectoryEnd
        /\ out.size = place + n /\ place >= end /\ end = 14 + 12 * m
  <2>1. Len(file.entries) \in Nat
    BY <1>1, FileType
  <2> QED BY <2>1, ProducedParts DEF DirectoryEnd
<1>3. PICK entries \in Seq(Entries) :
        /\ entries = out.entries /\ Len(entries) = m /\ DOMAIN entries = 1..m
        /\ \A k \in 1..m : Says(entries[k], file.entries[k])
  BY <1>2, ProducedEntries
<1>4. out.size >= 8 /\ DirectoryInside(out)
  BY <1>1, <1>2, <1>3 DEF DirectoryInside
<1>5. ASSUME NEW k \in 1..m PROVE ValuesInside(out, entries[k])
  <2>1. CASE Inline(entries[k])
    BY <2>1 DEF ValuesInside
  <2>2. CASE ~Inline(entries[k])
    <3>1. RegionsDisjoint
      BY <1>1, RegionsApart
    <3>2. Region(entries[k]) \subseteq end..(place - 1)
      <4>1. out.pixelsAt <= MaxU32
        BY <1>1, <1>2, MaxU32Assumption
      <4> QED BY <1>1, <1>2, <1>3, <2>2, <3>1, <4>1 DEF RegionsDisjoint
    <3>3. entries[k] \in Entries
      BY <1>3
    <3>4. PICK a \in Nat, b \in Nat : a = entries[k].at /\ b = ValueBytes(entries[k])
      BY <3>3, EntryType
    <3>5. b > 4
      BY <2>2, <3>4 DEF Inline
    <3>6. a + b - 1 \in Region(entries[k])
      BY <3>4, <3>5 DEF Region
    <3>7. a + b - 1 <= place - 1
      BY ONLY <3>2, <3>6, a \in Nat, b \in Nat, end \in Nat, place \in Nat
    <3>8. a + b <= place
      BY ONLY <3>7, a \in Nat, b \in Nat, place \in Nat
    <3>9. a + b <= out.size
      BY <1>2, <3>8
    <3> QED BY <3>4, <3>9 DEF ValuesInside
  <2> QED BY <2>1, <2>2
<1>6. ASSUME NEW k \in 1..m, NEW e, e = entries[k], e.tag \in ScalarTags \cup ArrayTags
      PROVE  /\ e.type \in {"BYTE", "SHORT", "LONG"}
             /\ e.tag \in ScalarTags => Len(e.vals) = 1
  <2>1. PICK o : o = file.entries[k] /\ Says(e, o)
    BY <1>3, <1>6
  <2>2. /\ o.tag \in ScalarTags \cup ArrayTags => Numbers(o)
        /\ o.tag \in ScalarTags => Len(o.vals) = 1
    BY <1>1, <1>2, <2>1, ImageEntries
  <2>3. e.type \in {"BYTE", "SHORT", "LONG"}
    BY <1>6, <2>1, <2>2 DEF Says, Numbers
  <2>4. ASSUME e.tag \in ScalarTags PROVE Len(e.vals) = 1
    <3>1. \A x : Len(<<x>>) = 1
      OBVIOUS
    <3>2. o.tag = e.tag
      BY <2>1 DEF Says
    <3>3. CASE e.tag \in {"Compression", "RowsPerStrip"}
      BY <2>1, <3>1, <3>2, <3>3 DEF Says
    <3>4. CASE e.tag \notin {"Compression", "RowsPerStrip"}
      <4>1. e.vals = o.vals
        BY <2>1, <2>4, <3>2, <3>4 DEF Says, ScalarTags
      <4> QED BY <2>2, <2>4, <3>2, <4>1
    <3> QED BY <3>3, <3>4
  <2> QED BY <2>3, <2>4
<1> QED BY <1>1, <1>3, <1>4, <1>5, <1>6, SameFormat DEF Raster!WellFormed

\* The decoder takes it.
LEMMA ProducedBaseline ==
  ASSUME Produced
  PROVE  Raster!Baseline(out)
<1>1. PICK g, o : g = Raster!Geometry(out) /\ o = Raster!Geometry(file)
  OBVIOUS
<1>2. PICK place \in Nat, n \in Nat : /\ place = out.pixelsAt /\ n = Len(raw)
                                      /\ out.size = place + n
  BY ProducedParts
<1>3. /\ g.width = Width /\ g.length = Height /\ g.samples = Samples /\ g.rows = Height
      /\ g.photometric = o.photometric /\ g.bits = o.bits
      /\ g.offsets = <<place>> /\ g.counts = <<n>>
  BY <1>1, <1>2, ProducedGeometry
<1>4. /\ Raster!Scalar(out, "PlanarConfig", 1) = 1
      /\ o.samples = Samples
      /\ \/ o.samples = 1 /\ o.photometric \in {1, MaxU32} /\ o.bits = <<8>>
         \/ o.samples = 3 /\ o.photometric \in {2, MaxU32} /\ o.bits = <<8, 8, 8>>
  <2>1. Raster!Scalar(out, "PlanarConfig", 1) = Raster!Scalar(file, "PlanarConfig", 1)
    BY ProducedSame DEF Replaced
  <2>2. o.samples = Samples
    BY <1>1, ProducedParts, ImageTags DEF Produced, SameGeometry
  <2> QED BY <1>1, <2>1, <2>2 DEF Produced, CompressedImage, Raster!BaselineImage
<1>5. Width > 0 /\ Height > 0
  BY ProducedParts, RewritableFacts
<1>6. /\ DOMAIN g.offsets = {1} /\ Len(g.offsets) = Len(g.counts)
      /\ g.offsets[1] = place /\ g.counts[1] = n
  BY <1>3
<1>7. /\ Raster!Rows(g, 1) = 0..(Height - 1) /\ Raster!Rows(g, 1) # {}
      /\ Raster!StripBytes(g, 1) = n
  BY <1>1, <1>2, ProducedStrip
<1>8. UNION {Raster!Rows(g, s) : s \in DOMAIN g.offsets} = 0..(g.length - 1)
  BY <1>3, <1>6, <1>7
<1>9. Raster!BaselineImage(out, g.counts)
  BY <1>1, <1>3, <1>4, <1>5, <1>6, <1>7, <1>8 DEF Raster!BaselineImage
<1>10. Raster!WellFormed(out) /\ Raster!Scalar(out, "Compression", 1) = 1
  BY ProducedWellFormed, ProducedNew
<1> QED BY <1>1, <1>2, <1>6, <1>9, <1>10 DEF Raster!Baseline

\* The samples that the decoder makes of it are the bytes of its strip.
LEMMA ProducedSamples ==
  ASSUME Produced
  PROVE  ActualSamples = [n \in 1..Expected |-> raw[n]]
<1>1. PICK g : g = Raster!Geometry(out)
  OBVIOUS
<1>2. PICK place \in Nat, e \in Nat :
        place = out.pixelsAt /\ e = Len(raw) /\ e = Expected /\ DOMAIN raw = 1..e
  <2>1. DOMAIN raw = 1..Len(raw)
    BY ProducedParts DEF Taking
  <2> QED BY <2>1, ProducedParts, ProducedSize
<1>3. g.offsets = <<place>> /\ DOMAIN g.offsets = {1} /\ g.offsets[1] = place
  BY <1>1, <1>2, ProducedGeometry
<1>4. Raster!StripBytes(g, 1) = e
  BY <1>1, <1>2, ProducedStrip
<1>5. PICK one : one = [k \in 1..e |-> place + k - 1]
  OBVIOUS
<1>6. PICK seqs : seqs = [s \in 1..1 |-> one]
  OBVIOUS
<1>7. Raster!SampleAddresses(g) = Raster!FlattenSeq(seqs)
  <2>1. [s \in DOMAIN g.offsets |->
           [k \in 1..Raster!StripBytes(g, s) |-> g.offsets[s] + k - 1]] = seqs
    BY <1>3, <1>4, <1>5, <1>6
  <2> QED BY <2>1 DEF Raster!SampleAddresses
<1>8. Chain(seqs, 1, seqs)
  BY <1>6 DEF Chain
<1>9. Raster!FlattenSeq(seqs) = seqs[1]
  <2>1. Len(seqs) = 1
    BY <1>6
  <2>2. Raster!FlattenSeq(seqs) = (CHOOSE flatten : Chain(seqs, 1, flatten))[1]
    BY <2>1 DEF Raster!FlattenSeq, Chain
  <2> QED BY <1>8, <2>2, ChainIs
<1>10. Raster!SampleAddresses(g) = one
  BY <1>6, <1>7, <1>9
<1>11. \A n \in 1..e : one[n] - place + 1 = n
  BY <1>5
<1>12. ActualSamples =
         [n \in DOMAIN one |-> LET k == one[n] - place + 1
                               IN  IF k \in DOMAIN raw THEN raw[k] ELSE {}]
  BY <1>1, <1>2, <1>10 DEF ActualSamples
<1>13. DOMAIN one = 1..e
  BY <1>5
<1> QED BY <1>2, <1>11, <1>12, <1>13

\* They are those of the picture that the stream stands for.
LEMMA ProducedEquivalent ==
  ASSUME Produced, ExactStrips
  PROVE  Equivalent
<1>1. /\ file \in Files /\ CompressedImage /\ SizeFits /\ answer = "rewritten" /\ pc = "done"
  BY ProducedParts DEF Produced, Building, Finished
<1>2. PictureBytes = Trimmed
  BY <1>1, PictureIs DEF Trimmed
<1>3. PICK e \in Nat : e = Expected /\ DOMAIN Trimmed = 1..e
  <2>1. PICK T : T = SUBSET (Nat \X Nat)
    OBVIOUS
  <2>2. StripsContent \in Seq(T) /\ Expected \in Nat /\ Len(StripsContent) >= Expected
    BY <1>1, <2>1, PictureIs
  <2>3. PICK v \in Seq(T), x \in Nat : v = StripsContent /\ x = Expected /\ 0 + x <= Len(v)
    <3>1. Len(StripsContent) \in Nat
      BY <2>2
    <3> QED BY <2>2, <3>1
  <2>4. SubSeq(v, 0 + 1, 0 + x) = [k \in 1..x |-> v[0 + k]]
    BY <2>3, SubSeqShape
  <2>5. Trimmed = [k \in 1..x |-> v[0 + k]]
    BY <2>3, <2>4 DEF Trimmed
  <2> QED BY <2>3, <2>5
<1>4. \A n \in 1..e : raw[n] = UNION {Trimmed[m] : m \in Parts(n)}
  BY <1>3, ProducedSize
<1>5. PICK g : g = Raster!Geometry(file)
  OBVIOUS
<1>6. /\ g.width * g.samples = RowBytes /\ g.samples = Samples
      /\ Raster!Scalar(file, "Predictor", 1) = Predictor
  BY <1>1, <1>5, ImageTags DEF SameGeometry, RowBytes
<1>7. \A n : Parts(n) = IF Predictor = 2 THEN Summands(n, RowBytes, Samples) ELSE {n}
  BY <1>1 DEF Parts
<1>8. IdealSamples = [n \in 1..e |-> UNION {Trimmed[m] : m \in Parts(n)}]
  <2>1. IdealSamples =
          [n \in DOMAIN Trimmed |->
             UNION {Trimmed[m] : m \in IF Predictor = 2 THEN Summands(n, RowBytes, Samples) ELSE {n}}]
    BY <1>2, <1>5, <1>6 DEF IdealSamples
  <2> QED BY <1>3, <1>7, <2>1
<1>9. ActualSamples = [n \in 1..e |-> raw[n]]
  BY <1>3, ProducedSamples
<1>10. ActualSamples = IdealSamples
  BY <1>4, <1>8, <1>9
<1> QED BY <1>1, <1>10, ProducedBaseline DEF Equivalent

\* A compressed baseline image whose strips decompress to exactly their rows is
\* rewritten to one that the decoder makes the same picture of: RewriteCompressedTiff
\* from the header to the patched directory.
THEOREM RewriteKeepsThePicture == Spec => []ExactImagesEquivalent
<1> DEFINE Inv == IInv /\ Unpacking /\ Restored /\ Carried
<1>1. Init => Inv
  BY InitIInv, UnpackingInit, RestoredInit, CarriedInit
<1>2. Inv /\ [Next]_vars => Inv'
  BY StepIInv, UnpackingNext, RestoredNext, CarriedNext
<1>3. Inv => ExactImagesEquivalent
  <2> SUFFICES ASSUME Inv, pc = "done", CompressedImage, ExactStrips, SizeFits,
                      answer = "rewritten" => out.size <= MaxU32
               PROVE  Equivalent
    BY DEF ExactImagesEquivalent
  <2>1. file \in Files
    BY TwoParts DEF Taking
  <2>2. PackedStream /\ AllWhole
    BY <2>1, ImageTaken
  <2>3. Enough
    BY <2>1, <2>2, PictureIs DEF Enough
  <2>4. answer = "rewritten"
    BY <2>2, <2>3 DEF Unpacking
  <2>5. Produced
    BY <2>4 DEF Produced
  <2> QED BY <2>5, ProducedEquivalent
<1> HIDE DEF Inv
<1>4. Spec => []Inv
  BY <1>1, <1>2, PTL DEF Spec
<1> QED BY <1>3, <1>4, PTL
=============================================================================
