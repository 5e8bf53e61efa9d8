------------------------------ MODULE TiffStrips ------------------------------
(***************************************************************************)
(* What RewriteCompressedTiff should make of the strips of a stream.       *)
(*                                                                         *)
(* PackBits strips are those an encoder writes.  A packet is a number:     *)
(* n > 0 is one of n literal bytes, n < 0 one byte -n times, and 0 the     *)
(* header that means nothing.  The packets of each strip are given with    *)
(* the stream; other streams have none.                                    *)
(***************************************************************************)
EXTENDS TiffRewrite

Packets == (-Half..Half) \ {-1}

ASSUME PacketsAssumption == \A f \in Files : f.packets \in Seq(Seq(Packets))

HeaderByte(n) == CASE n > 0 -> n - 1
                   [] n < 0 -> 2 * Half + 1 + n
                   [] OTHER -> Half

PacketSize(n) == CASE n > 0 -> n + 1
                   [] n < 0 -> 2
                   [] OTHER -> 1

\* What a packet at address a stands for.
PacketBytes(n, a) == CASE n > 0 -> [k \in 1..n |-> {<<a + k, 0>>}]
                       [] n < 0 -> [k \in 1..(-n) |-> {<<a + 1, 0>>}]
                       [] OTHER -> <<>>

\* The bytes that the first k packets take.
Ends(packets) ==
  LET e[k \in 0..Len(packets)] == IF k = 0 THEN 0 ELSE e[k - 1] + PacketSize(packets[k])
  IN  e

\* The buffer after the first k packets of a strip at address o.
Unpack(before, packets, o) ==
  LET u[k \in 0..Len(packets)] ==
        IF k = 0 THEN before ELSE u[k - 1] \o PacketBytes(packets[k], o + Ends(packets)[k - 1])
  IN  u

\* The buffer after strip s, at address o.
AfterStrip(f, before, s, o) ==
  CASE f.packets # <<>> -> Unpack(before, f.packets[s], o)[Len(f.packets[s])]
    [] f.packets = <<>> /\ o \in DOMAIN f.yield -> before \o [k \in 1..f.yield[o] |-> {<<o, k>>}]
    [] OTHER -> before

\* The buffer after the first s strips.
Buffer(f, offsets) ==
  LET b[s \in 0..Len(offsets)] == IF s = 0 THEN <<>> ELSE AfterStrip(f, b[s - 1], s, offsets[s])
  IN  b

\* The strip at address o has these packets, each with its header in its place.
HasPackets(f, packets, o) ==
  \A k \in DOMAIN packets :
    LET a == o + Ends(packets)[k - 1]
    IN  a \in DOMAIN f.bytes /\ f.bytes[a] = HeaderByte(packets[k])

\* The strip can be decompressed to its end.
Whole(f, s, o, count) ==
  IF f.packets # <<>> THEN count = Ends(f.packets[s])[Len(f.packets[s])] ELSE o \in DOMAIN f.yield

\* The strip ends inside its last packet.
CutOff(packets, count) ==
  /\ packets # <<>>
  /\ count > Ends(packets)[Len(packets) - 1] /\ count < Ends(packets)[Len(packets)]

\* A stream that only its strips can be a reason to refuse.
PackedStream ==
  /\ HeaderInside /\ Rewritable
  /\ \A k \in DOMAIN file.entries : ValuesInside(file, file.entries[k])
  /\ Compression = PackBits <=> file.packets # <<>>
  /\ file.packets # <<>> => Len(file.packets) = Len(Offsets)
  /\ \A s \in DOMAIN Offsets :
       /\ Offsets[s] + Counts[s] <= file.size
       /\ file.packets # <<>> =>
            /\ HasPackets(file, file.packets[s], Offsets[s])
            /\ \/ Whole(file, s, Offsets[s], Counts[s])
               \/ CutOff(file.packets[s], Counts[s])

AllWhole == \A s \in DOMAIN Offsets : Whole(file, s, Offsets[s], Counts[s])

StripsContent == Buffer(file, Offsets)[Len(Offsets)]

\* Packets are unpacked to what they stand for, through all strips, and the image
\* is refused just when the last packet of a strip is cut off, a strip cannot be
\* decompressed or they stand for too little.
UnpacksWhatWasPacked ==
  PackedStream =>
    /\ pc = "strips" /\ strip > Len(Offsets) => AllWhole /\ raw = StripsContent
    /\ pc = "done" => (answer = "rewritten" <=> AllWhole /\ Len(StripsContent) >= Expected)
=============================================================================
