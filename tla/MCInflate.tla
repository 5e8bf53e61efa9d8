------------------------------ MODULE MCInflate ------------------------------
(***************************************************************************)
(* Inflate on what a Deflate encoder writes, whole and cut off, and on     *)
(* arbitrary fields.  Two literals, lengths 2 to 4, distances 1 to 3.      *)
(***************************************************************************)
EXTENDS DeflateStrips, SequencesExt, FiniteSetsExt

TwoLengths == <<2, 3>>
TwoDistances == <<1, 2>>
LastHasExtra == <<0, 1>>
RepeatBases == <<2, 2, 3>>
RepeatWidths == <<1, 1, 2>>
EarlierStrip == <<1, 0, 0>>

-----------------------------------------------------------------------------
(* Items and blocks of items.                                              *)

Item(kind, fields) == [kind |-> kind, fields |-> fields]

Tokens ==
  {Item("literal", <<b>>) : b \in 0..(Literals - 1)}
    \cup {Item("match", f) : f \in {<<EndOfBlock + 1, 0>>, <<EndOfBlock + 1, 1, 0>>, <<EndOfBlock + 1, 1, 1>>,
                                    <<EndOfBlock + 2, 1, 0>>, <<EndOfBlock + 2, 0, 1, 1>>}}

Ones(n) == [k \in 1..n |-> Item("length", <<1>>)]
Repeat(sym, extra) == <<Item("repeat", <<sym, extra>>)>>

\* Block headers: a fixed one, and dynamic ones with a code for every symbol, the
\* lengths written one by one or repeated, for literal 0 and the end only, or for
\* the end only.
Headers(last) ==
  {<<Item("fixed", <<last, 1>>)>>,
   <<Item("dynamic", <<last, 2, 2, 1, 1, 0, 0, 0, 1, 1>>)>> \o Ones(7),
   <<Item("dynamic", <<last, 2, 2, 1, 1, 1, 1, 1, 1, 1>>)>> \o Ones(1) \o Repeat(2, 1) \o Repeat(2, 1),
   <<Item("dynamic", <<last, 2, 0, 0, 1, 1, 1, 1, 1, 1>>)>>
     \o Ones(1) \o <<Item("length", <<0>>)>> \o Ones(2),
   <<Item("dynamic", <<last, 2, 2, 1, 1, 1, 1, 1, 1, 1>>)>> \o Repeat(3, 0) \o Ones(1) \o Repeat(4, 1)}

Blocks(last, n) ==
  {h \o t \o <<Item("end", <<EndOfBlock>>)>> : h \in Headers(last), t \in SeqOf(Tokens, n)}
    \cup {<<Item("stored", <<last, 0, Len(b), 31 - Len(b)>> \o b)>> : b \in {<<>>, <<1>>, <<1, 0, 1>>, <<0, 1, 1, 0, 1>>}}

Right(texts) == {items \in texts : Final(items).mode = "done"}
OneBlock(n) == Right(Blocks(1, n))
TwoBlocks(n) == Right(UNION {{b1 \o b2 : b1 \in Blocks(0, k), b2 \in Blocks(1, n - k)} : k \in 0..n})

\* A strip of these fields alone.  Its first byte holds the block header and zero
\* bits, its second one is the check a zlib header would have.
Check(cmf) == (31 - ((256 * cmf) % 31)) % 31
Raw(f) ==
  LET cmf == IF Len(f) >= 2 THEN (f[1] % 2) + 2 * (f[2] % 4) ELSE 1
  IN  [first |-> <<cmf, Check(cmf)>>, fields |-> f, after |-> <<1, 1, EndOfBlock>>,
       cut |-> FALSE, items |-> <<>>, zlib |-> FALSE]

\* A strip of items, without a zlib header, or with one and a checksum.
Plain(items) ==
  [Raw(FlattenSeq([k \in DOMAIN items |-> items[k].fields])) EXCEPT !.items = items]
Zlib(items, cmf) ==
  [Plain(items) EXCEPT !.first = <<cmf, Check(cmf)>>, !.zlib = TRUE,
                       !.after = Plain(items).fields \o <<1, 1, 1, 1>>, !.fields = <<1, 1, EndOfBlock>>]

\* A stored block whose padding looks like a zlib header, but for the check.
Padded ==
  [Plain(<<Item("stored", <<0, 0, 1, 2, 1>>), Item("fixed", <<1, 1>>), Item("end", <<EndOfBlock>>)>>)
     EXCEPT !.first = <<8, 1>>]

Whole ==
  {Plain(items) : items \in OneBlock(3) \cup TwoBlocks(2)}
    \cup {Zlib(items, cmf) : items \in OneBlock(2) \cup TwoBlocks(1), cmf \in {8, 120}}
    \cup {Padded}

\* Strips that end before their last block does, some inside a field.
Cuttable(n) == {Plain(items) : items \in OneBlock(2) \cup TwoBlocks(n)}
Places(strips) == {p \in strips \X (0..40) : p[2] < Len(p[1].fields)}
Short(f, k) == SubSeq(f, 1, Min({k, Len(f) - 1}))
Tiny == {[Raw(<<1>>) EXCEPT !.first = f] : f \in {<<>>, <<120>>}}
CutOff ==
  {[p[1] EXCEPT !.fields = Short(@, p[2])] : p \in Places(Cuttable(1))}
    \cup {[p[1] EXCEPT !.fields = Append(Short(@, p[2]), v), !.cut = TRUE] :
            p \in Places(Cuttable(0)), v \in {0, MaxLit}}
    \cup {[s EXCEPT !.after = Short(@, k)] : s \in {Zlib(items, 120) : items \in OneBlock(1)}, k \in 0..40}

Arbitrary == {Raw(f) : f \in SeqOf(0..MaxLit - 1, 5)}

\* The last repetition of the code lengths runs over their number.
Overrun == {Raw(<<1, 2, 2, 1, 1, 1, 1, 1, 1, 1, 1, 1, 1, 1, 1, 1, 2, v, EndOfBlock>>) : v \in {0, 1}}

\* A stored block that announces more bytes than the strip has, first or second.
Announced ==
  {Raw(f) : f \in {<<1, 0, 31, 0, 1>>, <<0, 0, 31, 0>>, <<1, 0, 7, 0, 1, 1, 0>>,
                   <<0, 0, 1, 2, 1, 1, 0, 31, 0, 1, 0>>}}

AllStrips == Whole \cup CutOff \cup Tiny \cup Arbitrary \cup Overrun \cup Announced
=============================================================================
