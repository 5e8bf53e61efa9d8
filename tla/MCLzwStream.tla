----------------------------- MODULE MCLzwStream -----------------------------
(***************************************************************************)
(* LzwStream with two literals and codes of 3 and 4 bits: the width grows  *)
(* after five codes and the table is full after twelve.  Every short input *)
(* is encoded, and some that are long enough to fill the table; up to six  *)
(* arbitrary codes in front of an empty input, one anywhere in a short one.*)
(***************************************************************************)
EXTENDS LzwStream

Short == {[bytes |-> s, damage |-> IF s = <<>> THEN 6 ELSE 1] : s \in SeqOf(Byte, 5)}

Periodic(n, period) == [i \in 1..n |-> IF i % period = 0 THEN 1 ELSE 0]

\* a word without structure, from a linear congruential sequence
Scattered(n, seed) ==
  LET x[i \in 0..n] == IF i = 0 THEN seed ELSE ((x[i - 1] * 5) + 3) % 64
  IN  [i \in 1..n |-> (x[i] \div 16) % 2]

Long ==
  {[bytes |-> s, damage |-> 0] :
     s \in {Periodic(80, p) : p \in {2, 3, 5}} \cup {Periodic(130, 131)} \cup {Scattered(50, n) : n \in 0..3}}

ShortAndLong == Short \cup Long
=============================================================================
