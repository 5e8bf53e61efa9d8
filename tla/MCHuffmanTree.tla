---------------------------- MODULE MCHuffmanTree ----------------------------
(* HuffmanTree on every list of up to five code lengths of at most three bits. *)
EXTENDS HuffmanTree, SequencesExt

UpToFive == SeqOf(0..3, 5)
=============================================================================
