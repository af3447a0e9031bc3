--------------------------- MODULE MCFreememCache ---------------------------
(* The cache over a few blocks, which are all alike.                       *)
EXTENDS FreememCache, TLC

Symmetry == Permutations(Block)
=============================================================================
