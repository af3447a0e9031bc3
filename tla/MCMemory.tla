------------------------------ MODULE MCMemory ------------------------------
(* The memory manager over a few cells and slots, which are all alike.     *)
EXTENDS Memory, TLC

(* The bound: no more than so many links hold something at a time.  Three  *)
(* make a cycle of three cells, and a cell that links another twice.       *)
CONSTANT MaxLinks
FewLinks == Cardinality({e \in Link : link[e] # NULL}) <= MaxLinks

Symmetry == Permutations(Cell) \cup Permutations(Slot)
=============================================================================
