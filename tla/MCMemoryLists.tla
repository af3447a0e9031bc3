---------------------------- MODULE MCMemoryLists ----------------------------
(* The memory manager on its lists, over cells with two slots, as a cons.  *)
EXTENDS MemoryLists

TwoSlots == <<"s1", "s2">>
=============================================================================
