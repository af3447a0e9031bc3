----------------------------- MODULE HeapGraph -----------------------------
(***************************************************************************)
(* The graph that the data link callback of a memory manager shows it: the *)
(* cells, the link slots every cell has, and what each slot holds.  What a *)
(* cell is made of is left to the callback (links_cb in node.c); here a    *)
(* slot holds a cell or NULL.                                              *)
(*                                                                         *)
(* Reachability is stated with closed sets, not with paths or recursion: a *)
(* cell is reachable from a set of cells iff it belongs to every set that  *)
(* contains them and that no link leaves.                                  *)
(***************************************************************************)
EXTENDS FiniteSets

CONSTANTS
    Cell,      \* the memory cells (memcell_t and the data behind it)
    Slot,      \* the link slots of a cell (car, cdr, env, vars, expr, ...)
    NULL       \* what an empty slot holds

ASSUME CellAssumption == IsFiniteSet(Cell) /\ NULL \notin Cell
ASSUME SlotAssumption == IsFiniteSet(Slot)

Link == Cell \X Slot                    \* a link is named by where it is held
Heap == [Link -> Cell \cup {NULL}]      \* ... and the heap says what it holds

(* No link leads out of S.                                                 *)
Closed(h, S) == \A e \in Link : e[1] \in S /\ h[e] # NULL => h[e] \in S

(* The cells that can be reached from the cells of R along the links of h. *)
Reachable(h, R) ==
    {c \in Cell : \A S \in SUBSET Cell : R \subseteq S /\ Closed(h, S) => c \in S}

(* The links out of a cell that hold something: the calls that the link    *)
(* callback makes with a link that is not NULL.                            *)
LinksOf(h, c) == {e \in Link : e[1] = c /\ h[e] # NULL}
Targets(h, c) == {h[e] : e \in LinksOf(h, c)}

(* The links that hold c, counted only where their holder is in S.         *)
LinksTo(h, S, c) == {e \in Link : e[1] \in S /\ h[e] = c}

(* The links from x that hold c: how often the link callback names c when  *)
(* it is run on x.                                                         *)
LinksBetween(h, x, c) == LinksTo(h, {x}, c)
=============================================================================
