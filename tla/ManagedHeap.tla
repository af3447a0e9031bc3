---------------------------- MODULE ManagedHeap ----------------------------
(***************************************************************************)
(* What the memory manager promises its client, with no lists, no counts   *)
(* and no collector: memory that the client can still get at is never      *)
(* taken back, and everything else may be, at any time.                    *)
(*                                                                         *)
(* The client holds a cell from its allocation until it links it for the   *)
(* first time (memory.h: "request memory from the GC") and while it is     *)
(* locked ("this memory should never be freed").  It can get at what it    *)
(* holds and what it reaches from there.                                   *)
(***************************************************************************)
EXTENDS HeapGraph

VARIABLES
    used,      \* the cells that are handed out and not taken back
    held,      \* the used cells that the client holds directly
    locked,    \* those of them it holds with a lock
    link       \* the links between cells, the client's data

vars == <<used, held, locked, link>>

Accessible == Reachable(link, held)

Init ==
    /\ used = {} /\ held = {} /\ locked = {}
    /\ link = [e \in Link |-> NULL]

(* The client asks for memory.  It gets a cell nobody uses, with no links, *)
(* and holds it.                                                           *)
Allocate(c) ==
    /\ c \notin used
    /\ used' = used \cup {c}
    /\ held' = held \cup {c}
    /\ link' = [e \in Link |-> IF e[1] = c THEN NULL ELSE link[e]]
    /\ UNCHANGED locked

(* The client sets a slot of a cell it can get at to a cell it can get at, *)
(* or clears it.  A cell that is held only because it was never linked is  *)
(* from now on reached through its links.                                  *)
Patch(x, s, y) ==
    /\ link' = [link EXCEPT ![<<x, s>>] = y]
    /\ held' = held \ ({y} \ locked)
    /\ UNCHANGED <<used, locked>>
    /\ x \in Accessible
    /\ y \in Accessible \cup {NULL}

Lock(c) ==
    /\ locked' = locked \cup {c}
    /\ held' = held \cup {c}
    /\ UNCHANGED <<used, link>>
    /\ c \in Accessible

Unlock(c) ==
    /\ locked' = locked \ {c}
    /\ held' = held \ {c}
    /\ UNCHANGED <<used, link>>
    /\ c \in Accessible

(* Memory that cannot be got at is taken back.                             *)
Reclaim(c) ==
    /\ c \in used
    /\ used' = used \ {c}
    /\ UNCHANGED <<held, locked, link>>
    /\ c \notin Accessible

Next ==
    \/ \E c \in Cell : Allocate(c) \/ Lock(c) \/ Unlock(c) \/ Reclaim(c)
    \/ \E x \in Cell, s \in Slot, y \in Cell \cup {NULL} : Patch(x, s, y)

Spec == Init /\ [][Next]_vars
=============================================================================
