-------------------------------- MODULE Dlist --------------------------------
(***************************************************************************)
(* The doubly linked lists that the memory manager and the cache of free   *)
(* blocks keep their cells on (dlist.c, dlist.h).  A list is named by its  *)
(* header node, so the pointer to the header and the owner that every node *)
(* records are the same value; a node without an owner is on no list.      *)
(*                                                                         *)
(* h is the state of all nodes: a function for each member of dlnode_t.    *)
(* An operation is a function of h, and the asserts that it starts with    *)
(* are an operator of their own, for whoever calls it.                     *)
(***************************************************************************)
EXTENDS Naturals, FiniteSets, Sequences

CONSTANTS
    List,      \* the lists, that is, their headers
    Item,      \* the other nodes
    NULL

(* What the addresses of nodes are.  The modules that take this one with  *)
(* INSTANCE assume it of what they put in.                                 *)
NodesAreDistinct == List \cap Item = {} /\ NULL \notin List \cup Item

DlNode == List \cup Item

Dlists == [prev  : [DlNode -> DlNode \cup {NULL}],
           next  : [DlNode -> DlNode \cup {NULL}],
           owner : [DlNode -> List \cup {NULL}]]

(* dlist_init for every list, dlnode_init for every other node.            *)
Header(n) == IF n \in List THEN n ELSE NULL
dlist_init == [prev  |-> [n \in DlNode |-> Header(n)],
               next  |-> [n \in DlNode |-> Header(n)],
               owner |-> [n \in DlNode |-> Header(n)]]

dlnode_init(h, n) ==
    [prev  |-> [h.prev EXCEPT ![n] = NULL], next |-> [h.next EXCEPT ![n] = NULL],
     owner |-> [h.owner EXCEPT ![n] = NULL]]

dlnode_is_terminal(h, n) == n = h.owner[n]
dlist_first(h, l) == h.next[l]
dlist_is_empty(h, l) == h.next[l] = l

-----------------------------------------------------------------------------
dlnode_join(h, n, m) ==
    [prev |-> [h.prev EXCEPT ![m] = n], next |-> [h.next EXCEPT ![n] = m], owner |-> h.owner]

Adjacent(h, p, q) ==
    /\ h.next[p] = q /\ h.prev[q] = p
    /\ h.owner[p] # NULL /\ h.owner[p] = h.owner[q]

AssertInsert(h, p, n, q) == Adjacent(h, p, q) /\ h.owner[n] = NULL
dlnode_insert_NoBackLink(h, p, n, q) ==                  \* mutant: q is not told
    [h EXCEPT !.next[p] = n, !.prev[n] = p, !.next[n] = q, !.owner[n] = h.owner[p]]
dlnode_insert(h, p, n, q) ==
    [dlnode_join(dlnode_join(h, p, n), n, q) EXCEPT !.owner[n] = h.owner[p]]

AssertMove(h, p, n, q) == Adjacent(h, p, q) /\ h.owner[n] # NULL
dlnode_move(h, p, n, q) ==
    LET out == dlnode_join(h, h.prev[n], h.next[n])
    IN  [dlnode_join(dlnode_join(out, p, n), n, q) EXCEPT !.owner[n] = h.owner[p]]

AssertRemove(h, n) == h.owner[n] # NULL
dlnode_remove_KeepsOwner(h, n) ==                        \* mutant: the owner stays
    dlnode_join(h, h.prev[n], h.next[n])
(* The pointers of n itself stay as they are.                              *)
dlnode_remove(h, n) ==
    [dlnode_join(h, h.prev[n], h.next[n]) EXCEPT !.owner[n] = NULL]

dlnode_insertnext(h, p, n) == dlnode_insert(h, p, n, h.next[p])
dlnode_insertprev(h, q, n) == dlnode_insert(h, h.prev[q], n, q)
dlist_insertfirst(h, l, n) == dlnode_insertnext(h, l, n)
dlist_insertlast(h, l, n)  == dlnode_insertprev(h, l, n)

(* What a DLIST_FOR_FWD loop over l sees.                                  *)
Walk(h, l) ==
    LET at[k \in 0..Cardinality(Item) + 1] ==
            IF k = 0 THEN dlist_first(h, l)
            ELSE IF dlnode_is_terminal(h, at[k - 1]) THEN at[k - 1] ELSE h.next[at[k - 1]]
        count == CHOOSE k \in DOMAIN at :
                    at[k] = l /\ \A j \in 0..k - 1 : at[j] # l
    IN  [k \in 1..count |-> at[k - 1]]

-----------------------------------------------------------------------------
Linked(h) == {n \in DlNode : h.owner[n] # NULL}

(* The two directions of every list agree, and neighbours are on the same  *)
(* list.                                                                   *)
IsRing(h) ==
    /\ \A l \in List : h.owner[l] = l
    /\ \A n \in Linked(h) :
         /\ h.next[n] \in Linked(h) /\ h.prev[h.next[n]] = n
         /\ h.prev[n] \in Linked(h) /\ h.next[h.prev[n]] = n
         /\ h.owner[h.next[n]] = h.owner[n]

(* No node is lost: a node that says it is on a list is met on the way     *)
(* around that list.  Said with closed sets: only the whole list has what  *)
(* follows its header, and with each of its nodes what follows that.       *)
Members(h, l) == {n \in Item : h.owner[n] = l}

ClosedUnderNext(h, l, S) ==
    h.next[l] \in S \cup {l} /\ \A n \in S : h.next[n] \in S \cup {l}

OnItsList(h) ==
    \A l \in List : \A S \in SUBSET Members(h, l) :
        ClosedUnderNext(h, l, S) => S = Members(h, l)

WellLinked(h) == h \in Dlists /\ IsRing(h) /\ OnItsList(h)
=============================================================================
