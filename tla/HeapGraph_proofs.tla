-------------------------- MODULE HeapGraph_proofs --------------------------
(***************************************************************************)
(* What reachability by closed sets and the counting of links amount to.   *)
(***************************************************************************)
EXTENDS HeapGraph, FiniteSetTheorems, Integers, TLAPS

(* The cells one starts from are reached.                                  *)
LEMMA ReachableContains ==
    ASSUME NEW h, NEW R \in SUBSET Cell
    PROVE  R \subseteq Reachable(h, R)
BY DEF Reachable

(* A link from a cell that is reached leads to a cell that is reached.     *)
LEMMA ReachableStep ==
    ASSUME NEW h \in Heap, NEW R \in SUBSET Cell,
           NEW e \in Link, e[1] \in Reachable(h, R), h[e] # NULL
    PROVE  h[e] \in Reachable(h, R)
<1>1. h[e] \in Cell
  BY DEF Heap
<1>2. ASSUME NEW S \in SUBSET Cell, R \subseteq S, Closed(h, S)
      PROVE  h[e] \in S
  BY <1>2 DEF Reachable, Closed
<1> QED
  BY <1>1, <1>2 DEF Reachable

(* Nothing is reached outside a closed set that holds the start.           *)
LEMMA ReachableLeast ==
    ASSUME NEW h, NEW R, NEW S \in SUBSET Cell, R \subseteq S, Closed(h, S)
    PROVE  Reachable(h, R) \subseteq S
BY DEF Reachable

(* There are finitely many links, so the links to a cell can be counted.   *)
LEMMA LinksFinite ==
    /\ IsFiniteSet(Link)
    /\ \A h, S, c : IsFiniteSet(LinksTo(h, S, c)) /\ LinksTo(h, S, c) \subseteq Link
<1>1. IsFiniteSet(Link)
  BY CellAssumption, SlotAssumption, FS_Product DEF Link
<1>2. ASSUME NEW h, NEW S, NEW c
      PROVE  IsFiniteSet(LinksTo(h, S, c)) /\ LinksTo(h, S, c) \subseteq Link
  <2>1. LinksTo(h, S, c) \subseteq Link
    BY DEF LinksTo
  <2> QED
    BY <1>1, <2>1, FS_Subset
<1> QED
  BY <1>1, <1>2

LEMMA CountIsNat ==
    ASSUME NEW h, NEW S, NEW c
    PROVE  Cardinality(LinksTo(h, S, c)) \in Nat
BY LinksFinite, FS_CardinalityType

(* A link that holds c is counted; when none is, the count is zero.        *)
LEMMA CountPositive ==
    ASSUME NEW h, NEW S, NEW e \in Link, e[1] \in S, NEW c, h[e] = c
    PROVE  Cardinality(LinksTo(h, S, c)) # 0
<1>1. e \in LinksTo(h, S, c)
  BY DEF LinksTo
<1> QED
  BY <1>1, LinksFinite, FS_EmptySet

LEMMA CountZero ==
    ASSUME NEW h, NEW S, NEW c, \A e \in Link : e[1] \in S => h[e] # c
    PROVE  Cardinality(LinksTo(h, S, c)) = 0
<1>1. LinksTo(h, S, c) = {}
  BY DEF LinksTo
<1> QED
  BY <1>1, FS_EmptySet

(* Storing y over old in one slot of a counted cell: one link more to y,   *)
(* one less to old, and no other count changes.                            *)
LEMMA CountPatch ==
    ASSUME NEW h \in Heap, NEW S, NEW f \in Link, f[1] \in S,
           NEW y \in Cell \cup {NULL}, y # h[f], NEW c
    PROVE  Cardinality(LinksTo([h EXCEPT ![f] = y], S, c)) =
             IF c = y THEN Cardinality(LinksTo(h, S, c)) + 1
             ELSE IF c = h[f] THEN Cardinality(LinksTo(h, S, c)) - 1
             ELSE Cardinality(LinksTo(h, S, c))
<1> DEFINE g == [h EXCEPT ![f] = y]
<1>1. \A e \in Link : g[e] = IF e = f THEN y ELSE h[e]
  BY DEF Heap
<1> HIDE DEF g
<1>2. IsFiniteSet(LinksTo(h, S, c))
  BY LinksFinite
<1>3. Cardinality(LinksTo(g, S, c)) =
        IF c = y THEN Cardinality(LinksTo(h, S, c)) + 1
        ELSE IF c = h[f] THEN Cardinality(LinksTo(h, S, c)) - 1
        ELSE Cardinality(LinksTo(h, S, c))
  <2>1. CASE c = y
    <3>1. LinksTo(g, S, c) = LinksTo(h, S, c) \cup {f}
      BY <1>1, <2>1 DEF LinksTo
    <3>2. f \notin LinksTo(h, S, c)
      BY <2>1 DEF LinksTo
    <3> QED
      BY <2>1, <3>1, <3>2, <1>2, FS_AddElement
  <2>2. CASE c # y /\ c = h[f]
    <3>1. LinksTo(g, S, c) = LinksTo(h, S, c) \ {f}
      BY <1>1, <2>2 DEF LinksTo
    <3>2. f \in LinksTo(h, S, c)
      BY <2>2 DEF LinksTo
    <3> QED
      BY <2>2, <3>1, <3>2, <1>2, FS_RemoveElement
  <2>3. CASE c # y /\ c # h[f]
    <3>1. LinksTo(g, S, c) = LinksTo(h, S, c)
      BY <1>1, <2>3 DEF LinksTo
    <3> QED
      BY <2>3, <3>1
  <2> QED
    BY <2>1, <2>2, <2>3
<1> QED
  BY <1>3 DEF g

(* Counting without x takes away what x holds.                             *)
LEMMA CountWithout ==
    ASSUME NEW h, NEW S, NEW x \in S, NEW c
    PROVE  /\ Cardinality(LinksTo(h, S \ {x}, c)) =
                Cardinality(LinksTo(h, S, c)) - Cardinality(LinksBetween(h, x, c))
           /\ Cardinality(LinksBetween(h, x, c)) <= Cardinality(LinksTo(h, S, c))
<1>1. LinksTo(h, S \ {x}, c) = LinksTo(h, S, c) \ LinksBetween(h, x, c)
  BY DEF LinksTo, LinksBetween
<1>2. LinksBetween(h, x, c) \subseteq LinksTo(h, S, c)
  BY DEF LinksTo, LinksBetween
<1>3. LinksTo(h, S, c) \cap LinksBetween(h, x, c) = LinksBetween(h, x, c)
  BY <1>2
<1>4. IsFiniteSet(LinksTo(h, S, c)) /\ IsFiniteSet(LinksBetween(h, x, c))
  BY LinksFinite DEF LinksBetween
<1> QED
  BY <1>1, <1>2, <1>3, <1>4, FS_Difference, FS_Subset
=============================================================================
