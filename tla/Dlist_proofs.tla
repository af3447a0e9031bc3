---------------------------- MODULE Dlist_proofs ----------------------------
(***************************************************************************)
(* The operations of dlist.c keep every list whole, for any number of      *)
(* lists and nodes.                                                        *)
(***************************************************************************)
EXTENDS Dlist, FiniteSetTheorems, TLAPS

(* Empty lists are whole (dlist_init, dlnode_init).                        *)
THEOREM InitIsWhole ==
    ASSUME NodesAreDistinct
    PROVE  WellLinked(dlist_init)
<1> USE DEF NodesAreDistinct
<1>1. dlist_init \in Dlists
  BY DEF dlist_init, Dlists, DlNode, Header
<1>2. IsRing(dlist_init)
  BY DEF dlist_init, IsRing, Linked, DlNode, Header
<1>3. OnItsList(dlist_init)
  BY DEF dlist_init, OnItsList, Members, DlNode, Header
<1> QED
  BY <1>1, <1>2, <1>3 DEF WellLinked

(* An owner, set in the three functions that make a state.                 *)
LEMMA OwnerOfRecord ==
    ASSUME NEW P, NEW X, NEW O, NEW a, NEW l
    PROVE  [[prev |-> P, next |-> X, owner |-> O] EXCEPT !.owner[a] = l]
             = [prev |-> P, next |-> X, owner |-> [O EXCEPT ![a] = l]]
OBVIOUS

(* What insert, with its asserts, makes of the pointers.                   *)
LEMMA InsertPointers ==
    ASSUME NodesAreDistinct, NEW h, WellLinked(h), NEW p \in DlNode, NEW n \in Item, NEW q \in DlNode,
           AssertInsert(h, p, n, q)
    PROVE  /\ p \in Linked(h) /\ q \in Linked(h) /\ n \notin Linked(h) /\ p # n /\ q # n
           /\ dlnode_insert(h, p, n, q) \in Dlists
           /\ \A m \in DlNode :
                /\ dlnode_insert(h, p, n, q).next[m] = IF m = n THEN q ELSE IF m = p THEN n ELSE h.next[m]
                /\ dlnode_insert(h, p, n, q).prev[m] = IF m = q THEN n ELSE IF m = n THEN p ELSE h.prev[m]
                /\ dlnode_insert(h, p, n, q).owner[m] = IF m = n THEN h.owner[p] ELSE h.owner[m]
<1> USE DEF NodesAreDistinct
<1>1. h \in Dlists /\ n \in DlNode
  BY DEF WellLinked, DlNode
<1>2. p \in Linked(h) /\ q \in Linked(h) /\ n \notin Linked(h) /\ p # n /\ q # n
  BY DEF AssertInsert, Adjacent, Linked
<1>3. h.owner[p] \in List
  BY <1>1, <1>2 DEF Dlists, Linked
<1>4. dlnode_insert(h, p, n, q) =
        [prev  |-> [[h.prev EXCEPT ![n] = p] EXCEPT ![q] = n],
         next  |-> [[h.next EXCEPT ![p] = n] EXCEPT ![n] = q],
         owner |-> [h.owner EXCEPT ![n] = h.owner[p]]]
  <2>1. dlnode_join(h, p, n) = [prev |-> [h.prev EXCEPT ![n] = p],
                                next |-> [h.next EXCEPT ![p] = n], owner |-> h.owner]
    BY DEF dlnode_join
  <2>2. dlnode_join(dlnode_join(h, p, n), n, q) =
          [prev  |-> [[h.prev EXCEPT ![n] = p] EXCEPT ![q] = n],
           next  |-> [[h.next EXCEPT ![p] = n] EXCEPT ![n] = q], owner |-> h.owner]
    BY <2>1 DEF dlnode_join
  <2> QED
    BY <2>2, OwnerOfRecord DEF dlnode_insert
<1> QED
  BY <1>1, <1>2, <1>3, <1>4 DEF Dlists

(* Insertion between two neighbours keeps the lists whole.                 *)
THEOREM InsertKeepsWhole ==
    ASSUME NodesAreDistinct, NEW h, WellLinked(h), NEW p \in DlNode, NEW n \in Item, NEW q \in DlNode,
           AssertInsert(h, p, n, q)
    PROVE  WellLinked(dlnode_insert(h, p, n, q))
<1> DEFINE g == dlnode_insert(h, p, n, q)
<1>1. /\ p \in Linked(h) /\ q \in Linked(h) /\ n \notin Linked(h) /\ p # n /\ q # n
      /\ g \in Dlists
      /\ \A m \in DlNode :
            /\ g.next[m] = IF m = n THEN q ELSE IF m = p THEN n ELSE h.next[m]
            /\ g.prev[m] = IF m = q THEN n ELSE IF m = n THEN p ELSE h.prev[m]
            /\ g.owner[m] = IF m = n THEN h.owner[p] ELSE h.owner[m]
  BY InsertPointers
<1>2. /\ IsRing(h) /\ OnItsList(h) /\ h \in Dlists /\ n \in DlNode /\ n \notin List
      /\ h.next[p] = q /\ h.prev[q] = p /\ h.owner[p] = h.owner[q]
  BY DEF WellLinked, DlNode, AssertInsert, Adjacent, NodesAreDistinct
<1> HIDE DEF g
<1>3. Linked(g) = Linked(h) \cup {n}
  BY <1>1, <1>2 DEF Linked
<1>4. IsRing(g)
  <2>1. \A l \in List : g.owner[l] = l
    BY <1>1, <1>2 DEF IsRing, DlNode
  <2>2. ASSUME NEW m \in Linked(g)
        PROVE  /\ g.next[m] \in Linked(g) /\ g.prev[g.next[m]] = m
               /\ g.owner[g.next[m]] = g.owner[m]
    BY <1>1, <1>2, <1>3 DEF IsRing, Linked
  <2>3. ASSUME NEW m \in Linked(g)
        PROVE  g.prev[m] \in Linked(g) /\ g.next[g.prev[m]] = m
    BY <1>1, <1>2, <1>3 DEF IsRing, Linked
  <2> QED
    BY <2>1, <2>2, <2>3 DEF IsRing
<1>5. ASSUME NEW l \in List, NEW S \in SUBSET Members(g, l), ClosedUnderNext(g, l, S)
      PROVE  S = Members(g, l)
  <2>1. \A m \in Members(h, l) \cup {l} : m \in Linked(h) /\ m # n /\ h.next[m] # n /\ m \in DlNode
    BY <1>1, <1>2 DEF Members, Linked, IsRing, DlNode, NodesAreDistinct
  <2>2. CASE h.owner[p] # l
    <3>1. Members(g, l) = Members(h, l) /\ p \notin Members(h, l) \cup {l}
      BY <1>1, <1>2, <2>2 DEF Members, DlNode, IsRing, Linked, NodesAreDistinct
    <3>2. ClosedUnderNext(h, l, S)
      BY <1>1, <2>1, <3>1, <1>5 DEF ClosedUnderNext
    <3> QED
      BY <1>2, <3>1, <3>2 DEF OnItsList
  <2>3. CASE h.owner[p] = l
    <3>1. Members(g, l) = Members(h, l) \cup {n}
      BY <1>1, <1>2, <2>3 DEF Members, DlNode
    <3>2. p \in Members(h, l) \cup {l}
      BY <1>1, <1>2, <2>3 DEF Members, DlNode, IsRing
    <3> DEFINE T == S \ {n}
    <3>3. T \in SUBSET Members(h, l)
      BY <3>1
    <3>4. ASSUME NEW m \in T \cup {l} PROVE h.next[m] \in T \cup {l}
      <4>1. m \in S \cup {l} /\ g.next[m] \in S \cup {l} /\ m # n /\ m \in DlNode /\ h.next[m] # n
        BY <1>5, <2>1, <3>3 DEF ClosedUnderNext
      <4>2. CASE m = p
        <5>1. n \in S
          BY <1>1, <1>2, <4>1, <4>2
        <5>2. q \in S \cup {l}
          BY <1>1, <1>2, <1>5, <5>1 DEF ClosedUnderNext
        <5> QED
          BY <1>1, <1>2, <4>2, <5>2
      <4>3. CASE m # p
        BY <1>1, <4>1, <4>3
      <4> QED
        BY <4>2, <4>3
    <3>5. T = Members(h, l)
      BY <1>2, <3>3, <3>4 DEF OnItsList, ClosedUnderNext
    <3>6. n \in S
      BY <1>1, <1>2, <1>5, <3>2, <3>5 DEF ClosedUnderNext
    <3> QED
      BY <3>1, <3>5, <3>6
  <2> QED
    BY <2>2, <2>3
<1> QED
  BY <1>1, <1>4, <1>5 DEF WellLinked, OnItsList, g

(* What remove makes of the pointers.                                      *)
LEMMA RemovePointers ==
    ASSUME NodesAreDistinct, NEW h, WellLinked(h), NEW n \in Item, AssertRemove(h, n)
    PROVE  /\ n \in Linked(h) /\ h.prev[n] \in Linked(h) \ {n} /\ h.next[n] \in Linked(h) \ {n}
           /\ dlnode_remove(h, n) \in Dlists
           /\ \A m \in DlNode :
                /\ dlnode_remove(h, n).next[m] = IF m = h.prev[n] THEN h.next[n] ELSE h.next[m]
                /\ dlnode_remove(h, n).prev[m] = IF m = h.next[n] THEN h.prev[n] ELSE h.prev[m]
                /\ dlnode_remove(h, n).owner[m] = IF m = n THEN NULL ELSE h.owner[m]
<1> USE DEF NodesAreDistinct
<1>1. h \in Dlists /\ IsRing(h) /\ OnItsList(h) /\ n \in DlNode /\ n \notin List
  BY DEF WellLinked, DlNode
<1>2. n \in Linked(h) /\ h.prev[n] \in Linked(h) /\ h.next[n] \in Linked(h) /\ h.owner[n] \in List
  BY <1>1 DEF AssertRemove, Linked, IsRing, Dlists
<1>3. h.next[n] # n
  <2> SUFFICES ASSUME h.next[n] = n PROVE FALSE
    OBVIOUS
  <2> DEFINE l == h.owner[n]
  <2> DEFINE S == Members(h, l) \ {n}
  <2>1. \A m \in Members(h, l) \cup {l} : m \in Linked(h) /\ h.next[m] \in Members(h, l) \cup {l}
    BY <1>1, <1>2 DEF Members, Linked, IsRing, DlNode
  <2>2. \A m \in Members(h, l) \cup {l} : m # n => h.next[m] # n
    BY <1>1, <1>2, <2>1 DEF IsRing
  <2>3. ClosedUnderNext(h, l, S)
    BY <1>1, <1>2, <2>1, <2>2 DEF ClosedUnderNext
  <2>4. S = Members(h, l)
    BY <1>1, <1>2, <2>3 DEF OnItsList
  <2> QED
    BY <2>4 DEF Members
<1>4. h.prev[n] # n
  BY <1>1, <1>2, <1>3 DEF IsRing
<1>5. dlnode_remove(h, n) =
        [prev  |-> [h.prev EXCEPT ![h.next[n]] = h.prev[n]],
         next  |-> [h.next EXCEPT ![h.prev[n]] = h.next[n]],
         owner |-> [h.owner EXCEPT ![n] = NULL]]
  BY OwnerOfRecord DEF dlnode_remove, dlnode_join
<1> QED
  BY <1>1, <1>2, <1>3, <1>4, <1>5 DEF Dlists, Linked

(* Taking a node off its list keeps the lists whole: its neighbours find   *)
(* each other, and no other node is lost with it.                          *)
THEOREM RemoveKeepsWhole ==
    ASSUME NodesAreDistinct, NEW h, WellLinked(h), NEW n \in Item, AssertRemove(h, n)
    PROVE  WellLinked(dlnode_remove(h, n))
<1> DEFINE g == dlnode_remove(h, n)
<1> DEFINE a == h.prev[n]
<1> DEFINE b == h.next[n]
<1>1. /\ n \in Linked(h) /\ a \in Linked(h) \ {n} /\ b \in Linked(h) \ {n}
      /\ g \in Dlists
      /\ \A m \in DlNode :
            /\ g.next[m] = IF m = a THEN b ELSE h.next[m]
            /\ g.prev[m] = IF m = b THEN a ELSE h.prev[m]
            /\ g.owner[m] = IF m = n THEN NULL ELSE h.owner[m]
  BY RemovePointers
<1>2. /\ IsRing(h) /\ OnItsList(h) /\ h \in Dlists /\ n \in DlNode /\ n \notin List
      /\ h.next[a] = n /\ h.prev[b] = n /\ h.owner[a] = h.owner[n] /\ h.owner[b] = h.owner[n]
      /\ h.next[n] = b /\ h.prev[n] = a
  BY <1>1 DEF WellLinked, DlNode, NodesAreDistinct, IsRing
<1> HIDE DEF g, a, b
<1>3. Linked(g) = Linked(h) \ {n}
  BY <1>1 DEF Linked
<1>4. \A m \in Linked(h) : /\ (h.next[m] = n) <=> (m = a)
                           /\ (h.prev[m] = n) <=> (m = b)
  <2> SUFFICES ASSUME NEW m \in Linked(h)
               PROVE  ((h.next[m] = n) <=> (m = a)) /\ ((h.prev[m] = n) <=> (m = b))
    OBVIOUS
  <2>1. h.prev[h.next[m]] = m /\ h.next[h.prev[m]] = m
    BY <1>2 DEF IsRing
  <2> QED
    BY <1>2, <2>1
<1>5. IsRing(g)
  <2>1. \A l \in List : g.owner[l] = l
    BY <1>1, <1>2 DEF IsRing, DlNode
  <2>2. ASSUME NEW m \in Linked(g)
        PROVE  /\ g.next[m] \in Linked(g) /\ g.prev[g.next[m]] = m
               /\ g.owner[g.next[m]] = g.owner[m]
    <3>1. m \in Linked(h) /\ m # n /\ m \in DlNode
      BY <1>3 DEF Linked
    <3>2. CASE m = a
      BY <1>1, <1>2, <1>3, <3>1, <3>2 DEF Linked
    <3>3. CASE m # a
      <4>1. h.next[m] \in Linked(h) \ {n} /\ h.prev[h.next[m]] = m /\ h.owner[h.next[m]] = h.owner[m]
            /\ h.next[m] \in DlNode
        BY <1>2, <1>4, <3>1, <3>3 DEF IsRing, Linked
      <4>2. h.next[m] # b
        BY <1>2, <3>1, <4>1
      <4> QED
        BY <1>1, <1>3, <3>1, <3>3, <4>1, <4>2
    <3> QED
      BY <3>2, <3>3
  <2>3. ASSUME NEW m \in Linked(g)
        PROVE  g.prev[m] \in Linked(g) /\ g.next[g.prev[m]] = m
    <3>1. m \in Linked(h) /\ m # n /\ m \in DlNode
      BY <1>3 DEF Linked
    <3>2. CASE m = b
      BY <1>1, <1>2, <1>3, <3>1, <3>2 DEF Linked
    <3>3. CASE m # b
      <4>1. h.prev[m] \in Linked(h) \ {n} /\ h.next[h.prev[m]] = m /\ h.prev[m] \in DlNode
        BY <1>2, <1>4, <3>1, <3>3 DEF IsRing, Linked
      <4>2. h.prev[m] # a
        BY <1>2, <3>1, <4>1
      <4> QED
        BY <1>1, <1>3, <3>1, <3>3, <4>1, <4>2
    <3> QED
      BY <3>2, <3>3
  <2> QED
    BY <2>1, <2>2, <2>3 DEF IsRing
<1>6. ASSUME NEW l \in List, NEW S \in SUBSET Members(g, l), ClosedUnderNext(g, l, S)
      PROVE  S = Members(g, l)
  <2>1. \A m \in Members(h, l) \cup {l} : m \in Linked(h) /\ m \in DlNode /\ h.owner[m] = l
    BY <1>2 DEF Members, Linked, IsRing, DlNode, NodesAreDistinct
  <2>2. Members(g, l) = Members(h, l) \ {n}
    BY <1>1, <1>2 DEF Members, DlNode, NodesAreDistinct
  <2>3. CASE a \notin S \cup {l}
    <3>1. ClosedUnderNext(h, l, S)
      BY <1>1, <1>6, <2>1, <2>2, <2>3 DEF ClosedUnderNext
    <3>2. S = Members(h, l)
      BY <1>2, <2>2, <3>1 DEF OnItsList
    <3> QED
      BY <2>2, <3>2
  <2>4. CASE a \in S \cup {l}
    <3> DEFINE T == S \cup {n}
    <3>1. h.owner[n] = l /\ T \in SUBSET Members(h, l)
      BY <1>2, <2>1, <2>2, <2>4 DEF Members
    <3>2. b \in S \cup {l}
      BY <1>1, <1>6, <2>1, <2>2, <2>4 DEF ClosedUnderNext
    <3>3. ASSUME NEW m \in T \cup {l} PROVE h.next[m] \in T \cup {l}
      <4>1. CASE m = n
        BY <1>2, <3>2, <4>1
      <4>2. CASE m = a
        BY <1>2, <4>2
      <4>3. CASE m # n /\ m # a
        <5>1. m \in DlNode /\ m \in S \cup {l}
          BY <2>1, <3>1, <4>3
        <5> QED
          BY <1>1, <1>6, <4>3, <5>1 DEF ClosedUnderNext
      <4> QED
        BY <4>1, <4>2, <4>3
    <3>4. T = Members(h, l)
      BY <1>2, <3>1, <3>3 DEF OnItsList, ClosedUnderNext
    <3> QED
      BY <2>2, <3>4
  <2> QED
    BY <2>3, <2>4
<1> QED
  BY <1>1, <1>5, <1>6 DEF WellLinked, OnItsList, g

(* dlnode_move does what remove and insert do, if the node is neither of   *)
(* its new neighbours (dlist.c does not assert that), and so keeps the     *)
(* lists whole.                                                            *)
THEOREM MoveIsRemoveAndInsert ==
    ASSUME NodesAreDistinct, NEW h, WellLinked(h), NEW p \in DlNode, NEW n \in Item, NEW q \in DlNode,
           AssertMove(h, p, n, q), n # p, n # q
    PROVE  /\ dlnode_move(h, p, n, q) = dlnode_insert(dlnode_remove(h, n), p, n, q)
           /\ WellLinked(dlnode_move(h, p, n, q))
<1> DEFINE g == dlnode_remove(h, n)
<1>1. h \in Dlists /\ n \in DlNode /\ n \in Item /\ AssertRemove(h, n) /\ IsRing(h)
  BY DEF WellLinked, DlNode, AssertMove, AssertRemove
<1>2. /\ h.prev[n] \in Linked(h) \ {n} /\ h.next[n] \in Linked(h) \ {n}
      /\ \A m \in DlNode :
            /\ g.next[m] = IF m = h.prev[n] THEN h.next[n] ELSE h.next[m]
            /\ g.prev[m] = IF m = h.next[n] THEN h.prev[n] ELSE h.prev[m]
            /\ g.owner[m] = IF m = n THEN NULL ELSE h.owner[m]
  BY <1>1, RemovePointers
<1>3. AssertInsert(g, p, n, q)
  <2>1. h.next[p] = q /\ h.prev[q] = p /\ h.owner[p] # NULL /\ h.owner[p] = h.owner[q]
    BY DEF AssertMove, Adjacent
  <2>2. p # h.prev[n] /\ q # h.next[n]
    BY <1>1, <2>1 DEF IsRing, Linked, AssertRemove
  <2> QED
    BY <1>1, <1>2, <2>1, <2>2 DEF AssertInsert, Adjacent
<1>4. g = [prev  |-> [h.prev EXCEPT ![h.next[n]] = h.prev[n]],
           next  |-> [h.next EXCEPT ![h.prev[n]] = h.next[n]],
           owner |-> [h.owner EXCEPT ![n] = NULL]]
  BY OwnerOfRecord DEF dlnode_remove, dlnode_join
<1> DEFINE P == [[[h.prev EXCEPT ![h.next[n]] = h.prev[n]] EXCEPT ![n] = p] EXCEPT ![q] = n]
<1> DEFINE X == [[[h.next EXCEPT ![h.prev[n]] = h.next[n]] EXCEPT ![p] = n] EXCEPT ![n] = q]
<1>5. dlnode_insert(g, p, n, q) = [prev |-> P, next |-> X, owner |-> [g.owner EXCEPT ![n] = g.owner[p]]]
  <2>1. dlnode_join(dlnode_join(g, p, n), n, q) = [prev |-> P, next |-> X, owner |-> g.owner]
    BY <1>4 DEF dlnode_join
  <2> QED
    BY <2>1, OwnerOfRecord DEF dlnode_insert
<1>6. dlnode_move(h, p, n, q) = [prev |-> P, next |-> X, owner |-> [h.owner EXCEPT ![n] = h.owner[p]]]
  <2>1. dlnode_join(dlnode_join(dlnode_join(h, h.prev[n], h.next[n]), p, n), n, q)
          = [prev |-> P, next |-> X, owner |-> h.owner]
    BY DEF dlnode_join
  <2> QED
    BY <2>1, OwnerOfRecord DEF dlnode_move
<1>7. [g.owner EXCEPT ![n] = g.owner[p]] = [h.owner EXCEPT ![n] = h.owner[p]]
  BY <1>1, <1>2, <1>4 DEF Dlists
<1>8. dlnode_move(h, p, n, q) = dlnode_insert(g, p, n, q)
  BY <1>5, <1>6, <1>7
<1>9. WellLinked(g)
  BY <1>1, RemoveKeepsWhole
<1>10. WellLinked(dlnode_insert(g, p, n, q))
  BY <1>3, <1>9, InsertKeepsWhole
<1> QED
  BY <1>8, <1>10

(* Every set of naturals that is not empty has a least one: induction      *)
(* without a predicate, for the walks below.                               *)
LEMMA LeastNat ==
    ASSUME NEW T, T \subseteq Nat, T # {}
    PROVE  \E x \in T : \A y \in T : x <= y
<1>1. PICK R : /\ IsWellFoundedOn(R, Nat)
               /\ \A x, y \in Nat : (<<x, y>> \in R) <=> (x < y)
  <2>1. \A x, y \in Nat : (<<x, y>> \in OpToRel(<, Nat)) <=> (x < y)
    BY DEF OpToRel
  <2> QED
    BY <2>1, NatLessThanWellFounded
<1>2. IsWellFoundedOn(R, Nat)
  BY <1>1
<1>3. PICK x \in T : \A y \in T : ~(<<y, x>> \in R)
  BY <1>2, WFMin, Zenon
<1>4. \A y \in T : ~(y < x)
  BY <1>1, <1>3
<1> QED
  BY <1>4

(* What one turn of the loop makes of the node that it is at.              *)
After(h, n) == IF dlnode_is_terminal(h, n) THEN n ELSE h.next[n]

(* The recursive function of Walk is there, and does as it says.           *)
LEMMA WalkSteps ==
    ASSUME NEW h, NEW l, IsFiniteSet(Item)
    PROVE  \E at :
             /\ at[0] = h.next[l]
             /\ \A k \in 1..Cardinality(Item) + 1 : at[k] = After(h, at[k - 1])
             /\ Walk(h, l) = [k \in 1..(CHOOSE c \in 0..Cardinality(Item) + 1 :
                                           at[c] = l /\ \A j \in 0..c - 1 : at[j] # l) |-> at[k - 1]]
<1> DEFINE N == Cardinality(Item) + 1
<1> DEFINE Path(n, g) == g = [k \in 0..n |-> IF k = 0 THEN dlist_first(h, l)
                              ELSE IF dlnode_is_terminal(h, g[k - 1]) THEN g[k - 1] ELSE h.next[g[k - 1]]]
<1> DEFINE at == CHOOSE g : Path(N, g)
<1>1. N \in Nat
  BY FS_CardinalityType
<1>2. \A n \in Nat : \E g : Path(n, g)
  <2> DEFINE T == {n \in Nat : ~ \E g : Path(n, g)}
  <2> SUFFICES ASSUME T # {} PROVE FALSE
    OBVIOUS
  <2> HIDE DEF Path
  <2>1. PICK m \in T : \A y \in T : m <= y
    BY LeastNat
  <2>2. m # 0
    <3>1. Path(0, [k \in 0..0 |-> dlist_first(h, l)])
      BY DEF Path
    <3> QED
      BY <2>1, <3>1
  <2>3. PICK g : Path(m - 1, g)
    <3>1. m - 1 \in Nat /\ ~(m <= m - 1)
      BY <2>1, <2>2
    <3> QED
      BY <2>1, <3>1
  <2> DEFINE f == [k \in 0..m |-> IF k = 0 THEN dlist_first(h, l)
                      ELSE IF dlnode_is_terminal(h, g[k - 1]) THEN g[k - 1] ELSE h.next[g[k - 1]]]
  <2>4. \A k \in 0..m : k # 0 => f[k - 1] = g[k - 1]
    <3> SUFFICES ASSUME NEW k \in 0..m, k # 0 PROVE f[k - 1] = g[k - 1]
      OBVIOUS
    <3>1. k - 1 \in 0..m /\ k - 1 \in 0..(m - 1)
      BY <2>1
    <3> QED
      BY <2>3, <3>1 DEF Path
  <2>5. Path(m, f)
    BY <2>1, <2>4 DEF Path
  <2> QED
    BY <2>1, <2>5
<1>3. Path(N, at)
  BY <1>1, <1>2
<1>4. /\ at[0] = h.next[l] /\ DOMAIN at = 0..N
      /\ \A k \in 1..N : at[k] = After(h, at[k - 1])
  <2>1. 0 \in 0..N /\ \A k \in 1..N : k \in 0..N /\ k # 0
    BY <1>1
  <2> HIDE DEF at
  <2> QED
    BY <1>3, <2>1 DEF After, dlist_first
<1>5. Walk(h, l) = [k \in 1..(CHOOSE c \in DOMAIN at :
                                 at[c] = l /\ \A j \in 0..c - 1 : at[j] # l) |-> at[k - 1]]
  BY DEF Walk
<1> HIDE DEF at
<1> QED
  BY <1>4, <1>5

(* A loop over a whole list meets every node of it, each once, and nothing *)
(* else: it comes back to the header, and not before.                      *)
THEOREM WalkMeetsEachOnce ==
    ASSUME NodesAreDistinct, IsFiniteSet(Item), NEW h, WellLinked(h), NEW l \in List
    PROVE  /\ Walk(h, l) \in Seq(Item)
           /\ {Walk(h, l)[i] : i \in DOMAIN Walk(h, l)} = Members(h, l)
           /\ \A i, j \in DOMAIN Walk(h, l) : Walk(h, l)[i] = Walk(h, l)[j] => i = j
           /\ \A i \in DOMAIN Walk(h, l) :
                 Walk(h, l)[i] = IF i = 1 THEN h.next[l] ELSE h.next[Walk(h, l)[i - 1]]
<1> DEFINE N == Cardinality(Item) + 1
<1> DEFINE M == Members(h, l)
<1>1. N \in Nat
  BY FS_CardinalityType
<1>2. PICK at : /\ at[0] = h.next[l]
                /\ \A k \in 1..N : at[k] = After(h, at[k - 1])
                /\ Walk(h, l) = [k \in 1..(CHOOSE c \in 0..N :
                                    at[c] = l /\ \A j \in 0..c - 1 : at[j] # l) |-> at[k - 1]]
  BY WalkSteps
<1>3. /\ IsRing(h) /\ OnItsList(h) /\ h \in Dlists
      /\ M \subseteq Item /\ l \notin M /\ l \in DlNode /\ M \subseteq DlNode
  BY DEF WellLinked, Members, DlNode, NodesAreDistinct
<1>4. \A n \in M \cup {l} : /\ n \in Linked(h) /\ h.next[n] \in M \cup {l} /\ h.prev[h.next[n]] = n
                            /\ (dlnode_is_terminal(h, n) <=> n = l)
  BY <1>3 DEF Members, Linked, IsRing, DlNode, NodesAreDistinct, dlnode_is_terminal
<1>5. \A k \in 0..N : at[k] \in M \cup {l}
  <2> DEFINE T == {k \in 0..N : at[k] \notin M \cup {l}}
  <2> SUFFICES ASSUME T # {} PROVE FALSE
    OBVIOUS
  <2> HIDE DEF M
  <2>1. PICK m \in T : \A y \in T : m <= y
    <3>1. T \subseteq Nat
      BY <1>1
    <3> HIDE DEF T
    <3> QED
      BY <3>1, LeastNat
  <2>2. m \in 1..N
    BY <1>1, <1>2, <1>4, <2>1
  <2>3. at[m - 1] \in M \cup {l}
    <3>1. m - 1 \in 0..N /\ ~(m <= m - 1)
      BY <1>1, <2>2
    <3> QED
      BY <2>1, <3>1
  <2>4. at[m] \in M \cup {l}
    BY <1>2, <1>4, <2>2, <2>3 DEF After
  <2> QED
    BY <2>1, <2>4
<1> HIDE DEF M, N
<1>6. ASSUME NEW n \in 0..N, \A j \in 0..n : at[j] # l
      PROVE  \A i, k \in 0..n : at[i] = at[k] => i = k
  <2>1. \A k \in 1..n : at[k - 1] \in M /\ at[k] = h.next[at[k - 1]] /\ h.prev[at[k]] = at[k - 1]
    <3> SUFFICES ASSUME NEW k \in 1..n
                 PROVE  at[k - 1] \in M /\ at[k] = h.next[at[k - 1]] /\ h.prev[at[k]] = at[k - 1]
      OBVIOUS
    <3>1. k \in 1..N /\ k - 1 \in 0..N /\ k - 1 \in 0..n
      BY <1>1
    <3>2. at[k - 1] \in M /\ at[k - 1] # l
      BY <1>5, <1>6, <3>1
    <3> QED
      BY <1>2, <1>4, <3>1, <3>2 DEF After
  <2>2. h.prev[at[0]] = l
    BY <1>2, <1>4
  <2> DEFINE T == {i \in 0..n : \E k \in 0..n : i < k /\ at[i] = at[k]}
  <2>3. T = {}
    <3> SUFFICES ASSUME T # {} PROVE FALSE
      OBVIOUS
    <3>1. PICK i \in T : \A y \in T : i <= y
      <4>1. T \subseteq Nat
        BY <1>1
      <4> HIDE DEF T
      <4> QED
        BY <4>1, LeastNat
    <3>2. PICK k \in 0..n : i < k /\ at[i] = at[k]
      BY <3>1
    <3>3. k \in 1..n /\ k - 1 \in 0..n
      BY <1>1, <3>1, <3>2
    <3>4. CASE i = 0
      BY <1>6, <2>1, <2>2, <3>2, <3>3, <3>4
    <3>5. CASE i # 0
      <4>1. i \in 1..n /\ i - 1 \in 0..n /\ i - 1 < k - 1 /\ ~(i <= i - 1)
        BY <1>1, <3>1, <3>2, <3>3, <3>5
      <4>2. at[i - 1] = at[k - 1]
        BY <2>1, <3>2, <3>3, <4>1
      <4>3. i - 1 \in T
        BY <3>3, <4>1, <4>2
      <4> QED
        BY <3>1, <4>1, <4>3
    <3> QED
      BY <3>4, <3>5
  <2> QED
    <3>1. \A i, k \in 0..n : i < k => at[i] # at[k]
      BY <2>3
    <3>2. \A i, k \in 0..n : i = k \/ i < k \/ k < i
      BY <1>1
    <3> QED
      BY <3>1, <3>2
<1>7. \E c \in 0..N : at[c] = l /\ \A j \in 0..c - 1 : at[j] # l
  <2>1. \E c \in 0..N : at[c] = l
    <3> SUFFICES ASSUME \A c \in 0..N : at[c] # l PROVE FALSE
      OBVIOUS
    <3> DEFINE f == [c \in 0..N |-> at[c]]
    <3>1. f \in [0..N -> Item]
      BY <1>3, <1>5
    <3>2. IsFiniteSet(0..N) /\ Cardinality(0..N) = N + 1
      BY <1>1, FS_Interval
    <3>3. Cardinality(Item) < Cardinality(0..N)
      BY <1>1, <3>2, FS_CardinalityType DEF N
    <3>4. \E i, k \in 0..N : i # k /\ f[i] = f[k]
      <4> HIDE DEF f
      <4> QED
        BY <3>1, <3>2, <3>3, FS_PigeonHole
    <3>5. \A i, k \in 0..N : at[i] = at[k] => i = k
      <4>1. N \in 0..N
        BY <1>1
      <4> QED
        BY <1>6, <4>1
    <3> QED
      BY <3>4, <3>5
  <2> DEFINE T == {c \in 0..N : at[c] = l}
  <2>2. PICK c \in T : \A y \in T : c <= y
    <3>1. T \subseteq Nat /\ T # {}
      BY <1>1, <2>1
    <3> HIDE DEF T
    <3> QED
      BY <3>1, LeastNat
  <2>3. ASSUME NEW j \in 0..c - 1 PROVE at[j] # l
    <3>1. j \in 0..N /\ ~(c <= j)
      BY <1>1, <2>2
    <3> QED
      BY <2>2, <3>1
  <2> QED
    BY <2>2, <2>3
<1>8. PICK c \in 0..N : /\ at[c] = l /\ \A j \in 0..c - 1 : at[j] # l
                        /\ Walk(h, l) = [k \in 1..c |-> at[k - 1]]
  BY <1>2, <1>7
<1>9. \A k \in 1..c : at[k - 1] \in M
  <2> SUFFICES ASSUME NEW k \in 1..c PROVE at[k - 1] \in M
    OBVIOUS
  <2>1. k - 1 \in 0..N /\ k - 1 \in 0..c - 1
    BY <1>1
  <2> QED
    BY <1>5, <1>8, <2>1
<1>10. Walk(h, l) \in Seq(Item)
  BY <1>1, <1>3, <1>8, <1>9
<1>11. DOMAIN Walk(h, l) = 1..c /\ \A k \in 1..c : Walk(h, l)[k] = at[k - 1]
  BY <1>8
<1>12. \A i, j \in DOMAIN Walk(h, l) : Walk(h, l)[i] = Walk(h, l)[j] => i = j
  <2> SUFFICES ASSUME NEW i \in 1..c, NEW j \in 1..c, at[i - 1] = at[j - 1] PROVE i = j
    BY <1>11
  <2>1. c - 1 \in 0..N /\ i - 1 \in 0..c - 1 /\ j - 1 \in 0..c - 1
    BY <1>1
  <2>2. i - 1 = j - 1
    BY <1>6, <1>8, <2>1
  <2> QED
    BY <2>2
<1>13. {Walk(h, l)[i] : i \in DOMAIN Walk(h, l)} = M
  <2> DEFINE S == {at[k - 1] : k \in 1..c}
  <2>1. {Walk(h, l)[i] : i \in DOMAIN Walk(h, l)} = S
    BY <1>11
  <2>2. S \subseteq M
    BY <1>9
  <2>3. \A j \in 0..c : at[j] \in S \cup {l}
    <3> SUFFICES ASSUME NEW j \in 0..c, j # c PROVE at[j] \in S
      BY <1>8
    <3>1. j + 1 \in 1..c /\ (j + 1) - 1 = j
      BY <1>1
    <3> QED
      BY <3>1
  <2>4. h.next[l] \in S \cup {l}
    <3>1. 0 \in 0..c
      BY <1>1
    <3> QED
      BY <1>2, <2>3, <3>1
  <2>5. ASSUME NEW n \in S PROVE h.next[n] \in S \cup {l}
    <3>1. PICK k \in 1..c : n = at[k - 1]
      OBVIOUS
    <3>2. k \in 1..N /\ k \in 0..c
      BY <1>1
    <3>3. n \in M /\ n # l
      BY <1>3, <1>9, <3>1
    <3>4. at[k] = h.next[n]
      BY <1>2, <1>4, <3>1, <3>2, <3>3 DEF After
    <3> QED
      BY <2>3, <3>2, <3>4
  <2>6. S = Members(h, l)
    <3> HIDE DEF S
    <3> QED
      BY <1>3, <2>2, <2>4, <2>5 DEF OnItsList, ClosedUnderNext, M
  <2> QED
    BY <2>1, <2>6 DEF M
<1>14. \A i \in DOMAIN Walk(h, l) :
          Walk(h, l)[i] = IF i = 1 THEN h.next[l] ELSE h.next[Walk(h, l)[i - 1]]
  <2> SUFFICES ASSUME NEW i \in 1..c
               PROVE  at[i - 1] = IF i = 1 THEN h.next[l] ELSE h.next[Walk(h, l)[i - 1]]
    BY <1>11
  <2>1. CASE i = 1
    BY <1>2, <2>1
  <2>2. CASE i # 1
    <3>1. i - 1 \in 1..c /\ i - 1 \in 1..N
      BY <1>1, <2>2
    <3>2. at[i - 1] = After(h, at[i - 1 - 1]) /\ at[i - 1 - 1] \in M
      BY <1>2, <1>9, <3>1
    <3>3. at[i - 1 - 1] # l
      BY <1>3, <3>2 DEF M
    <3> QED
      BY <1>4, <1>11, <2>2, <3>1, <3>2, <3>3 DEF After
  <2> QED
    BY <2>1, <2>2
<1> QED
  BY <1>10, <1>12, <1>13, <1>14 DEF M

(* A node that is on no list may be given fresh pointers.                  *)
LEMMA FreshPointersKeepWhole ==
    ASSUME NodesAreDistinct, NEW h, WellLinked(h), NEW n \in Item, h.owner[n] = NULL
    PROVE  /\ WellLinked(dlnode_init(h, n)) /\ dlnode_init(h, n).owner = h.owner
           /\ \A m \in DlNode : m # n => dlnode_init(h, n).next[m] = h.next[m]
<1> DEFINE g == dlnode_init(h, n)
<1>1. /\ h \in Dlists /\ IsRing(h) /\ OnItsList(h) /\ n \in DlNode /\ n \notin Linked(h) /\ n \notin List
  BY DEF WellLinked, DlNode, Linked, NodesAreDistinct
<1>2. g = [prev |-> [h.prev EXCEPT ![n] = NULL], next |-> [h.next EXCEPT ![n] = NULL],
           owner |-> [h.owner EXCEPT ![n] = NULL]]
  BY DEF dlnode_init
<1>3. /\ g.owner = h.owner /\ g \in Dlists
      /\ \A m \in DlNode : m # n => g.next[m] = h.next[m] /\ g.prev[m] = h.prev[m]
  BY <1>1, <1>2 DEF Dlists
<1> HIDE DEF g
<1>4. Linked(g) = Linked(h) /\ \A l : Members(g, l) = Members(h, l)
  BY <1>3 DEF Linked, Members
<1>5. IsRing(g)
  BY <1>1, <1>3, <1>4 DEF IsRing, Linked
<1>6. ASSUME NEW l \in List, NEW S \in SUBSET Members(g, l), ClosedUnderNext(g, l, S)
      PROVE  S = Members(g, l)
  <2>1. \A m \in Members(g, l) \cup {l} : m \in DlNode /\ m # n
    BY <1>1, <1>3, <1>4 DEF Members, DlNode, NodesAreDistinct
  <2>2. ClosedUnderNext(h, l, S)
    BY <1>3, <1>6, <2>1 DEF ClosedUnderNext
  <2> QED
    BY <1>1, <1>4, <2>2 DEF OnItsList
<1> QED
  BY <1>1, <1>3, <1>5, <1>6 DEF WellLinked, OnItsList, g

(* A removed node leaves its list and no other node does.                  *)
LEMMA RemoveMembers ==
    ASSUME NodesAreDistinct, NEW h, WellLinked(h), NEW n \in Item, AssertRemove(h, n)
    PROVE  \A l \in List : Members(dlnode_remove(h, n), l) = Members(h, l) \ {n}
<1> DEFINE g == dlnode_remove(h, n)
<1>1. \A m \in DlNode : g.owner[m] = IF m = n THEN NULL ELSE h.owner[m]
  BY RemovePointers
<1> HIDE DEF g
<1>2. \A l \in List : Members(g, l) = Members(h, l) \ {n}
  BY <1>1 DEF Members, DlNode, NodesAreDistinct
<1> QED
  BY <1>2 DEF g

(* A node put at the front of a list joins it, and is met first.           *)
THEOREM InsertFirstKeepsWhole ==
    ASSUME NodesAreDistinct, NEW h, WellLinked(h), NEW n \in Item, h.owner[n] = NULL, NEW l \in List
    PROVE  /\ WellLinked(dlist_insertfirst(h, l, n))
           /\ dlist_first(dlist_insertfirst(h, l, n), l) = n
           /\ \A k \in List : Members(dlist_insertfirst(h, l, n), k)
                                = Members(h, k) \cup (IF k = l THEN {n} ELSE {})
<1> DEFINE g == dlist_insertfirst(h, l, n)
<1>1. l \in DlNode /\ l \in Linked(h) /\ IsRing(h) /\ h.owner[l] = l /\ n \in DlNode
  BY DEF WellLinked, IsRing, Linked, DlNode, NodesAreDistinct
<1>2. h.next[l] \in DlNode /\ AssertInsert(h, l, n, h.next[l])
  BY <1>1 DEF AssertInsert, Adjacent, IsRing, Linked
<1>3. g = dlnode_insert(h, l, n, h.next[l])
  BY DEF dlist_insertfirst, dlnode_insertnext
<1>4. /\ l # n
      /\ \A m \in DlNode : /\ g.next[m] = IF m = n THEN h.next[l] ELSE IF m = l THEN n ELSE h.next[m]
                           /\ g.owner[m] = IF m = n THEN h.owner[l] ELSE h.owner[m]
  BY <1>1, <1>2, <1>3, InsertPointers
<1>5. WellLinked(g)
  BY <1>1, <1>2, <1>3, InsertKeepsWhole
<1> HIDE DEF g
<1>6. dlist_first(g, l) = n
  BY <1>1, <1>4 DEF dlist_first
<1>7. ASSUME NEW k \in List
      PROVE  Members(g, k) = Members(h, k) \cup (IF k = l THEN {n} ELSE {})
  <2>1. \A m \in Item : g.owner[m] = IF m = n THEN l ELSE h.owner[m]
    BY <1>1, <1>4 DEF DlNode
  <2>2. \A m : m \in Members(g, k) <=> (m \in Item /\ (IF m = n THEN l = k ELSE h.owner[m] = k))
    BY <2>1 DEF Members
  <2>3. \A m : m \in Members(h, k) <=> (m \in Item /\ h.owner[m] = k)
    BY DEF Members
  <2>4. h.owner[n] # k
    BY DEF NodesAreDistinct
  <2> QED
    BY <2>2, <2>3, <2>4
<1> QED
  BY <1>5, <1>6, <1>7 DEF g
=============================================================================
