---------------------------- MODULE MemoryLists_proofs ----------------------------
(***************************************************************************)
(* The memory manager on its lists, for any finite number of cells and     *)
(* slots: through every sequence of calls the lists stay whole, counters   *)
(* and finalizers are right, the reset gives everything back, and no step  *)
(* does what Memory does not.                                              *)
(***************************************************************************)
EXTENDS MemoryLists, Integers, FiniteSetTheorems, SequenceTheorems, TLAPS

-----------------------------------------------------------------------------
(* The theorems about dlist.c, for the lists of the memory manager.  That  *)
(* they are about the same operators is said first.                        *)
Node == Cell \cup {Sentinel}
LOCAL DP == INSTANCE Dlist_proofs WITH List <- AllLists, Item <- Cell \cup {Sentinel}

LEMMA SameLists ==
    /\ DP!NodesAreDistinct /\ DP!IsFiniteSet(Cell \cup {Sentinel})
    /\ \A h : DP!WellLinked(h) <=> WellLinked(h)
    /\ \A h, l : DP!Members(h, l) = Members(h, l)
    /\ \A h, l : DP!Walk(h, l) = Walk(h, l)
    /\ \A h : DP!Linked(h) = Linked(h)
    /\ DP!DlNode = DlNode /\ DP!Dlists = Dlists
<1>1. \A h : DP!WellLinked(h) <=> WellLinked(h)
  BY DEF DP!WellLinked, WellLinked, DP!IsRing, IsRing, DP!OnItsList, OnItsList, DP!ClosedUnderNext,
         ClosedUnderNext, DP!Members, Members, DP!Linked, Linked, DP!Dlists, Dlists, DP!DlNode, DlNode
<1>2. IsFiniteSet(Cell \cup {Sentinel})
  BY CellAssumption, FS_AddElement
<1>3. DP!IsFiniteSet(Cell \cup {Sentinel})
  BY <1>2 DEF DP!IsFiniteSet, IsFiniteSet
<1>4. DP!NodesAreDistinct
  BY NodesAssumption DEF DP!NodesAreDistinct, NodesAreDistinct
<1>5. \A h, l : DP!Members(h, l) = Members(h, l)
  BY DEF DP!Members, Members
<1>6. \A h, l : DP!Walk(h, l) = Walk(h, l)
  BY DEF DP!Walk, Walk, DP!dlist_first, dlist_first, DP!dlnode_is_terminal, dlnode_is_terminal,
         DP!Cardinality, Cardinality
<1>7. \A h : DP!Linked(h) = Linked(h)
  BY DEF DP!Linked, Linked, DP!DlNode, DlNode
<1>8. DP!DlNode = DlNode /\ DP!Dlists = Dlists
  BY DEF DP!DlNode, DlNode, DP!Dlists, Dlists
<1> QED
  BY <1>1, <1>3, <1>4, <1>5, <1>6, <1>7, <1>8

(* Names of lists, cells and the sentinel are different things.            *)
LEMMA Names ==
    /\ Sentinel \notin AllLists /\ Sentinel # NULL
    /\ NULL \notin AllLists /\ NULL \notin Cell
    /\ \A c \in Cell : c \notin AllLists
    /\ DlNode = AllLists \cup Node
BY NodesAssumption DEF NodesAreDistinct, Node, DlNode

(* Taking a node out.                                                      *)
LEMMA Removal ==
    ASSUME NEW h, WellLinked(h), NEW n \in Node, h.owner[n] # NULL
    PROVE  /\ WellLinked(dlnode_remove(h, n))
           /\ dlnode_remove(h, n).owner = [h.owner EXCEPT ![n] = NULL]
           /\ h.prev[n] # n /\ h.next[n] # n
           /\ \A m \in DlNode :
                /\ dlnode_remove(h, n).next[m] = IF m = h.prev[n] THEN h.next[n] ELSE h.next[m]
                /\ dlnode_remove(h, n).prev[m] = IF m = h.next[n] THEN h.prev[n] ELSE h.prev[m]
<1>1. DP!dlnode_remove(h, n) = dlnode_remove(h, n)
  BY DEF DP!dlnode_remove, dlnode_remove, DP!dlnode_join, dlnode_join
<1>2. n \in Cell \cup {Sentinel} /\ DP!AssertRemove(h, n) /\ DP!WellLinked(h)
  BY SameLists DEF Node, DP!AssertRemove
<1>3. DP!WellLinked(DP!dlnode_remove(h, n))
  BY <1>2, SameLists, DP!RemoveKeepsWhole
<1>4. /\ DP!dlnode_remove(h, n) \in DP!Dlists
      /\ h.prev[n] \in DP!Linked(h) \ {n} /\ h.next[n] \in DP!Linked(h) \ {n}
      /\ \A m \in DP!DlNode :
           /\ DP!dlnode_remove(h, n).next[m] = IF m = h.prev[n] THEN h.next[n] ELSE h.next[m]
           /\ DP!dlnode_remove(h, n).prev[m] = IF m = h.next[n] THEN h.prev[n] ELSE h.prev[m]
           /\ DP!dlnode_remove(h, n).owner[m] = IF m = n THEN NULL ELSE h.owner[m]
  BY <1>2, SameLists, DP!RemovePointers
<1>5. dlnode_remove(h, n).owner = [h.owner EXCEPT ![n] = NULL]
  <2>1. dlnode_remove(h, n).owner \in [DlNode -> AllLists \cup {NULL}]
    BY <1>1, <1>4, SameLists DEF Dlists
  <2>2. h.owner \in [DlNode -> AllLists \cup {NULL}] /\ n \in DlNode
    BY Names DEF WellLinked, Dlists
  <2> QED
    BY <1>1, <1>4, <2>1, <2>2, SameLists
<1> QED
  BY <1>1, <1>3, <1>4, <1>5, SameLists

(* Putting one in between two neighbours.                                  *)
LEMMA Insertion ==
    ASSUME NEW h, WellLinked(h), NEW p \in DlNode, NEW n \in Node, NEW q \in DlNode, AssertInsert(h, p, n, q)
    PROVE  /\ WellLinked(dlnode_insert(h, p, n, q))
           /\ dlnode_insert(h, p, n, q).owner = [h.owner EXCEPT ![n] = h.owner[p]]
           /\ p # n /\ q # n
           /\ \A m \in DlNode :
                /\ dlnode_insert(h, p, n, q).next[m] = IF m = n THEN q ELSE IF m = p THEN n ELSE h.next[m]
                /\ dlnode_insert(h, p, n, q).prev[m] = IF m = q THEN n ELSE IF m = n THEN p ELSE h.prev[m]
<1>1. DP!dlnode_insert(h, p, n, q) = dlnode_insert(h, p, n, q)
  BY DEF DP!dlnode_insert, dlnode_insert, DP!dlnode_join, dlnode_join
<1>2. n \in Cell \cup {Sentinel} /\ DP!AssertInsert(h, p, n, q) /\ DP!WellLinked(h)
  BY SameLists DEF Node, DP!AssertInsert, AssertInsert, DP!Adjacent, Adjacent
<1>3. p \in DP!DlNode /\ q \in DP!DlNode
  BY SameLists
<1>4. DP!WellLinked(DP!dlnode_insert(h, p, n, q))
  BY <1>2, <1>3, SameLists, DP!InsertKeepsWhole
<1>5. /\ DP!dlnode_insert(h, p, n, q) \in DP!Dlists
      /\ p # n /\ q # n
      /\ \A m \in DP!DlNode :
           /\ DP!dlnode_insert(h, p, n, q).next[m] = IF m = n THEN q ELSE IF m = p THEN n ELSE h.next[m]
           /\ DP!dlnode_insert(h, p, n, q).prev[m] = IF m = q THEN n ELSE IF m = n THEN p ELSE h.prev[m]
           /\ DP!dlnode_insert(h, p, n, q).owner[m] = IF m = n THEN h.owner[p] ELSE h.owner[m]
  BY <1>2, <1>3, SameLists, DP!InsertPointers
<1>6. dlnode_insert(h, p, n, q).owner = [h.owner EXCEPT ![n] = h.owner[p]]
  <2>1. dlnode_insert(h, p, n, q).owner \in [DlNode -> AllLists \cup {NULL}]
    BY <1>1, <1>5, SameLists DEF Dlists
  <2>2. h.owner \in [DlNode -> AllLists \cup {NULL}] /\ n \in DlNode
    BY Names DEF WellLinked, Dlists
  <2> QED
    BY <1>1, <1>5, <2>1, <2>2, SameLists
<1> QED
  BY <1>1, <1>4, <1>5, <1>6, SameLists

(* A new header of a cell.                                                 *)
LEMMA FreshHeader ==
    ASSUME NEW h, WellLinked(h), NEW n \in Node, h.owner[n] = NULL
    PROVE  /\ WellLinked(dlnode_init(h, n)) /\ dlnode_init(h, n).owner = h.owner
           /\ \A m \in DlNode : m # n => dlnode_init(h, n).next[m] = h.next[m]
<1>1. DP!dlnode_init(h, n) = dlnode_init(h, n)
  BY DEF DP!dlnode_init, dlnode_init
<1>2. n \in Cell \cup {Sentinel} /\ DP!WellLinked(h)
  BY SameLists DEF Node
<1>3. /\ DP!WellLinked(DP!dlnode_init(h, n)) /\ DP!dlnode_init(h, n).owner = h.owner
      /\ \A m \in DP!DlNode : m # n => DP!dlnode_init(h, n).next[m] = h.next[m]
  BY <1>2, SameLists, DP!FreshPointersKeepWhole
<1> QED
  BY <1>1, <1>3, SameLists

(* The lists that memory_state_init makes, the sentinel among the roots.   *)
LEMMA FirstLists ==
    LET h == dlist_insertlast(dlist_init, "roots", Sentinel)
    IN  /\ WellLinked(h)
        /\ h.owner = [n \in DlNode |-> IF n \in AllLists THEN n ELSE IF n = Sentinel THEN "roots" ELSE NULL]
        /\ h.next["roots"] = Sentinel /\ h.next[Sentinel] = "roots"
<1>1. WellLinked(dlist_init)
  <2>1. DP!dlist_init = dlist_init
    BY DEF DP!dlist_init, dlist_init, DP!Header, Header, DP!DlNode, DlNode
  <2> QED
    BY <2>1, SameLists, DP!InitIsWhole
<1>2. dlist_init.prev["roots"] = "roots" /\ "roots" \in DlNode /\ Sentinel \in Node /\ Sentinel \in DlNode
  BY Names DEF dlist_init, Header, AllLists, Node
<1>3. AssertInsert(dlist_init, "roots", Sentinel, "roots")
  BY <1>2, Names DEF AssertInsert, Adjacent, dlist_init, Header, AllLists
<1>4. dlist_insertlast(dlist_init, "roots", Sentinel) = dlnode_insert(dlist_init, "roots", Sentinel, "roots")
  BY <1>2 DEF dlist_insertlast, dlnode_insertprev
<1>5. dlist_init.owner = [n \in DlNode |-> IF n \in AllLists THEN n ELSE NULL]
  BY DEF dlist_init, Header
<1> HIDE DEF dlist_init
<1>6. /\ WellLinked(dlnode_insert(dlist_init, "roots", Sentinel, "roots"))
      /\ dlnode_insert(dlist_init, "roots", Sentinel, "roots").owner
           = [dlist_init.owner EXCEPT ![Sentinel] = dlist_init.owner["roots"]]
      /\ \A m \in DlNode : dlnode_insert(dlist_init, "roots", Sentinel, "roots").next[m]
           = IF m = Sentinel THEN "roots" ELSE IF m = "roots" THEN Sentinel ELSE dlist_init.next[m]
  BY <1>1, <1>2, <1>3, Insertion
<1>7. [dlist_init.owner EXCEPT ![Sentinel] = dlist_init.owner["roots"]]
        = [n \in DlNode |-> IF n \in AllLists THEN n ELSE IF n = Sentinel THEN "roots" ELSE NULL]
  BY <1>2, <1>5, Names DEF AllLists
<1> QED
  BY <1>2, <1>4, <1>6, <1>7, Names DEF AllLists

(* A walk along a list.                                                    *)
LEMMA Walking ==
    ASSUME NEW h, WellLinked(h), NEW l \in AllLists
    PROVE  /\ Walk(h, l) \in Seq(Node)
           /\ {Walk(h, l)[i] : i \in DOMAIN Walk(h, l)} = Members(h, l)
           /\ \A i, j \in DOMAIN Walk(h, l) : Walk(h, l)[i] = Walk(h, l)[j] => i = j
           /\ \A i \in DOMAIN Walk(h, l) :
                 Walk(h, l)[i] = IF i = 1 THEN h.next[l] ELSE h.next[Walk(h, l)[i - 1]]
<1>1. /\ DP!Walk(h, l) \in Seq(Cell \cup {Sentinel})
      /\ {DP!Walk(h, l)[i] : i \in DOMAIN DP!Walk(h, l)} = DP!Members(h, l)
      /\ \A i, j \in DOMAIN DP!Walk(h, l) : DP!Walk(h, l)[i] = DP!Walk(h, l)[j] => i = j
      /\ \A i \in DOMAIN DP!Walk(h, l) :
            DP!Walk(h, l)[i] = IF i = 1 THEN h.next[l] ELSE h.next[DP!Walk(h, l)[i - 1]]
  BY SameLists, DP!WalkMeetsEachOnce
<1> QED
  BY <1>1, SameLists DEF Node

-----------------------------------------------------------------------------
(* Loops.  A fold over a sequence is a row of states, each what the call   *)
(* makes of the one before.                                                *)
(* What holds of the first state, and of each if it holds of the one       *)
(* before, holds of the last: Z[i] are the states that will do after i.    *)
LEMMA LastOfRow ==
    ASSUME NEW n \in Nat, NEW at, NEW Z, at[0] \in Z[0],
           \A i \in 1..n : at[i - 1] \in Z[i - 1] => at[i] \in Z[i]
    PROVE  \A i \in 0..n : at[i] \in Z[i]
<1> DEFINE T == {i \in 0..n : at[i] \notin Z[i]}
<1> SUFFICES ASSUME T # {} PROVE FALSE
  OBVIOUS
<1>1. T \subseteq Nat
  OBVIOUS
<1>2. PICK x \in T : \A y \in T : x <= y
  <2> HIDE DEF T
  <2> QED
    BY <1>1, DP!LeastNat
<1>3. x \in 1..n
  BY <1>2
<1>4. x - 1 \in 0..n /\ ~(x <= x - 1)
  BY <1>3
<1>5. at[x - 1] \in Z[x - 1]
  BY <1>2, <1>4
<1> QED
  BY <1>2, <1>3, <1>5

LEMMA MaxOfInterval ==
    ASSUME NEW i \in Nat, i # 0
    PROVE  Max(1..i) = i /\ 1..i \ {Max(1..i)} = 1..i - 1
<1>1. i \in 1..i /\ \A y \in 1..i : i >= y
  OBVIOUS
<1>2. \A x \in 1..i : (\A y \in 1..i : x >= y) => x = i
  BY <1>1
<1>3. Max(1..i) = i
  BY <1>1, <1>2 DEF Max
<1>4. 1..i \ {i} = 1..i - 1
  OBVIOUS
<1> QED
  BY <1>3, <1>4

(* Sets of numbers have a greatest one.                                    *)
LEMMA MaxOfSet ==
    ASSUME NEW n \in Nat, NEW S \in SUBSET (1..n), S # {}
    PROVE  Max(S) \in S /\ \A y \in S : Max(S) >= y
<1> DEFINE T == {k \in 0..n : n - k \in S}
<1>1. T \subseteq Nat
  OBVIOUS
<1>2. T # {}
  <2>1. PICK y \in S : TRUE
    OBVIOUS
  <2>2. n - y \in 0..n /\ n - (n - y) = y
    BY <2>1
  <2>3. n - y \in T
    BY <2>1, <2>2
  <2> QED
    BY <2>3
<1>3. PICK x \in T : \A y \in T : x <= y
  <2> HIDE DEF T
  <2> QED
    BY <1>1, <1>2, DP!LeastNat
<1>4. ASSUME NEW y \in S PROVE n - x >= y
  <2>1. n - y \in 0..n /\ n - (n - y) = y
    OBVIOUS
  <2>2. x <= n - y
    BY <1>3, <2>1
  <2> QED
    BY <1>3, <2>1, <2>2
<1> QED
  BY <1>3, <1>4 DEF Max

(* The recursion that FoldLeft is defined with has a solution.             *)
IsFold(it, X, F, s, n, q) ==
    /\ it = [S \in SUBSET (1..n) |-> IF S = {} THEN s ELSE F[<<it[S \ {Max(S)}], q[Max(S)]>>]]
    /\ \A S \in SUBSET (1..n) : it[S] \in X

LEMMA FoldExists ==
    ASSUME NEW X, NEW V, NEW F \in [X \X V -> X], NEW s \in X, NEW n \in Nat, NEW q \in [1..n -> V]
    PROVE  \E it : IsFold(it, X, F, s, n, q)
<1> DEFINE Turn(it, S) == IF S = {} THEN s ELSE F[<<it[S \ {Max(S)}], q[Max(S)]>>]
<1> DEFINE Solves(m, it) == /\ it = [S \in SUBSET (1..m) |-> Turn(it, S)]
                            /\ \A S \in SUBSET (1..m) : it[S] \in X
<1> DEFINE T == {m \in 0..n : ~ \E it : Solves(m, it)}
<1> SUFFICES ASSUME T # {} PROVE FALSE
  <2>1. n \in 0..n
    OBVIOUS
  <2>2. \A it : Solves(n, it) => IsFold(it, X, F, s, n, q)
    BY DEF IsFold
  <2> HIDE DEF Solves
  <2> QED
    BY <2>1, <2>2
<1>1. PICK m \in T : \A y \in T : m <= y
  <2>1. T \subseteq Nat
    OBVIOUS
  <2> HIDE DEF T
  <2> QED
    BY <2>1, DP!LeastNat
<1>2. m \in 0..n /\ ~ \E it : Solves(m, it)
  BY <1>1
<1>3. m # 0
  <2> DEFINE it == [S \in SUBSET (1..0) |-> s]
  <2>1. \A S \in SUBSET (1..0) : S = {}
    OBVIOUS
  <2>2. Solves(0, it)
    BY <2>1
  <2> QED
    BY <1>2, <2>2
<1>4. m - 1 \in 0..n /\ m - 1 \in Nat /\ ~(m <= m - 1) /\ m \in 1..n
  BY <1>2, <1>3
<1>5. PICK it : Solves(m - 1, it)
  BY <1>1, <1>4
<1>6. \A S \in SUBSET (1..m) : S # {} => /\ Max(S) \in 1..m
                                         /\ S \ {Max(S)} \in SUBSET (1..m - 1)
  <2> SUFFICES ASSUME NEW S \in SUBSET (1..m), S # {}
               PROVE  Max(S) \in 1..m /\ S \ {Max(S)} \in SUBSET (1..m - 1)
    OBVIOUS
  <2>1. m \in Nat /\ S \in SUBSET (1..m)
    BY <1>4
  <2>2. Max(S) \in S /\ \A y \in S : Max(S) >= y
    BY <2>1, MaxOfSet
  <2>3. ASSUME NEW y \in S \ {Max(S)} PROVE y \in 1..m - 1
    <3>1. y \in 1..m /\ Max(S) \in 1..m /\ Max(S) >= y /\ y # Max(S)
      BY <2>1, <2>2
    <3> QED
      BY <2>1, <3>1
  <2> QED
    BY <2>1, <2>2, <2>3
<1> DEFINE jt == [S \in SUBSET (1..m) |-> Turn(it, S)]
<1>7. \A S \in SUBSET (1..m - 1) : jt[S] = it[S]
  <2>1. \A S \in SUBSET (1..m - 1) : S \in SUBSET (1..m)
    BY <1>4
  <2>2. \A S \in SUBSET (1..m - 1) : it[S] = Turn(it, S)
    BY <1>5
  <2> HIDE DEF Turn
  <2> QED
    BY <2>1, <2>2
<1>8. \A S \in SUBSET (1..m) : Turn(jt, S) = Turn(it, S)
  <2> HIDE DEF jt
  <2> QED
    BY <1>6, <1>7
<1>9. jt = [S \in SUBSET (1..m) |-> Turn(jt, S)]
  <2> HIDE DEF Turn
  <2> QED
    BY <1>8
<1>10. \A S \in SUBSET (1..m) : jt[S] \in X
  <2> SUFFICES ASSUME NEW S \in SUBSET (1..m) PROVE Turn(it, S) \in X
    OBVIOUS
  <2>1. CASE S = {}
    BY <2>1
  <2>2. CASE S # {}
    <3>1. Max(S) \in 1..m /\ S \ {Max(S)} \in SUBSET (1..m - 1)
      BY <1>6, <2>2
    <3>2. \A R \in SUBSET (1..m - 1) : it[R] \in X
      BY <1>5
    <3>3. Max(S) \in 1..n
      BY <1>4, <3>1
    <3>4. it[S \ {Max(S)}] \in X /\ q[Max(S)] \in V
      BY <3>1, <3>2, <3>3
    <3> QED
      BY <2>2, <3>4
  <2> QED
    BY <2>1, <2>2
<1> HIDE DEF jt, Turn
<1>11. Solves(m, jt)
  BY <1>9, <1>10
<1> QED
  BY <1>2, <1>11


(* The loops of the collector and of the reset, each as a row of states.   *)
StaleAll(s, q) == FoldLeft(memory_gc_advise_stale_link, s, q)
StaleRow(at, s, q) ==
    /\ at[0] = s /\ at[Len(q)] = StaleAll(s, q)
    /\ \A i \in 1..Len(q) : at[i] = memory_gc_advise_stale_link(at[i - 1], q[i])

TraceAll(s, q) == FoldLeft(dl_cb_try_move_boundary, s, q)
TraceRow(at, s, q) ==
    /\ at[0] = s /\ at[Len(q)] = TraceAll(s, q)
    /\ \A i \in 1..Len(q) : at[i] = dl_cb_try_move_boundary(at[i - 1], q[i])

FreeAll(s, q) == FoldLeft(FreeFront, s, q)
FreeRow(at, s, q) ==
    /\ at[0] = s /\ at[Len(q)] = FreeAll(s, q)
    /\ \A i \in 1..Len(q) : at[i] = FreeFront(at[i - 1], q[i])

ReturnAll(s, q) == FoldLeft(ReturnFront, s, q)
ReturnRow(at, s, q) ==
    /\ at[0] = s /\ at[Len(q)] = ReturnAll(s, q)
    /\ \A i \in 1..Len(q) : at[i] = ReturnFront(at[i - 1], q[i])

FreeLists(s, q) == FoldLeft(FreeList, s, q)
FreeListsRow(at, s, q) ==
    /\ at[0] = s /\ at[Len(q)] = FreeLists(s, q)
    /\ \A i \in 1..Len(q) : at[i] = FreeList(at[i - 1], q[i])

LEMMA Fold_memory_gc_advise_stale_link ==
    ASSUME NEW X, NEW V, NEW s \in X, NEW q \in Seq(V),
           \A x \in X, v \in V : memory_gc_advise_stale_link(x, v) \in X
    PROVE  \E at : StaleRow(at, s, q)
<1> DEFINE n == Len(q)
<1> DEFINE F == [e \in X \X V |-> memory_gc_advise_stale_link(e[1], e[2])]
<1> DEFINE Solves(it) ==
      it = [S \in SUBSET (1..n) |-> IF S = {} THEN s ELSE memory_gc_advise_stale_link(it[S \ {Max(S)}], q[Max(S)])]
<1>1. n \in Nat /\ DOMAIN q = 1..n /\ q \in [1..n -> V]
  OBVIOUS
<1>2. FoldLeft(memory_gc_advise_stale_link, s, q) = (CHOOSE it : Solves(it))[1..n]
  BY <1>1 DEF FoldLeft, MapThenFoldSet
<1>3. F \in [X \X V -> X]
  OBVIOUS
<1> HIDE DEF n
<1>4. \E it : Solves(it)
  <2>1. PICK it : IsFold(it, X, F, s, n, q)
    <3> HIDE DEF F
    <3> QED
      BY <1>1, <1>3, FoldExists
  <2>2. ASSUME NEW S \in SUBSET (1..n), S # {}
        PROVE  F[<<it[S \ {Max(S)}], q[Max(S)]>>] = memory_gc_advise_stale_link(it[S \ {Max(S)}], q[Max(S)])
    <3>1. Max(S) \in 1..n
      BY <1>1, <2>2, MaxOfSet
    <3>2. it[S \ {Max(S)}] \in X /\ q[Max(S)] \in V
      BY <1>1, <2>1, <3>1 DEF IsFold
    <3> QED
      BY <3>2
  <2>3. Solves(it)
    <3> HIDE DEF F
    <3> QED
      BY <2>1, <2>2 DEF IsFold
  <2> QED
    BY <2>3
<1>5. PICK it : Solves(it) /\ FoldLeft(memory_gc_advise_stale_link, s, q) = it[1..n]
  BY <1>2, <1>4
<1> DEFINE at == [i \in 0..n |-> it[1..i]]
<1>6. at[0] = s /\ at[n] = it[1..n]
  <2>1. 1..0 = {} /\ {} \in SUBSET (1..n) /\ 0 \in 0..n /\ n \in 0..n
    BY <1>1
  <2> QED
    BY <1>5, <2>1
<1>7. ASSUME NEW i \in 1..n PROVE at[i] = memory_gc_advise_stale_link(at[i - 1], q[i])
  <2>1. i \in Nat /\ i # 0 /\ i \in 0..n /\ i - 1 \in 0..n /\ i \in 1..i
    BY <1>1
  <2>2. Max(1..i) = i /\ 1..i \ {Max(1..i)} = 1..i - 1
    BY <2>1, MaxOfInterval
  <2>3. it[1..i] = memory_gc_advise_stale_link(it[1..i \ {Max(1..i)}], q[Max(1..i)])
    <3>1. \A j \in 1..i : j \in 1..n
      BY <1>1
    <3>2. 1..i \in SUBSET (1..n) /\ 1..i # {}
      BY <2>1, <3>1
    <3> QED
      BY <1>5, <3>2
  <2> QED
    BY <2>1, <2>2, <2>3
<1>8. StaleRow(at, s, q)
  <2> HIDE DEF at
  <2> QED
    BY <1>5, <1>6, <1>7 DEF StaleRow, StaleAll, n
<1> QED
  BY <1>8

LEMMA Fold_dl_cb_try_move_boundary ==
    ASSUME NEW X, NEW V, NEW s \in X, NEW q \in Seq(V),
           \A x \in X, v \in V : dl_cb_try_move_boundary(x, v) \in X
    PROVE  \E at : TraceRow(at, s, q)
<1> DEFINE n == Len(q)
<1> DEFINE F == [e \in X \X V |-> dl_cb_try_move_boundary(e[1], e[2])]
<1> DEFINE Solves(it) ==
      it = [S \in SUBSET (1..n) |-> IF S = {} THEN s ELSE dl_cb_try_move_boundary(it[S \ {Max(S)}], q[Max(S)])]
<1>1. n \in Nat /\ DOMAIN q = 1..n /\ q \in [1..n -> V]
  OBVIOUS
<1>2. FoldLeft(dl_cb_try_move_boundary, s, q) = (CHOOSE it : Solves(it))[1..n]
  BY <1>1 DEF FoldLeft, MapThenFoldSet
<1>3. F \in [X \X V -> X]
  OBVIOUS
<1> HIDE DEF n
<1>4. \E it : Solves(it)
  <2>1. PICK it : IsFold(it, X, F, s, n, q)
    <3> HIDE DEF F
    <3> QED
      BY <1>1, <1>3, FoldExists
  <2>2. ASSUME NEW S \in SUBSET (1..n), S # {}
        PROVE  F[<<it[S \ {Max(S)}], q[Max(S)]>>] = dl_cb_try_move_boundary(it[S \ {Max(S)}], q[Max(S)])
    <3>1. Max(S) \in 1..n
      BY <1>1, <2>2, MaxOfSet
    <3>2. it[S \ {Max(S)}] \in X /\ q[Max(S)] \in V
      BY <1>1, <2>1, <3>1 DEF IsFold
    <3> QED
      BY <3>2
  <2>3. Solves(it)
    <3> HIDE DEF F
    <3> QED
      BY <2>1, <2>2 DEF IsFold
  <2> QED
    BY <2>3
<1>5. PICK it : Solves(it) /\ FoldLeft(dl_cb_try_move_boundary, s, q) = it[1..n]
  BY <1>2, <1>4
<1> DEFINE at == [i \in 0..n |-> it[1..i]]
<1>6. at[0] = s /\ at[n] = it[1..n]
  <2>1. 1..0 = {} /\ {} \in SUBSET (1..n) /\ 0 \in 0..n /\ n \in 0..n
    BY <1>1
  <2> QED
    BY <1>5, <2>1
<1>7. ASSUME NEW i \in 1..n PROVE at[i] = dl_cb_try_move_boundary(at[i - 1], q[i])
  <2>1. i \in Nat /\ i # 0 /\ i \in 0..n /\ i - 1 \in 0..n /\ i \in 1..i
    BY <1>1
  <2>2. Max(1..i) = i /\ 1..i \ {Max(1..i)} = 1..i - 1
    BY <2>1, MaxOfInterval
  <2>3. it[1..i] = dl_cb_try_move_boundary(it[1..i \ {Max(1..i)}], q[Max(1..i)])
    <3>1. \A j \in 1..i : j \in 1..n
      BY <1>1
    <3>2. 1..i \in SUBSET (1..n) /\ 1..i # {}
      BY <2>1, <3>1
    <3> QED
      BY <1>5, <3>2
  <2> QED
    BY <2>1, <2>2, <2>3
<1>8. TraceRow(at, s, q)
  <2> HIDE DEF at
  <2> QED
    BY <1>5, <1>6, <1>7 DEF TraceRow, TraceAll, n
<1> QED
  BY <1>8

LEMMA Fold_FreeFront ==
    ASSUME NEW X, NEW V, NEW s \in X, NEW q \in Seq(V),
           \A x \in X, v \in V : FreeFront(x, v) \in X
    PROVE  \E at : FreeRow(at, s, q)
<1> DEFINE n == Len(q)
<1> DEFINE F == [e \in X \X V |-> FreeFront(e[1], e[2])]
<1> DEFINE Solves(it) ==
      it = [S \in SUBSET (1..n) |-> IF S = {} THEN s ELSE FreeFront(it[S \ {Max(S)}], q[Max(S)])]
<1>1. n \in Nat /\ DOMAIN q = 1..n /\ q \in [1..n -> V]
  OBVIOUS
<1>2. FoldLeft(FreeFront, s, q) = (CHOOSE it : Solves(it))[1..n]
  BY <1>1 DEF FoldLeft, MapThenFoldSet
<1>3. F \in [X \X V -> X]
  OBVIOUS
<1> HIDE DEF n
<1>4. \E it : Solves(it)
  <2>1. PICK it : IsFold(it, X, F, s, n, q)
    <3> HIDE DEF F
    <3> QED
      BY <1>1, <1>3, FoldExists
  <2>2. ASSUME NEW S \in SUBSET (1..n), S # {}
        PROVE  F[<<it[S \ {Max(S)}], q[Max(S)]>>] = FreeFront(it[S \ {Max(S)}], q[Max(S)])
    <3>1. Max(S) \in 1..n
      BY <1>1, <2>2, MaxOfSet
    <3>2. it[S \ {Max(S)}] \in X /\ q[Max(S)] \in V
      BY <1>1, <2>1, <3>1 DEF IsFold
    <3> QED
      BY <3>2
  <2>3. Solves(it)
    <3> HIDE DEF F
    <3> QED
      BY <2>1, <2>2 DEF IsFold
  <2> QED
    BY <2>3
<1>5. PICK it : Solves(it) /\ FoldLeft(FreeFront, s, q) = it[1..n]
  BY <1>2, <1>4
<1> DEFINE at == [i \in 0..n |-> it[1..i]]
<1>6. at[0] = s /\ at[n] = it[1..n]
  <2>1. 1..0 = {} /\ {} \in SUBSET (1..n) /\ 0 \in 0..n /\ n \in 0..n
    BY <1>1
  <2> QED
    BY <1>5, <2>1
<1>7. ASSUME NEW i \in 1..n PROVE at[i] = FreeFront(at[i - 1], q[i])
  <2>1. i \in Nat /\ i # 0 /\ i \in 0..n /\ i - 1 \in 0..n /\ i \in 1..i
    BY <1>1
  <2>2. Max(1..i) = i /\ 1..i \ {Max(1..i)} = 1..i - 1
    BY <2>1, MaxOfInterval
  <2>3. it[1..i] = FreeFront(it[1..i \ {Max(1..i)}], q[Max(1..i)])
    <3>1. \A j \in 1..i : j \in 1..n
      BY <1>1
    <3>2. 1..i \in SUBSET (1..n) /\ 1..i # {}
      BY <2>1, <3>1
    <3> QED
      BY <1>5, <3>2
  <2> QED
    BY <2>1, <2>2, <2>3
<1>8. FreeRow(at, s, q)
  <2> HIDE DEF at
  <2> QED
    BY <1>5, <1>6, <1>7 DEF FreeRow, FreeAll, n
<1> QED
  BY <1>8

LEMMA Fold_ReturnFront ==
    ASSUME NEW X, NEW V, NEW s \in X, NEW q \in Seq(V),
           \A x \in X, v \in V : ReturnFront(x, v) \in X
    PROVE  \E at : ReturnRow(at, s, q)
<1> DEFINE n == Len(q)
<1> DEFINE F == [e \in X \X V |-> ReturnFront(e[1], e[2])]
<1> DEFINE Solves(it) ==
      it = [S \in SUBSET (1..n) |-> IF S = {} THEN s ELSE ReturnFront(it[S \ {Max(S)}], q[Max(S)])]
<1>1. n \in Nat /\ DOMAIN q = 1..n /\ q \in [1..n -> V]
  OBVIOUS
<1>2. FoldLeft(ReturnFront, s, q) = (CHOOSE it : Solves(it))[1..n]
  BY <1>1 DEF FoldLeft, MapThenFoldSet
<1>3. F \in [X \X V -> X]
  OBVIOUS
<1> HIDE DEF n
<1>4. \E it : Solves(it)
  <2>1. PICK it : IsFold(it, X, F, s, n, q)
    <3> HIDE DEF F
    <3> QED
      BY <1>1, <1>3, FoldExists
  <2>2. ASSUME NEW S \in SUBSET (1..n), S # {}
        PROVE  F[<<it[S \ {Max(S)}], q[Max(S)]>>] = ReturnFront(it[S \ {Max(S)}], q[Max(S)])
    <3>1. Max(S) \in 1..n
      BY <1>1, <2>2, MaxOfSet
    <3>2. it[S \ {Max(S)}] \in X /\ q[Max(S)] \in V
      BY <1>1, <2>1, <3>1 DEF IsFold
    <3> QED
      BY <3>2
  <2>3. Solves(it)
    <3> HIDE DEF F
    <3> QED
      BY <2>1, <2>2 DEF IsFold
  <2> QED
    BY <2>3
<1>5. PICK it : Solves(it) /\ FoldLeft(ReturnFront, s, q) = it[1..n]
  BY <1>2, <1>4
<1> DEFINE at == [i \in 0..n |-> it[1..i]]
<1>6. at[0] = s /\ at[n] = it[1..n]
  <2>1. 1..0 = {} /\ {} \in SUBSET (1..n) /\ 0 \in 0..n /\ n \in 0..n
    BY <1>1
  <2> QED
    BY <1>5, <2>1
<1>7. ASSUME NEW i \in 1..n PROVE at[i] = ReturnFront(at[i - 1], q[i])
  <2>1. i \in Nat /\ i # 0 /\ i \in 0..n /\ i - 1 \in 0..n /\ i \in 1..i
    BY <1>1
  <2>2. Max(1..i) = i /\ 1..i \ {Max(1..i)} = 1..i - 1
    BY <2>1, MaxOfInterval
  <2>3. it[1..i] = ReturnFront(it[1..i \ {Max(1..i)}], q[Max(1..i)])
    <3>1. \A j \in 1..i : j \in 1..n
      BY <1>1
    <3>2. 1..i \in SUBSET (1..n) /\ 1..i # {}
      BY <2>1, <3>1
    <3> QED
      BY <1>5, <3>2
  <2> QED
    BY <2>1, <2>2, <2>3
<1>8. ReturnRow(at, s, q)
  <2> HIDE DEF at
  <2> QED
    BY <1>5, <1>6, <1>7 DEF ReturnRow, ReturnAll, n
<1> QED
  BY <1>8

LEMMA Fold_FreeList ==
    ASSUME NEW X, NEW V, NEW s \in X, NEW q \in Seq(V),
           \A x \in X, v \in V : FreeList(x, v) \in X
    PROVE  \E at : FreeListsRow(at, s, q)
<1> DEFINE n == Len(q)
<1> DEFINE F == [e \in X \X V |-> FreeList(e[1], e[2])]
<1> DEFINE Solves(it) ==
      it = [S \in SUBSET (1..n) |-> IF S = {} THEN s ELSE FreeList(it[S \ {Max(S)}], q[Max(S)])]
<1>1. n \in Nat /\ DOMAIN q = 1..n /\ q \in [1..n -> V]
  OBVIOUS
<1>2. FoldLeft(FreeList, s, q) = (CHOOSE it : Solves(it))[1..n]
  BY <1>1 DEF FoldLeft, MapThenFoldSet
<1>3. F \in [X \X V -> X]
  OBVIOUS
<1> HIDE DEF n
<1>4. \E it : Solves(it)
  <2>1. PICK it : IsFold(it, X, F, s, n, q)
    <3> HIDE DEF F
    <3> QED
      BY <1>1, <1>3, FoldExists
  <2>2. ASSUME NEW S \in SUBSET (1..n), S # {}
        PROVE  F[<<it[S \ {Max(S)}], q[Max(S)]>>] = FreeList(it[S \ {Max(S)}], q[Max(S)])
    <3>1. Max(S) \in 1..n
      BY <1>1, <2>2, MaxOfSet
    <3>2. it[S \ {Max(S)}] \in X /\ q[Max(S)] \in V
      BY <1>1, <2>1, <3>1 DEF IsFold
    <3> QED
      BY <3>2
  <2>3. Solves(it)
    <3> HIDE DEF F
    <3> QED
      BY <2>1, <2>2 DEF IsFold
  <2> QED
    BY <2>3
<1>5. PICK it : Solves(it) /\ FoldLeft(FreeList, s, q) = it[1..n]
  BY <1>2, <1>4
<1> DEFINE at == [i \in 0..n |-> it[1..i]]
<1>6. at[0] = s /\ at[n] = it[1..n]
  <2>1. 1..0 = {} /\ {} \in SUBSET (1..n) /\ 0 \in 0..n /\ n \in 0..n
    BY <1>1
  <2> QED
    BY <1>5, <2>1
<1>7. ASSUME NEW i \in 1..n PROVE at[i] = FreeList(at[i - 1], q[i])
  <2>1. i \in Nat /\ i # 0 /\ i \in 0..n /\ i - 1 \in 0..n /\ i \in 1..i
    BY <1>1
  <2>2. Max(1..i) = i /\ 1..i \ {Max(1..i)} = 1..i - 1
    BY <2>1, MaxOfInterval
  <2>3. it[1..i] = FreeList(it[1..i \ {Max(1..i)}], q[Max(1..i)])
    <3>1. \A j \in 1..i : j \in 1..n
      BY <1>1
    <3>2. 1..i \in SUBSET (1..n) /\ 1..i # {}
      BY <2>1, <3>1
    <3> QED
      BY <1>5, <3>2
  <2> QED
    BY <2>1, <2>2, <2>3
<1>8. FreeListsRow(at, s, q)
  <2> HIDE DEF at
  <2> QED
    BY <1>5, <1>6, <1>7 DEF FreeListsRow, FreeLists, n
<1> QED
  BY <1>8

-----------------------------------------------------------------------------
(* The memory state, with lists that are whole.                            *)
Faults ==
    {"none", "dlist.c:19", "dlist.c:50", "memory.c:316", "memory.c:317", "memory.c:319", "memory.c:330",
     "memory.c:397", "memory.c:431", "memory.c:432", "memory.c:465", "memory.c:519", "memory.c:520",
     "memory.c:522", "memory.c:588, 590", "memory.c:598, 656", "memory.c:610, 611", "memory.c:643"}
States ==
    [dl : Dlists, reachable : Colors, refcount : [Cell -> Nat], locked : SUBSET Cell,
     live : SUBSET Cell, fin : SUBSET Cell, finalized : [Cell -> Nat],
     total_alloc : Nat, total_free : Int, clean_cycles : 0..2, fault : Faults]
Whole == {s \in States : WellLinked(s.dl)}

(* Where Memory has a cell, and what list that is here.                    *)
Places == {"unallocated", "free", "free_pending", "roots_unproc", "roots_proc", "boundary", "white", "black"}
ListOf(place) ==
    IF place = "unallocated" THEN NULL
    ELSE IF place \in {"roots_unproc", "roots_proc"} THEN "roots" ELSE place

(* The sentinel cuts the roots in two: those of B come before it, the      *)
(* others after it.                                                        *)
Behind(h, B) == {c \in Cell : h.owner[c] = "roots" /\ c \notin B}
Cut(h, B) ==
    /\ h.owner[Sentinel] = "roots"
    /\ \A n \in B \cup {"roots"} : h.next[n] \in B \cup {Sentinel}
    /\ \A n \in Behind(h, B) \cup {Sentinel} : h.next[n] \in Behind(h, B) \cup {"roots"}

Ahead(ow) == {c \in Cell : ow[c] = "roots_unproc"}
View(s, ow) ==
    /\ ow \in [Cell -> Places]
    /\ \A c \in Cell : OwnerOf(s, c) = ListOf(ow[c])
    /\ Cut(s.dl, Ahead(ow))

SameData(s, t) ==
    /\ t.reachable = s.reachable /\ t.refcount = s.refcount /\ t.locked = s.locked
    /\ t.live = s.live /\ t.fin = s.fin /\ t.finalized = s.finalized
    /\ t.total_alloc = s.total_alloc /\ t.total_free = s.total_free
    /\ t.clean_cycles = s.clean_cycles

(* t is s with the cell c at its new place; or after a fault, s.           *)
Put(s, t, c, place) ==
    /\ t \in Whole /\ SameData(s, t) /\ t.fault = s.fault
    /\ s.fault # "none" => t.dl = s.dl
    /\ s.fault = "none" => t.dl.owner = [s.dl.owner EXCEPT ![c] = ListOf(place)]
    /\ s.fault = "none" => \A ow : View(s, ow) => View(t, [ow EXCEPT ![c] = place])

LEMMA PutTwice ==
    ASSUME NEW s \in Whole, NEW t, NEW u, NEW c \in Cell, NEW place, NEW place2,
           Put(s, t, c, place), Put(t, u, c, place2)
    PROVE  Put(s, u, c, place2)
<1>1. u \in Whole /\ SameData(s, u) /\ u.fault = s.fault /\ (s.fault # "none" => u.dl = s.dl)
  BY DEF Put, SameData
<1>2. ASSUME s.fault = "none" PROVE u.dl.owner = [s.dl.owner EXCEPT ![c] = ListOf(place2)]
  <2>1. t.dl.owner = [s.dl.owner EXCEPT ![c] = ListOf(place)] /\ u.dl.owner = [t.dl.owner EXCEPT ![c] = ListOf(place2)]
    BY <1>2 DEF Put
  <2>2. s.dl.owner \in [DlNode -> AllLists \cup {NULL}]
    BY DEF Whole, States, Dlists
  <2> QED
    BY <2>1, <2>2
<1>3. ASSUME s.fault = "none", NEW ow, View(s, ow) PROVE View(u, [ow EXCEPT ![c] = place2])
  <2>1. View(t, [ow EXCEPT ![c] = place])
    BY <1>3 DEF Put
  <2>2. View(u, [[ow EXCEPT ![c] = place] EXCEPT ![c] = place2])
    BY <1>3, <2>1 DEF Put
  <2>3. [[ow EXCEPT ![c] = place] EXCEPT ![c] = place2] = [ow EXCEPT ![c] = place2]
    BY <1>3 DEF View
  <2> QED
    BY <2>2, <2>3
<1> QED
  BY <1>1, <1>2, <1>3 DEF Put

(* What the two operations on a list do to a state.                        *)
LEMMA WithLists ==
    ASSUME NEW s \in Whole, NEW h, WellLinked(h)
    PROVE  LET t == [s EXCEPT !.dl = h]
           IN  t \in Whole /\ t.dl = h /\ SameData(s, t) /\ t.fault = s.fault
BY DEF Whole, States, WellLinked, SameData

LEMMA UnlinkIs ==
    ASSUME NEW s \in Whole, NEW n \in Node
    PROVE  /\ Unlink(s, n) \in Whole /\ SameData(s, Unlink(s, n))
           /\ s.fault # "none" => Unlink(s, n) = s
           /\ OwnerOf(s, n) # NULL => Unlink(s, n).fault = s.fault
           /\ s.fault = "none" /\ OwnerOf(s, n) # NULL => Unlink(s, n).dl = dlnode_remove(s.dl, n)
<1>0. WellLinked(s.dl)
  BY DEF Whole
<1>1. CASE s.fault # "none"
  BY <1>1 DEF Unlink, SameData
<1>2. CASE s.fault = "none" /\ OwnerOf(s, n) # NULL
  <2>1. WellLinked(dlnode_remove(s.dl, n))
    BY <1>0, <1>2, Removal DEF OwnerOf
  <2>2. Unlink(s, n) = [s EXCEPT !.dl = dlnode_remove(s.dl, n)]
    BY <1>2 DEF Unlink, AssertRemove, OwnerOf
  <2> QED
    BY <1>2, <2>1, <2>2, WithLists
<1>3. CASE s.fault = "none" /\ OwnerOf(s, n) = NULL
  <2>1. Unlink(s, n) = [s EXCEPT !.fault = "dlist.c:50"]
    BY <1>3 DEF Unlink, AssertRemove, OwnerOf
  <2>2. [s EXCEPT !.fault = "dlist.c:50"] \in Whole /\ SameData(s, [s EXCEPT !.fault = "dlist.c:50"])
    BY DEF Whole, States, SameData, Faults
  <2> QED
    BY <1>3, <2>1, <2>2
<1> QED
  BY <1>1, <1>2, <1>3

LEMMA InsertIs ==
    ASSUME NEW s \in Whole, NEW p \in DlNode, NEW n \in Node, NEW q \in DlNode
    PROVE  /\ InsertBetween(s, p, n, q) \in Whole /\ SameData(s, InsertBetween(s, p, n, q))
           /\ s.fault # "none" => InsertBetween(s, p, n, q) = s
           /\ AssertInsert(s.dl, p, n, q) => InsertBetween(s, p, n, q).fault = s.fault
           /\ s.fault = "none" /\ AssertInsert(s.dl, p, n, q)
                => InsertBetween(s, p, n, q).dl = dlnode_insert(s.dl, p, n, q)
<1>0. WellLinked(s.dl)
  BY DEF Whole
<1>1. CASE s.fault # "none"
  BY <1>1 DEF InsertBetween, SameData
<1>2. CASE s.fault = "none" /\ AssertInsert(s.dl, p, n, q)
  <2>1. WellLinked(dlnode_insert(s.dl, p, n, q))
    <3> DEFINE h == s.dl
    <3>1. WellLinked(h) /\ AssertInsert(h, p, n, q)
      BY <1>0, <1>2
    <3> HIDE DEF h
    <3>2. WellLinked(dlnode_insert(h, p, n, q))
      BY <3>1, Insertion
    <3> QED
      BY <3>2 DEF h
  <2>2. InsertBetween(s, p, n, q) = [s EXCEPT !.dl = dlnode_insert(s.dl, p, n, q)]
    BY <1>2 DEF InsertBetween
  <2> QED
    BY <1>2, <2>1, <2>2, WithLists
<1>3. CASE s.fault = "none" /\ ~AssertInsert(s.dl, p, n, q)
  <2>1. InsertBetween(s, p, n, q) = [s EXCEPT !.fault = "dlist.c:19"]
    BY <1>3 DEF InsertBetween
  <2>2. [s EXCEPT !.fault = "dlist.c:19"] \in Whole /\ SameData(s, [s EXCEPT !.fault = "dlist.c:19"])
    BY DEF Whole, States, SameData, Faults
  <2> QED
    BY <1>3, <2>1, <2>2
<1> QED
  BY <1>1, <1>2, <1>3

(* A cell is taken off its list.                                           *)
LEMMA PutUnlink ==
    ASSUME NEW s \in Whole, NEW c \in Cell, s.fault = "none" => OwnerOf(s, c) # NULL
    PROVE  Put(s, Unlink(s, c), c, "unallocated")
<1> DEFINE t == Unlink(s, c)
<1> DEFINE h == s.dl
<1>1. /\ t \in Whole /\ SameData(s, t) /\ t.fault = s.fault
      /\ s.fault # "none" => t = s
      /\ s.fault = "none" => t.dl = dlnode_remove(h, c)
  BY UnlinkIs DEF Node
<1>2. s.fault = "none" =>
      /\ dlnode_remove(h, c).owner = [h.owner EXCEPT ![c] = NULL]
      /\ h.prev[c] # c /\ h.next[c] # c
      /\ \A m \in DlNode : dlnode_remove(h, c).next[m] = IF m = h.prev[c] THEN h.next[c] ELSE h.next[m]
  BY Removal DEF Node, OwnerOf, Whole
<1>3. ASSUME s.fault = "none", NEW ow, View(s, ow) PROVE View(t, [ow EXCEPT ![c] = "unallocated"])
  <2> DEFINE ov == [ow EXCEPT ![c] = "unallocated"]
  <2> DEFINE g == t.dl
  <2>1. ow \in [Cell -> Places] /\ ov \in [Cell -> Places]
    BY <1>3 DEF View, Places
  <2>2. /\ g.owner = [h.owner EXCEPT ![c] = NULL] /\ h.owner \in [DlNode -> AllLists \cup {NULL}]
        /\ Cell \subseteq DlNode /\ Sentinel \in DlNode /\ "roots" \in DlNode /\ c # Sentinel /\ c # "roots"
        /\ \A m \in DlNode : g.next[m] = IF m = h.prev[c] THEN h.next[c] ELSE h.next[m]
    <3>1. h.owner \in [DlNode -> AllLists \cup {NULL}]
      BY DEF Whole, States, Dlists
    <3>2. Cell \subseteq DlNode /\ Sentinel \in DlNode /\ "roots" \in DlNode /\ c # Sentinel /\ c # "roots"
      BY NodesAssumption, Names DEF DlNode, AllLists, Node
    <3> QED
      BY <1>1, <1>2, <1>3, <3>1, <3>2
  <2>3. ASSUME NEW d \in Cell PROVE OwnerOf(t, d) = ListOf(ov[d])
    BY <1>3, <2>1, <2>2 DEF View, OwnerOf, ListOf
  <2>4. Cut(g, Ahead(ov))
    <3>1. Ahead(ov) = Ahead(ow) \ {c}
      BY <2>1 DEF Ahead
    <3>2. Behind(g, Ahead(ov)) = Behind(h, Ahead(ow)) \ {c}
      BY <2>2, <3>1, Names DEF Behind, AllLists
    <3>3. Cut(h, Ahead(ow))
      BY <1>3 DEF View
    <3>4. \A m \in DlNode : h.next[m] = c /\ m \in Linked(h) => m = h.prev[c]
      BY <1>3 DEF Whole, WellLinked, IsRing
    <3>5. \A m \in Ahead(ow) \cup Behind(h, Ahead(ow)) \cup {Sentinel, "roots"} : m \in DlNode /\ m \in Linked(h)
      <4>1. \A m \in Ahead(ow) : m \in Cell /\ h.owner[m] = "roots"
        BY <1>3 DEF Ahead, View, ListOf, OwnerOf
      <4>2. h.owner["roots"] = "roots"
        BY DEF Whole, WellLinked, IsRing, AllLists
      <4> QED
        BY <2>2, <3>3, <4>1, <4>2, Names DEF Behind, Cut, Linked, AllLists
    <3>6. h.next[c] # c
      BY <1>2, <1>3
    <3>7. c \notin Ahead(ow) \/ c \notin Behind(h, Ahead(ow))
      BY DEF Behind
    <3>8. \A n \in Ahead(ov) \cup {"roots"} : g.next[n] \in Ahead(ov) \cup {Sentinel}
      <4> SUFFICES ASSUME NEW n \in Ahead(ov) \cup {"roots"} PROVE g.next[n] \in Ahead(ov) \cup {Sentinel}
        OBVIOUS
      <4>1. n \in Ahead(ow) \cup {"roots"} /\ h.next[n] \in Ahead(ow) \cup {Sentinel} /\ n \in DlNode /\ n \in Linked(h)
        BY <3>1, <3>3, <3>5 DEF Cut
      <4>2. CASE h.next[n] = c
        BY <2>2, <3>1, <3>3, <3>4, <3>6, <4>1, <4>2 DEF Cut
      <4>3. CASE h.next[n] # c
        <5>1. c \in Ahead(ow) => h.next[c] \in Ahead(ow) \cup {Sentinel}
          BY <3>3 DEF Cut
        <5>2. n # h.prev[c]
          BY <1>3, <4>3 DEF Whole, WellLinked, IsRing, Linked, OwnerOf, DlNode
        <5> QED
          BY <2>2, <3>1, <4>1, <4>3, <5>2
      <4> QED
        BY <4>2, <4>3
    <3>9. \A n \in Behind(g, Ahead(ov)) \cup {Sentinel} : g.next[n] \in Behind(g, Ahead(ov)) \cup {"roots"}
      <4> SUFFICES ASSUME NEW n \in Behind(g, Ahead(ov)) \cup {Sentinel}
                   PROVE  g.next[n] \in Behind(g, Ahead(ov)) \cup {"roots"}
        OBVIOUS
      <4>1. /\ n \in Behind(h, Ahead(ow)) \cup {Sentinel} /\ h.next[n] \in Behind(h, Ahead(ow)) \cup {"roots"}
            /\ n \in DlNode /\ n \in Linked(h)
        BY <3>2, <3>3, <3>5 DEF Cut
      <4>2. CASE h.next[n] = c
        BY <2>2, <3>2, <3>3, <3>4, <3>6, <4>1, <4>2 DEF Cut
      <4>3. CASE h.next[n] # c
        <5>2. n # h.prev[c]
          BY <1>3, <4>3 DEF Whole, WellLinked, IsRing, Linked, OwnerOf, DlNode
        <5> QED
          BY <2>2, <3>2, <4>1, <4>3, <5>2
      <4> QED
        BY <4>2, <4>3
    <3>10. g.owner[Sentinel] = "roots"
      BY <2>2, <3>3 DEF Cut
    <3> QED
      BY <3>8, <3>9, <3>10 DEF Cut
  <2> QED
    BY <2>1, <2>3, <2>4 DEF View
<1>4. s.fault = "none" => t.dl.owner = [s.dl.owner EXCEPT ![c] = ListOf("unallocated")]
  BY <1>1, <1>2 DEF ListOf
<1> QED
  BY <1>1, <1>3, <1>4 DEF Put

(* A cell that is on no list is put between two neighbours; whether the    *)
(* roots are still cut in two is left to show.                             *)
LEMMA PutBetween ==
    ASSUME NEW s \in Whole, NEW c \in Cell, NEW p \in DlNode, NEW q \in DlNode, NEW place \in Places,
           s.fault = "none" => AssertInsert(s.dl, p, c, q) /\ s.dl.owner[p] = ListOf(place),
           s.fault = "none" => \A ow : View(s, ow) =>
               Cut(dlnode_insert(s.dl, p, c, q), Ahead([ow EXCEPT ![c] = place]))
    PROVE  Put(s, InsertBetween(s, p, c, q), c, place)
<1> DEFINE t == InsertBetween(s, p, c, q)
<1> DEFINE h == s.dl
<1>0. c \in Node
  BY DEF Node
<1>1. /\ t \in Whole /\ SameData(s, t) /\ t.fault = s.fault
      /\ s.fault # "none" => t = s
      /\ s.fault = "none" => t.dl = dlnode_insert(h, p, c, q)
  BY <1>0, InsertIs
<1>2. s.fault = "none" => dlnode_insert(h, p, c, q).owner = [h.owner EXCEPT ![c] = ListOf(place)]
  <2> SUFFICES ASSUME s.fault = "none" PROVE dlnode_insert(h, p, c, q).owner = [h.owner EXCEPT ![c] = ListOf(place)]
    OBVIOUS
  <2>1. WellLinked(h) /\ AssertInsert(h, p, c, q) /\ h.owner[p] = ListOf(place)
    BY DEF Whole
  <2> HIDE DEF h
  <2>2. dlnode_insert(h, p, c, q).owner = [h.owner EXCEPT ![c] = h.owner[p]]
    BY <1>0, <2>1, Insertion
  <2> QED
    BY <2>1, <2>2
<1>3. ASSUME s.fault = "none", NEW ow, View(s, ow) PROVE View(t, [ow EXCEPT ![c] = place])
  <2> DEFINE ov == [ow EXCEPT ![c] = place]
  <2>1. ow \in [Cell -> Places] /\ ov \in [Cell -> Places]
    BY <1>3 DEF View
  <2>2. h.owner \in [DlNode -> AllLists \cup {NULL}] /\ Cell \subseteq DlNode
    BY DEF Whole, States, Dlists, DlNode
  <2>3. ASSUME NEW d \in Cell PROVE OwnerOf(t, d) = ListOf(ov[d])
    <3>1. t.dl.owner = [h.owner EXCEPT ![c] = ListOf(place)]
      BY <1>1, <1>2, <1>3
    <3> QED
      BY <1>3, <2>1, <2>2, <3>1 DEF View, OwnerOf
  <2>4. Cut(t.dl, Ahead(ov))
    BY <1>1, <1>3
  <2> QED
    BY <2>1, <2>3, <2>4 DEF View
<1> QED
  BY <1>1, <1>2, <1>3 DEF Put

(* The last neighbours of a list.                                          *)
LEMMA LastNeighbours ==
    ASSUME NEW s \in Whole, NEW l \in AllLists
    PROVE  /\ s.dl.prev[l] \in DlNode /\ l \in DlNode /\ s.dl.next[l] \in DlNode
           /\ Adjacent(s.dl, s.dl.prev[l], l) /\ s.dl.owner[s.dl.prev[l]] = l
           /\ s.dl.owner[s.dl.next[l]] = l
<1>1. WellLinked(s.dl) /\ l \in DlNode /\ l # NULL
  BY Names DEF Whole
<1>2. s.dl.owner[l] = l /\ l \in Linked(s.dl)
  BY <1>1 DEF WellLinked, IsRing, Linked
<1>3. /\ s.dl.prev[l] \in Linked(s.dl) /\ s.dl.next[l] \in Linked(s.dl)
      /\ s.dl.next[s.dl.prev[l]] = l /\ s.dl.owner[s.dl.next[s.dl.prev[l]]] = s.dl.owner[s.dl.prev[l]]
      /\ s.dl.owner[s.dl.next[l]] = s.dl.owner[l]
  BY <1>1, <1>2 DEF WellLinked, IsRing
<1> QED
  BY <1>1, <1>2, <1>3 DEF Adjacent, Linked

(* What the insertion of c makes of the lists that cut the roots.          *)
AfterInsertion(h, g, p, c, q, place, ow) ==
    /\ \A m \in DlNode : g.next[m] = IF m = c THEN q ELSE IF m = p THEN c ELSE h.next[m]
    /\ Cell \subseteq DlNode /\ Sentinel \in DlNode /\ "roots" \in DlNode
    /\ c # Sentinel /\ c # "roots" /\ Sentinel # "roots" /\ Sentinel \notin Cell /\ "roots" \notin Cell
    /\ g.owner[Sentinel] = "roots" /\ p # c /\ q # c
    /\ c \notin Ahead(ow) /\ c \notin Behind(h, Ahead(ow))
    /\ Ahead(ow) \subseteq Cell /\ Behind(h, Ahead(ow)) \subseteq Cell
    /\ Ahead([ow EXCEPT ![c] = place]) = IF place = "roots_unproc" THEN Ahead(ow) \cup {c} ELSE Ahead(ow)
    /\ Behind(g, Ahead([ow EXCEPT ![c] = place]))
         = IF place = "roots_proc" THEN Behind(h, Ahead(ow)) \cup {c} ELSE Behind(h, Ahead(ow))
    /\ \A m \in DlNode : h.owner[m] = "roots" =>
          m \in Ahead(ow) \cup Behind(h, Ahead(ow)) \cup {"roots", Sentinel}
    /\ \A m \in Ahead(ow) \cup Behind(h, Ahead(ow)) \cup {"roots", Sentinel} : h.owner[m] = "roots"

LEMMA CutAfterInsertion ==
    ASSUME NEW s \in Whole, NEW c \in Cell, NEW p \in DlNode, NEW q \in DlNode, NEW place \in Places,
           AssertInsert(s.dl, p, c, q), s.dl.owner[p] = ListOf(place), NEW ow, View(s, ow)
    PROVE  AfterInsertion(s.dl, dlnode_insert(s.dl, p, c, q), p, c, q, place, ow)
<1> DEFINE h == s.dl
<1> DEFINE g == dlnode_insert(h, p, c, q)
<1>1. /\ WellLinked(h) /\ c \in Node /\ AssertInsert(h, p, c, q) /\ h.owner[p] = ListOf(place)
      /\ Cut(h, Ahead(ow)) /\ \A d \in Cell : h.owner[d] = ListOf(ow[d])
      /\ ow \in [Cell -> Places] /\ h.owner \in [DlNode -> AllLists \cup {NULL}] /\ h.owner[c] = NULL
      /\ \A l \in AllLists : h.owner[l] = l
  BY DEF Whole, States, Dlists, Node, View, OwnerOf, AssertInsert, WellLinked, IsRing
<1> HIDE DEF h
<1>2. /\ g.owner = [h.owner EXCEPT ![c] = ListOf(place)] /\ p # c /\ q # c
      /\ \A m \in DlNode : g.next[m] = IF m = c THEN q ELSE IF m = p THEN c ELSE h.next[m]
  BY <1>1, Insertion
<1> HIDE DEF g
<1>3. /\ Cell \subseteq DlNode /\ Sentinel \in DlNode /\ "roots" \in DlNode
      /\ c # Sentinel /\ c # "roots" /\ Sentinel # "roots" /\ Sentinel \notin Cell /\ "roots" \notin Cell
  BY NodesAssumption, Names DEF DlNode, AllLists, Node
<1>4. g.owner[Sentinel] = "roots"
  BY <1>1, <1>2, <1>3 DEF Cut
<1>5. "roots" # NULL /\ \A pl \in Places : ListOf(pl) = "roots" <=> pl \in {"roots_unproc", "roots_proc"}
  BY Names DEF Places, ListOf, AllLists
<1>6. \A d \in Cell : d \in Ahead(ow) => h.owner[d] = "roots"
  BY <1>1, <1>5 DEF Ahead
<1>7. c \notin Ahead(ow) /\ c \notin Behind(h, Ahead(ow))
  BY <1>1, <1>5, <1>6 DEF Behind
<1>8. Ahead([ow EXCEPT ![c] = place]) = IF place = "roots_unproc" THEN Ahead(ow) \cup {c} ELSE Ahead(ow)
  BY <1>1, <1>7 DEF Ahead
<1>9. Behind(g, Ahead([ow EXCEPT ![c] = place]))
        = IF place = "roots_proc" THEN Behind(h, Ahead(ow)) \cup {c} ELSE Behind(h, Ahead(ow))
  <2> DEFINE B == Ahead([ow EXCEPT ![c] = place])
  <2>1. \A d \in Cell : d # c => g.owner[d] = h.owner[d] /\ (d \in B <=> d \in Ahead(ow))
    BY <1>1, <1>2, <1>3, <1>8
  <2>2. g.owner[c] = ListOf(place) /\ (c \in B <=> place = "roots_unproc")
    BY <1>1, <1>2, <1>3, <1>7, <1>8
  <2>3. c \in Behind(g, B) <=> place = "roots_proc"
    BY <1>5, <2>2 DEF Behind
  <2>4. \A d \in Cell : d # c => (d \in Behind(g, B) <=> d \in Behind(h, Ahead(ow)))
    BY <2>1 DEF Behind
  <2>5. Behind(g, B) \subseteq Cell /\ Behind(h, Ahead(ow)) \subseteq Cell
    BY DEF Behind
  <2> HIDE DEF B
  <2>6. Behind(g, B) = IF place = "roots_proc" THEN Behind(h, Ahead(ow)) \cup {c} ELSE Behind(h, Ahead(ow))
    BY <1>7, <2>3, <2>4, <2>5
  <2> QED
    BY <2>6 DEF B
<1>10. Ahead(ow) \subseteq Cell /\ Behind(h, Ahead(ow)) \subseteq Cell
  BY DEF Ahead, Behind
<1>11. \A m \in DlNode : h.owner[m] = "roots" => m \in Ahead(ow) \cup Behind(h, Ahead(ow)) \cup {"roots", Sentinel}
  BY <1>1, Names DEF Behind, Node
<1>12. \A m \in Ahead(ow) \cup Behind(h, Ahead(ow)) \cup {"roots", Sentinel} : h.owner[m] = "roots"
  BY <1>1, <1>6 DEF Cut, Ahead, Behind, AllLists
<1> QED
  BY <1>2, <1>3, <1>4, <1>7, <1>8, <1>9, <1>10, <1>11, <1>12 DEF h, g, AfterInsertion

(* At the end of a list.                                                   *)
LEMMA PutLast ==
    ASSUME NEW s \in Whole, NEW c \in Cell, NEW l \in AllLists \ {"roots"},
           s.fault = "none" => OwnerOf(s, c) = NULL
    PROVE  Put(s, InsertLast(s, l, c), c, l)
<1> DEFINE h == s.dl
<1> DEFINE p == h.prev[l]
<1>1. /\ p \in DlNode /\ l \in DlNode /\ l \in Places /\ ListOf(l) = l
      /\ Adjacent(h, p, l) /\ h.owner[p] = l
  BY LastNeighbours DEF AllLists, Colors, Places, ListOf
<1>2. s.fault = "none" => AssertInsert(h, p, c, l) /\ h.owner[p] = ListOf(l)
  BY <1>1 DEF AssertInsert, OwnerOf
<1>3. ASSUME s.fault = "none", NEW ow, View(s, ow)
      PROVE  Cut(dlnode_insert(h, p, c, l), Ahead([ow EXCEPT ![c] = l]))
  <2> DEFINE g == dlnode_insert(h, p, c, l)
  <2>1. /\ \A m \in DlNode : g.next[m] = IF m = c THEN l ELSE IF m = p THEN c ELSE h.next[m]
        /\ Cell \subseteq DlNode /\ Sentinel \in DlNode /\ "roots" \in DlNode
        /\ c # Sentinel /\ c # "roots"
        /\ g.owner[Sentinel] = "roots"
        /\ c \notin Ahead(ow) /\ c \notin Behind(h, Ahead(ow))
        /\ Ahead(ow) \subseteq Cell /\ Behind(h, Ahead(ow)) \subseteq Cell
        /\ Ahead([ow EXCEPT ![c] = l]) = Ahead(ow)
        /\ Behind(g, Ahead([ow EXCEPT ![c] = l])) = Behind(h, Ahead(ow))
        /\ \A m \in Ahead(ow) \cup Behind(h, Ahead(ow)) \cup {"roots", Sentinel} : h.owner[m] = "roots"
    <3>1. l # "roots_unproc" /\ l # "roots_proc"
      BY DEF AllLists, Colors
    <3>2. AssertInsert(s.dl, p, c, l) /\ s.dl.owner[p] = ListOf(l)
      BY <1>2, <1>3
    <3> HIDE DEF p
    <3>3. AfterInsertion(s.dl, dlnode_insert(s.dl, p, c, l), p, c, l, l, ow)
      BY <1>1, <1>3, <3>2, CutAfterInsertion
    <3> QED
      BY <3>1, <3>3 DEF AfterInsertion
  <2>2. Cut(h, Ahead(ow))
    BY <1>3 DEF View
  <2> HIDE DEF g, h
  <2>3. p \notin Ahead(ow) \cup Behind(h, Ahead(ow)) \cup {"roots", Sentinel}
    BY <1>1, <2>1
  <2>4. \A m \in Ahead(ow) \cup Behind(h, Ahead(ow)) \cup {"roots", Sentinel} : g.next[m] = h.next[m]
    <3> HIDE DEF p
    <3> QED
      BY <2>1, <2>3
  <2> QED
    BY <2>1, <2>2, <2>4 DEF Cut, g
<1>4. Put(s, InsertBetween(s, p, c, l), c, l)
  <2> HIDE DEF p
  <2> QED
    BY <1>1, <1>2, <1>3, PutBetween
<1> QED
  BY <1>4 DEF InsertLast

(* Before the sentinel, and behind it.                                     *)
LEMMA PutRootsUnproc ==
    ASSUME NEW s \in Whole, NEW c \in Cell,
           s.fault = "none" => OwnerOf(s, c) = NULL /\ OwnerOf(s, Sentinel) = "roots"
    PROVE  s.fault = "none" => Put(s, memcell_to_roots_unproc(s, c), c, "roots_unproc")
<1> SUFFICES ASSUME s.fault = "none" PROVE Put(s, memcell_to_roots_unproc(s, c), c, "roots_unproc")
  OBVIOUS
<1> DEFINE h == s.dl
<1> DEFINE p == h.prev[Sentinel]
<1>1. /\ p \in DlNode /\ Sentinel \in DlNode /\ "roots_unproc" \in Places /\ ListOf("roots_unproc") = "roots"
      /\ Adjacent(h, p, Sentinel) /\ h.owner[p] = "roots"
  <2>1. WellLinked(h) /\ Sentinel \in DlNode /\ h.owner[Sentinel] = "roots" /\ "roots" # NULL
    BY Names DEF Whole, OwnerOf, AllLists, Node
  <2>2. Sentinel \in Linked(h)
    BY <2>1 DEF Linked
  <2>3. p \in Linked(h) /\ h.next[p] = Sentinel /\ h.owner[h.next[p]] = h.owner[p]
    BY <2>1, <2>2 DEF WellLinked, IsRing
  <2> QED
    BY <2>1, <2>3 DEF Linked, Adjacent, Places, ListOf
<1>2. AssertInsert(h, p, c, Sentinel) /\ h.owner[p] = ListOf("roots_unproc")
  BY <1>1 DEF AssertInsert, OwnerOf
<1>3. ASSUME NEW ow, View(s, ow)
      PROVE  Cut(dlnode_insert(h, p, c, Sentinel), Ahead([ow EXCEPT ![c] = "roots_unproc"]))
  <2> DEFINE g == dlnode_insert(h, p, c, Sentinel)
  <2>1. AfterInsertion(h, g, p, c, Sentinel, "roots_unproc", ow)
    <3>1. AssertInsert(s.dl, p, c, Sentinel) /\ s.dl.owner[p] = ListOf("roots_unproc")
      BY <1>2
    <3> HIDE DEF p
    <3> QED
      BY <1>1, <1>3, <3>1, CutAfterInsertion
  <2>2. Cut(h, Ahead(ow)) /\ h.next[p] = Sentinel /\ h.owner[p] = "roots" /\ p \in DlNode
    BY <1>1, <1>3 DEF View, Adjacent
  <2> HIDE DEF g, h, p
  <2>3. p \in Ahead(ow) \cup {"roots"}
    BY <2>1, <2>2 DEF AfterInsertion, Cut
  <2>4. p \notin Behind(h, Ahead(ow)) \cup {Sentinel}
    BY <2>1, <2>2 DEF AfterInsertion, Cut
  <2> DEFINE A == Ahead(ow)
  <2> DEFINE D == Behind(h, A)
  <2>5. /\ \A m \in DlNode : g.next[m] = IF m = c THEN Sentinel ELSE IF m = p THEN c ELSE h.next[m]
        /\ A \subseteq DlNode /\ D \subseteq DlNode /\ c \notin A /\ c \notin D
        /\ c \in DlNode /\ Sentinel \in DlNode /\ "roots" \in DlNode /\ c # Sentinel /\ c # "roots" /\ p # c
        /\ p \in A \cup {"roots"} /\ p \notin D \cup {Sentinel}
        /\ \A n \in A \cup {"roots"} : h.next[n] \in A \cup {Sentinel}
        /\ \A n \in D \cup {Sentinel} : h.next[n] \in D \cup {"roots"}
    BY <2>1, <2>2, <2>3, <2>4 DEF AfterInsertion, Cut
  <2>6. /\ Ahead([ow EXCEPT ![c] = "roots_unproc"]) = A \cup {c}
        /\ Behind(g, Ahead([ow EXCEPT ![c] = "roots_unproc"])) = D /\ g.owner[Sentinel] = "roots"
    BY <2>1 DEF AfterInsertion
  <2> HIDE DEF A, D
  <2>7. \A n \in A \cup {c} \cup {"roots"} : g.next[n] \in A \cup {c} \cup {Sentinel}
    BY <2>5
  <2>8. \A n \in D \cup {Sentinel} : g.next[n] \in D \cup {"roots"}
    BY <2>5
  <2>9. Cut(g, Ahead([ow EXCEPT ![c] = "roots_unproc"]))
    BY <2>6, <2>7, <2>8 DEF Cut
  <2> QED
    BY <2>9 DEF g
<1>4. Put(s, InsertBetween(s, p, c, Sentinel), c, "roots_unproc")
  <2>1. "roots_unproc" \in Places /\ p \in DlNode /\ Sentinel \in DlNode
    BY <1>1
  <2>2. AssertInsert(s.dl, p, c, Sentinel) /\ s.dl.owner[p] = ListOf("roots_unproc")
    BY <1>2
  <2>3. \A ow : View(s, ow) => Cut(dlnode_insert(s.dl, p, c, Sentinel), Ahead([ow EXCEPT ![c] = "roots_unproc"]))
    BY <1>3
  <2> HIDE DEF p
  <2> QED
    BY <2>1, <2>2, <2>3, PutBetween
<1> QED
  BY <1>4 DEF memcell_to_roots_unproc

LEMMA PutRootsProc ==
    ASSUME NEW s \in Whole, NEW c \in Cell,
           s.fault = "none" => OwnerOf(s, c) = NULL /\ OwnerOf(s, Sentinel) = "roots"
    PROVE  s.fault = "none" => Put(s, memcell_to_roots_proc(s, c), c, "roots_proc")
<1> SUFFICES ASSUME s.fault = "none" PROVE Put(s, memcell_to_roots_proc(s, c), c, "roots_proc")
  OBVIOUS
<1> DEFINE h == s.dl
<1> DEFINE q == h.next[Sentinel]
<1>1. /\ q \in DlNode /\ Sentinel \in DlNode /\ "roots_proc" \in Places /\ ListOf("roots_proc") = "roots"
      /\ Adjacent(h, Sentinel, q) /\ h.owner[Sentinel] = "roots"
  <2>1. WellLinked(h) /\ Sentinel \in DlNode /\ h.owner[Sentinel] = "roots" /\ "roots" # NULL
    BY Names DEF Whole, OwnerOf, AllLists, Node
  <2>2. Sentinel \in Linked(h)
    BY <2>1 DEF Linked
  <2>3. q \in Linked(h) /\ h.prev[q] = Sentinel /\ h.owner[q] = h.owner[Sentinel]
    BY <2>1, <2>2 DEF WellLinked, IsRing
  <2> QED
    BY <2>1, <2>3 DEF Linked, Adjacent, Places, ListOf
<1>2. AssertInsert(h, Sentinel, c, q) /\ h.owner[Sentinel] = ListOf("roots_proc")
  BY <1>1 DEF AssertInsert, OwnerOf
<1>3. ASSUME NEW ow, View(s, ow)
      PROVE  Cut(dlnode_insert(h, Sentinel, c, q), Ahead([ow EXCEPT ![c] = "roots_proc"]))
  <2> DEFINE g == dlnode_insert(h, Sentinel, c, q)
  <2>1. AfterInsertion(h, g, Sentinel, c, q, "roots_proc", ow)
    <3>1. AssertInsert(s.dl, Sentinel, c, q) /\ s.dl.owner[Sentinel] = ListOf("roots_proc")
      BY <1>2
    <3> HIDE DEF q
    <3> QED
      BY <1>1, <1>3, <3>1, CutAfterInsertion
  <2>2. Cut(h, Ahead(ow)) /\ h.next[Sentinel] = q
    BY <1>3 DEF View
  <2> HIDE DEF g, h, q
  <2> DEFINE A == Ahead(ow)
  <2> DEFINE D == Behind(h, A)
  <2>5. /\ \A m \in DlNode : g.next[m] = IF m = c THEN q ELSE IF m = Sentinel THEN c ELSE h.next[m]
        /\ A \subseteq DlNode /\ D \subseteq DlNode /\ c \notin A /\ c \notin D
        /\ c \in DlNode /\ Sentinel \in DlNode /\ "roots" \in DlNode /\ c # Sentinel /\ c # "roots"
        /\ Sentinel # "roots" /\ Sentinel \notin A /\ Sentinel \notin D
        /\ \A n \in A \cup {"roots"} : h.next[n] \in A \cup {Sentinel}
        /\ \A n \in D \cup {Sentinel} : h.next[n] \in D \cup {"roots"}
    BY <2>1, <2>2 DEF AfterInsertion, Cut
  <2>6. /\ Ahead([ow EXCEPT ![c] = "roots_proc"]) = A
        /\ Behind(g, Ahead([ow EXCEPT ![c] = "roots_proc"])) = D \cup {c} /\ g.owner[Sentinel] = "roots"
    BY <2>1 DEF AfterInsertion
  <2> HIDE DEF A, D
  <2>7. \A n \in A \cup {"roots"} : g.next[n] \in A \cup {Sentinel}
    BY <2>5
  <2>8. \A n \in D \cup {c} \cup {Sentinel} : g.next[n] \in D \cup {c} \cup {"roots"}
    BY <2>2, <2>5
  <2>9. Cut(g, Ahead([ow EXCEPT ![c] = "roots_proc"]))
    BY <2>6, <2>7, <2>8 DEF Cut
  <2> QED
    BY <2>9 DEF g
<1>4. Put(s, InsertBetween(s, Sentinel, c, q), c, "roots_proc")
  <2>1. "roots_proc" \in Places /\ q \in DlNode /\ Sentinel \in DlNode
    BY <1>1
  <2>2. AssertInsert(s.dl, Sentinel, c, q) /\ s.dl.owner[Sentinel] = ListOf("roots_proc")
    BY <1>2
  <2>3. \A ow : View(s, ow) => Cut(dlnode_insert(s.dl, Sentinel, c, q), Ahead([ow EXCEPT ![c] = "roots_proc"]))
    BY <1>3
  <2> HIDE DEF q
  <2> QED
    BY <2>1, <2>2, <2>3, PutBetween
<1> QED
  BY <1>4 DEF memcell_to_roots_proc

-----------------------------------------------------------------------------
(* The calls, one by one.                                                  *)
LEMMA MoveLast ==
    ASSUME NEW s \in Whole, NEW c \in Cell, NEW l \in AllLists \ {"roots"},
           s.fault = "none" => OwnerOf(s, c) # NULL
    PROVE  Put(s, InsertLast(Unlink(s, c), l, c), c, l)
<1> DEFINE t == Unlink(s, c)
<1>1. Put(s, t, c, "unallocated")
  BY PutUnlink
<1>2. t \in Whole /\ (t.fault = "none" => OwnerOf(t, c) = NULL)
  BY <1>1 DEF Put, OwnerOf, ListOf, Whole, States, Dlists, DlNode
<1> HIDE DEF t
<1>3. Put(t, InsertLast(t, l, c), c, l)
  BY <1>2, PutLast
<1>4. Put(s, InsertLast(t, l, c), c, l)
  BY <1>1, <1>3, PutTwice
<1> QED
  BY <1>4 DEF t

LEMMA MoveRootsUnproc ==
    ASSUME NEW s \in Whole, NEW c \in Cell, s.fault = "none",
           OwnerOf(s, c) # NULL, OwnerOf(s, Sentinel) = "roots"
    PROVE  Put(s, memcell_to_roots_unproc(Unlink(s, c), c), c, "roots_unproc")
<1> DEFINE t == Unlink(s, c)
<1>1. Put(s, t, c, "unallocated")
  BY PutUnlink
<1>2. t \in Whole /\ t.fault = "none" /\ OwnerOf(t, c) = NULL /\ OwnerOf(t, Sentinel) = "roots"
  BY <1>1, Names, NodesAssumption DEF Put, OwnerOf, ListOf, Whole, States, Dlists, DlNode
<1> HIDE DEF t
<1>3. Put(t, memcell_to_roots_unproc(t, c), c, "roots_unproc")
  BY <1>2, PutRootsUnproc
<1>4. Put(s, memcell_to_roots_unproc(t, c), c, "roots_unproc")
  BY <1>1, <1>3, PutTwice
<1> QED
  BY <1>4 DEF t

LEMMA MoveRootsProc ==
    ASSUME NEW s \in Whole, NEW c \in Cell, s.fault = "none",
           OwnerOf(s, c) # NULL, OwnerOf(s, Sentinel) = "roots"
    PROVE  Put(s, memcell_to_roots_proc(Unlink(s, c), c), c, "roots_proc")
<1> DEFINE t == Unlink(s, c)
<1>1. Put(s, t, c, "unallocated")
  BY PutUnlink
<1>2. t \in Whole /\ t.fault = "none" /\ OwnerOf(t, c) = NULL /\ OwnerOf(t, Sentinel) = "roots"
  BY <1>1, Names, NodesAssumption DEF Put, OwnerOf, ListOf, Whole, States, Dlists, DlNode
<1> HIDE DEF t
<1>3. Put(t, memcell_to_roots_proc(t, c), c, "roots_proc")
  BY <1>2, PutRootsProc
<1>4. Put(s, memcell_to_roots_proc(t, c), c, "roots_proc")
  BY <1>1, <1>3, PutTwice
<1> QED
  BY <1>4 DEF t

(* The sentinel stays where it is while cells move.                        *)
LEMMA PutElsewhere ==
    ASSUME NEW s \in Whole, NEW t, NEW c \in Cell, NEW place, Put(s, t, c, place), s.fault = "none"
    PROVE  \A n \in Node : OwnerOf(t, n) = IF n = c THEN ListOf(place) ELSE OwnerOf(s, n)
BY DEF Put, OwnerOf, Whole, States, Dlists, DlNode, Node

(* t is s, or has the fault that an assert leaves, if it does not hold.    *)
Faulted(s, t, line) ==
    /\ t \in Whole /\ SameData(s, t) /\ t.dl = s.dl
    /\ t.fault \in {s.fault, line} /\ (s.fault # "none" => t.fault = s.fault)

LEMMA FaultIs ==
    ASSUME NEW s \in Whole, s.fault = "none", NEW line \in Faults, line # "none"
    PROVE  Faulted(s, [s EXCEPT !.fault = line], line) /\ [s EXCEPT !.fault = line].fault # "none"
BY DEF Faulted, Whole, States, SameData

(* A link is made.                                                         *)
NewLinkMoves(s, y) == y # NULL /\ OwnerOf(s, y) = Unproc(s)
AfterNewLink(s, y, t) ==
    /\ t \in Whole
    /\ t.fault \in {s.fault, "memory.c:431", "memory.c:432"}
    /\ s.fault # "none" => t.fault = s.fault
    /\ t.refcount = IF y = NULL THEN s.refcount ELSE [s.refcount EXCEPT ![y] = @ + 1]
    /\ t.reachable = s.reachable /\ t.locked = s.locked /\ t.live = s.live /\ t.fin = s.fin
    /\ t.finalized = s.finalized /\ t.total_alloc = s.total_alloc /\ t.total_free = s.total_free
    /\ t.clean_cycles = s.clean_cycles
    /\ t.fault = "none" =>
         /\ y # NULL => y \in s.live /\ OwnerOf(s, y) # "free_pending"
         /\ t.dl.owner = IF NewLinkMoves(s, y) THEN [s.dl.owner EXCEPT ![y] = "boundary"] ELSE s.dl.owner
         /\ \A ow : View(s, ow) =>
               View(t, IF NewLinkMoves(s, y) THEN [ow EXCEPT ![y] = "boundary"] ELSE ow)

LEMMA NewLinkIs ==
    ASSUME NEW s \in Whole, NEW y \in Cell \cup {NULL}
    PROVE  AfterNewLink(s, y, memory_gc_advise_new_link(s, y))
<1>1. CASE y = NULL
  BY <1>1 DEF AfterNewLink, NewLinkMoves, memory_gc_advise_new_link
<1>2. CASE y # NULL
  <2> DEFINE u == [s EXCEPT !.refcount[y] = @ + 1]
  <2> DEFINE v == Check(u, y \in s.live, "memory.c:431")
  <2> DEFINE w == Check(v, OwnerOf(s, y) # "free_pending", "memory.c:432")
  <2> DEFINE moves == OwnerOf(s, y) = Unproc(s)
  <2> DEFINE t == IF moves THEN memcell_to_boundary(Unlink(w, y), y) ELSE w
  <2>1. memory_gc_advise_new_link(s, y) = t /\ y \in Cell
    BY <1>2 DEF memory_gc_advise_new_link, OwnerOf
  <2>2. /\ u \in Whole /\ u.dl = s.dl /\ u.fault = s.fault
        /\ u.refcount = [s.refcount EXCEPT ![y] = @ + 1]
        /\ u.reachable = s.reachable /\ u.locked = s.locked /\ u.live = s.live /\ u.fin = s.fin
        /\ u.finalized = s.finalized /\ u.total_alloc = s.total_alloc /\ u.total_free = s.total_free
        /\ u.clean_cycles = s.clean_cycles
    BY <2>1 DEF Whole, States
  <2> HIDE DEF u
  <2>3. /\ v \in Whole /\ SameData(u, v) /\ v.dl = s.dl
        /\ v.fault \in {s.fault, "memory.c:431"} /\ (s.fault # "none" => v.fault = s.fault)
        /\ v.fault = "none" => s.fault = "none" /\ y \in s.live
    <3>1. "memory.c:431" \in Faults /\ "memory.c:431" # "none"
      BY DEF Faults
    <3>2. CASE u.fault = "none" /\ y \notin s.live
      <4>1. v = [u EXCEPT !.fault = "memory.c:431"]
        BY <3>2 DEF Check
      <4> HIDE DEF v, w, t, moves
      <4>2. u \in Whole /\ u.fault = "none"
        BY <2>2, <3>2
      <4>3. /\ Faulted(u, [u EXCEPT !.fault = "memory.c:431"], "memory.c:431")
            /\ [u EXCEPT !.fault = "memory.c:431"].fault # "none"
        BY <3>1, <4>2, FaultIs
      <4>4. Faulted(u, v, "memory.c:431") /\ v.fault # "none"
        BY <4>1, <4>3
      <4> QED
        BY <2>2, <4>2, <4>4 DEF Faulted
    <3>3. CASE ~(u.fault = "none" /\ y \notin s.live)
      <4>1. v = u
        BY <3>3 DEF Check
      <4> QED
        BY <2>2, <3>3, <4>1 DEF SameData
    <3> QED
      BY <3>2, <3>3
  <2> HIDE DEF v
  <2>4. /\ w \in Whole /\ SameData(v, w) /\ w.dl = s.dl
        /\ w.fault \in {s.fault, "memory.c:431", "memory.c:432"} /\ (s.fault # "none" => w.fault = s.fault)
        /\ w.fault = "none" => s.fault = "none" /\ y \in s.live /\ OwnerOf(s, y) # "free_pending"
    <3>1. "memory.c:432" \in Faults /\ "memory.c:432" # "none"
      BY DEF Faults
    <3>2. CASE v.fault = "none" /\ OwnerOf(s, y) = "free_pending"
      <4>1. w = [v EXCEPT !.fault = "memory.c:432"]
        BY <3>2 DEF Check
      <4> HIDE DEF w, t, moves
      <4>2. v \in Whole /\ v.fault = "none"
        BY <2>3, <3>2
      <4>3. /\ Faulted(v, [v EXCEPT !.fault = "memory.c:432"], "memory.c:432")
            /\ [v EXCEPT !.fault = "memory.c:432"].fault # "none"
        BY <3>1, <4>2, FaultIs
      <4>4. Faulted(v, w, "memory.c:432") /\ w.fault # "none"
        BY <4>1, <4>3
      <4> QED
        BY <2>3, <4>2, <4>4 DEF Faulted
    <3>3. CASE ~(v.fault = "none" /\ OwnerOf(s, y) = "free_pending")
      <4>1. w = v
        BY <3>3 DEF Check
      <4> QED
        BY <2>3, <3>3, <4>1 DEF SameData
    <3> QED
      BY <3>2, <3>3
  <2> HIDE DEF w
  <2>5. CASE ~moves
    <3>1. \A ow : View(s, ow) => View(w, ow)
      BY <2>4 DEF View, OwnerOf
    <3> QED
      BY <1>2, <2>1, <2>2, <2>3, <2>4, <2>5, <3>1 DEF AfterNewLink, NewLinkMoves, SameData
  <2>6. CASE moves
    <3>1. w.fault = "none" => OwnerOf(w, y) # NULL
      BY <2>4, <2>6, Names DEF OwnerOf, Unproc, OtherColor, AllLists, Colors
    <3>2. Put(w, InsertLast(Unlink(w, y), "boundary", y), y, "boundary")
      BY <2>1, <2>4, <3>1, MoveLast DEF AllLists
    <3>3. t = InsertLast(Unlink(w, y), "boundary", y)
      BY <2>6 DEF memcell_to_boundary
    <3> HIDE DEF t
    <3>4. \A ow : View(s, ow) => View(w, ow)
      BY <2>4 DEF View, OwnerOf
    <3>5. /\ t \in Whole /\ SameData(w, t) /\ t.fault = w.fault
          /\ w.fault = "none" => t.dl.owner = [w.dl.owner EXCEPT ![y] = "boundary"]
          /\ w.fault = "none" => \A ow : View(w, ow) => View(t, [ow EXCEPT ![y] = "boundary"])
      BY <3>2, <3>3 DEF Put, ListOf
    <3> QED
      BY <1>2, <2>1, <2>2, <2>3, <2>4, <2>6, <3>4, <3>5 DEF AfterNewLink, NewLinkMoves, SameData
  <2> QED
    BY <2>5, <2>6
<1> QED
  BY <1>1, <1>2

(* A link goes away.                                                       *)
StaleCounts(s, y) == y # NULL /\ s.refcount[y] # 0
StaleMoves(s, y) == y # NULL /\ s.refcount[y] = 1 /\ y \notin s.locked /\ y \in s.live
AfterStaleLink(s, y, t) ==
    /\ t \in Whole
    /\ t.fault \in {s.fault, "memory.c:465"}
    /\ s.fault # "none" => t.fault = s.fault
    /\ t.refcount = IF StaleCounts(s, y) THEN [s.refcount EXCEPT ![y] = @ - 1] ELSE s.refcount
    /\ t.reachable = s.reachable /\ t.locked = s.locked /\ t.live = s.live /\ t.fin = s.fin
    /\ t.finalized = s.finalized /\ t.total_alloc = s.total_alloc /\ t.total_free = s.total_free
    /\ t.clean_cycles = IF y = NULL THEN s.clean_cycles ELSE 0
    /\ t.fault = "none" =>
         /\ y # NULL /\ s.refcount[y] = 0 => OwnerOf(s, y) = "free_pending" \/ y \notin s.live
         /\ t.dl.owner = IF StaleMoves(s, y) THEN [s.dl.owner EXCEPT ![y] = "free_pending"] ELSE s.dl.owner
         /\ \A ow : View(s, ow) =>
               View(t, IF StaleMoves(s, y) THEN [ow EXCEPT ![y] = "free_pending"] ELSE ow)

LEMMA StaleLinkIs ==
    ASSUME NEW s \in Whole, NEW y \in Cell \cup {NULL},
           s.fault = "none" => \A c \in s.live : OwnerOf(s, c) # NULL
    PROVE  AfterStaleLink(s, y, memory_gc_advise_stale_link(s, y))
<1>1. CASE y = NULL
  BY <1>1 DEF AfterStaleLink, StaleCounts, StaleMoves, memory_gc_advise_stale_link
<1>2. CASE y # NULL
  <2> DEFINE u == [s EXCEPT !.clean_cycles = 0]
  <2> DEFINE v == [u EXCEPT !.refcount[y] = @ - 1]
  <2> DEFINE t == memory_gc_advise_stale_link(s, y)
  <2>1. y \in Cell /\ s.refcount \in [Cell -> Nat]
    BY <1>2 DEF Whole, States
  <2>2. /\ u \in Whole /\ u.dl = s.dl /\ u.fault = s.fault /\ u.refcount = s.refcount
        /\ u.reachable = s.reachable /\ u.locked = s.locked /\ u.live = s.live /\ u.fin = s.fin
        /\ u.finalized = s.finalized /\ u.total_alloc = s.total_alloc /\ u.total_free = s.total_free
        /\ u.clean_cycles = 0
    BY DEF Whole, States
  <2>3. s.refcount[y] # 0 =>
        /\ v \in Whole /\ v.dl = s.dl /\ v.fault = s.fault /\ v.refcount = [s.refcount EXCEPT ![y] = @ - 1]
        /\ v.reachable = s.reachable /\ v.locked = s.locked /\ v.live = s.live /\ v.fin = s.fin
        /\ v.finalized = s.finalized /\ v.total_alloc = s.total_alloc /\ v.total_free = s.total_free
        /\ v.clean_cycles = 0 /\ (v.refcount[y] = 0 <=> s.refcount[y] = 1)
    <3> SUFFICES ASSUME s.refcount[y] # 0
                 PROVE  /\ v \in Whole /\ v.dl = s.dl /\ v.fault = s.fault
                        /\ v.refcount = [s.refcount EXCEPT ![y] = @ - 1]
                        /\ v.reachable = s.reachable /\ v.locked = s.locked /\ v.live = s.live /\ v.fin = s.fin
                        /\ v.finalized = s.finalized /\ v.total_alloc = s.total_alloc
                        /\ v.total_free = s.total_free
                        /\ v.clean_cycles = 0 /\ (v.refcount[y] = 0 <=> s.refcount[y] = 1)
      OBVIOUS
    <3>1. s.refcount[y] \in Nat /\ s.refcount[y] - 1 \in Nat
      BY <2>1
    <3>2. v.refcount = [s.refcount EXCEPT ![y] = @ - 1] /\ v.refcount[y] = s.refcount[y] - 1
      BY <2>1, <2>2 DEF Whole, States
    <3>3. [s.refcount EXCEPT ![y] = @ - 1] \in [Cell -> Nat]
      BY <2>1, <3>1
    <3> HIDE DEF u
    <3>4. v \in Whole
      BY <2>1, <2>2, <3>2, <3>3 DEF Whole, States
    <3>5. /\ v.dl = u.dl /\ v.fault = u.fault
          /\ v.reachable = u.reachable /\ v.locked = u.locked /\ v.live = u.live /\ v.fin = u.fin
          /\ v.finalized = u.finalized /\ v.total_alloc = u.total_alloc
          /\ v.total_free = u.total_free /\ v.clean_cycles = u.clean_cycles
      BY <2>2 DEF Whole, States
    <3> QED
      BY <2>2, <3>1, <3>2, <3>4, <3>5
  <2> HIDE DEF u
  <2>4. CASE s.refcount[y] = 0
    <3>1. t = Check(u, OwnerOf(s, y) = "free_pending" \/ y \notin s.live, "memory.c:465")
      BY <1>2, <2>4 DEF memory_gc_advise_stale_link, u
    <3>2. "memory.c:465" \in Faults /\ "memory.c:465" # "none"
      BY DEF Faults
    <3> HIDE DEF t
    <3>3. \A ow : View(s, ow) => View(u, ow)
      BY <2>2 DEF View, OwnerOf
    <3>4. CASE u.fault = "none" /\ ~(OwnerOf(s, y) = "free_pending" \/ y \notin s.live)
      <4>1. t = [u EXCEPT !.fault = "memory.c:465"]
        BY <3>1, <3>4 DEF Check
      <4>2. Faulted(u, t, "memory.c:465") /\ t.fault # "none"
        BY <2>2, <3>2, <3>4, <4>1, FaultIs
      <4> QED
        BY <1>2, <2>2, <2>4, <3>4, <4>2 DEF AfterStaleLink, StaleCounts, StaleMoves, Faulted, SameData, t
    <3>5. CASE ~(u.fault = "none" /\ ~(OwnerOf(s, y) = "free_pending" \/ y \notin s.live))
      <4>1. t = u
        BY <3>1, <3>5 DEF Check
      <4> QED
        BY <1>2, <2>2, <2>4, <3>3, <3>5, <4>1 DEF AfterStaleLink, StaleCounts, StaleMoves, t
    <3> QED
      BY <3>4, <3>5
  <2>5. CASE s.refcount[y] # 0 /\ ~StaleMoves(s, y)
    <3>1. t = v
      BY <1>2, <2>3, <2>5 DEF memory_gc_advise_stale_link, StaleMoves, u
    <3> HIDE DEF t, v
    <3>2. \A ow : View(s, ow) => View(v, ow)
      BY <2>3, <2>5 DEF View, OwnerOf
    <3> QED
      BY <1>2, <2>3, <2>5, <3>1, <3>2 DEF AfterStaleLink, StaleCounts, t
  <2>6. CASE s.refcount[y] # 0 /\ StaleMoves(s, y)
    <3>1. t = InsertLast(Unlink(v, y), "free_pending", y)
      BY <1>2, <2>3, <2>6 DEF memory_gc_advise_stale_link, StaleMoves, u, memcell_to_free_pending
    <3> HIDE DEF t, v
    <3>2. \A ow : View(s, ow) => View(v, ow)
      BY <2>3, <2>6 DEF View, OwnerOf
    <3>3. v.fault = "none" => OwnerOf(v, y) # NULL
      BY <2>3, <2>6 DEF StaleMoves, OwnerOf
    <3>4. Put(v, InsertLast(Unlink(v, y), "free_pending", y), y, "free_pending")
      BY <2>1, <2>3, <2>6, <3>3, MoveLast DEF AllLists
    <3>5. /\ t \in Whole /\ SameData(v, t) /\ t.fault = v.fault
          /\ v.fault = "none" => t.dl.owner = [v.dl.owner EXCEPT ![y] = "free_pending"]
          /\ v.fault = "none" => \A ow : View(v, ow) => View(t, [ow EXCEPT ![y] = "free_pending"])
      BY <3>1, <3>4 DEF Put, ListOf
    <3> QED
      BY <1>2, <2>3, <2>6, <3>2, <3>5 DEF AfterStaleLink, StaleCounts, SameData, t
  <2> QED
    BY <2>4, <2>5, <2>6
<1> QED
  BY <1>1, <1>2

(* A link is traced.                                                       *)
TraceMoves(s, y) ==
    y # NULL /\ (OwnerOf(s, y) = Unproc(s) \/ (OwnerOf(s, y) = "roots" /\ y \notin s.locked))
AfterTrace(s, y, t) ==
    /\ t \in Whole /\ SameData(s, t)
    /\ t.fault \in {s.fault, "memory.c:519", "memory.c:520", "memory.c:522"}
    /\ s.fault # "none" => t.fault = s.fault
    /\ t.fault = "none" =>
         /\ y # NULL => y \in s.live /\ OwnerOf(s, y) # "free_pending" /\ s.refcount[y] # 0
         /\ t.dl.owner = IF TraceMoves(s, y) THEN [s.dl.owner EXCEPT ![y] = "boundary"] ELSE s.dl.owner
         /\ \A ow : View(s, ow) =>
               View(t, IF TraceMoves(s, y) THEN [ow EXCEPT ![y] = "boundary"] ELSE ow)

LEMMA TraceIs ==
    ASSUME NEW s \in Whole, NEW y \in Cell \cup {NULL}
    PROVE  AfterTrace(s, y, dl_cb_try_move_boundary(s, y))
<1>1. CASE y = NULL
  BY <1>1 DEF AfterTrace, TraceMoves, dl_cb_try_move_boundary, SameData
<1>2. CASE y # NULL
  <2> DEFINE A == y \in s.live
  <2> DEFINE B == OwnerOf(s, y) # "free_pending"
  <2> DEFINE C == s.refcount[y] # 0
  <2> DEFINE w == Check(Check(Check(s, A, "memory.c:519"), B, "memory.c:520"), C, "memory.c:522")
  <2> DEFINE t == IF TraceMoves(s, y) THEN memcell_to_boundary(Unlink(w, y), y) ELSE w
  <2>1. dl_cb_try_move_boundary(s, y) = t /\ y \in Cell
    BY <1>2 DEF dl_cb_try_move_boundary, TraceMoves
  <2>2. /\ w \in Whole /\ SameData(s, w) /\ w.dl = s.dl
        /\ w.fault \in {s.fault, "memory.c:519", "memory.c:520", "memory.c:522"}
        /\ s.fault # "none" => w.fault = s.fault
        /\ w.fault = "none" => s.fault = "none" /\ A /\ B /\ C
    <3>0. {"memory.c:519", "memory.c:520", "memory.c:522"} \subseteq Faults \ {"none"}
      BY DEF Faults
    <3>1. CASE s.fault # "none" \/ (A /\ B /\ C)
      <4>1. w = s
        BY <3>1 DEF Check
      <4> QED
        BY <3>1, <4>1 DEF SameData
    <3>2. CASE s.fault = "none" /\ ~A
      <4> DEFINE f == [s EXCEPT !.fault = "memory.c:519"]
      <4>1. Faulted(s, f, "memory.c:519") /\ f.fault # "none"
        BY <3>0, <3>2, FaultIs
      <4>2. w = f
        BY <3>2, <4>1 DEF Check
      <4> QED
        BY <3>2, <4>1, <4>2 DEF Faulted
    <3>3. CASE s.fault = "none" /\ A /\ ~B
      <4> DEFINE f == [s EXCEPT !.fault = "memory.c:520"]
      <4>1. Faulted(s, f, "memory.c:520") /\ f.fault # "none"
        BY <3>0, <3>3, FaultIs
      <4>2. w = f
        BY <3>3, <4>1 DEF Check
      <4> QED
        BY <3>3, <4>1, <4>2 DEF Faulted
    <3>4. CASE s.fault = "none" /\ A /\ B /\ ~C
      <4> DEFINE f == [s EXCEPT !.fault = "memory.c:522"]
      <4>1. Faulted(s, f, "memory.c:522") /\ f.fault # "none"
        BY <3>0, <3>4, FaultIs
      <4>2. w = f
        BY <3>4, <4>1 DEF Check
      <4> QED
        BY <3>4, <4>1, <4>2 DEF Faulted
    <3> QED
      BY <3>1, <3>2, <3>3, <3>4
  <2> HIDE DEF w
  <2>3. \A ow : View(s, ow) => View(w, ow)
    BY <2>2 DEF View, OwnerOf
  <2>4. CASE ~TraceMoves(s, y)
    BY <1>2, <2>1, <2>2, <2>3, <2>4 DEF AfterTrace
  <2>5. CASE TraceMoves(s, y)
    <3>1. w.fault = "none" => OwnerOf(w, y) # NULL
      BY <2>2, <2>5, Names DEF TraceMoves, OwnerOf, Unproc, OtherColor, AllLists, Colors
    <3>2. Put(w, InsertLast(Unlink(w, y), "boundary", y), y, "boundary")
      BY <2>1, <2>2, <3>1, MoveLast DEF AllLists
    <3>3. t = InsertLast(Unlink(w, y), "boundary", y)
      BY <2>5 DEF memcell_to_boundary
    <3> HIDE DEF t
    <3>4. /\ t \in Whole /\ SameData(w, t) /\ t.fault = w.fault
          /\ w.fault = "none" => t.dl.owner = [w.dl.owner EXCEPT ![y] = "boundary"]
          /\ w.fault = "none" => \A ow : View(w, ow) => View(t, [ow EXCEPT ![y] = "boundary"])
      BY <3>2, <3>3 DEF Put, ListOf
    <3> QED
      BY <1>2, <2>1, <2>2, <2>3, <2>5, <3>4 DEF AfterTrace, SameData
  <2> QED
    BY <2>4, <2>5
<1> QED
  BY <1>1, <1>2

-----------------------------------------------------------------------------
(* A state between two calls, with no assert failed: the lists are whole   *)
(* and hold what the flags and the counters say.                           *)
FreeCells(s) == {c \in Cell : OwnerOf(s, c) = "free"}
Allocated(s) == {c \in Cell : OwnerOf(s, c) # NULL}

Running(s) ==
    /\ s \in Whole /\ s.fault = "none" /\ OwnerOf(s, Sentinel) = "roots"
    /\ s.live = {c \in Cell : OwnerOf(s, c) \notin {NULL, "free"}}
    /\ s.total_free = Cardinality(FreeCells(s))
    /\ s.total_alloc = Cardinality(Allocated(s))
    /\ \A c \in s.fin : s.finalized[c] = IF c \in s.live THEN 0 ELSE 1

(* What a call may leave behind, an assert that failed in it or not.       *)
Impossible == {"dlist.c:19", "dlist.c:50", "memory.c:319", "memory.c:598, 656"}
Proper(s) == s \in Whole /\ s.fault \notin Impossible /\ (s.fault = "none" => Running(s))

LEMMA SetsOfCells ==
    \A s : /\ IsFiniteSet(FreeCells(s)) /\ IsFiniteSet(Allocated(s))
           /\ Cardinality(FreeCells(s)) \in Nat /\ Cardinality(Allocated(s)) \in Nat
<1> TAKE s
<1>1. FreeCells(s) \in SUBSET Cell /\ Allocated(s) \in SUBSET Cell
  BY DEF FreeCells, Allocated
<1>2. IsFiniteSet(FreeCells(s)) /\ IsFiniteSet(Allocated(s))
  BY <1>1, CellAssumption, FS_Subset
<1> QED
  BY <1>2, FS_CardinalityType

LEMMA OwnersOf ==
    ASSUME NEW s \in Whole
    PROVE  /\ s.dl.owner \in [DlNode -> AllLists \cup {NULL}] /\ Node \subseteq DlNode
           /\ \A n \in Node : OwnerOf(s, n) \in AllLists \cup {NULL}
BY Names DEF Whole, States, Dlists, OwnerOf

(* A cell in use moves to another list of those.                           *)
LEMMA MoveKeepsRunning ==
    ASSUME NEW s, Running(s), NEW t \in Whole, t.fault = "none",
           t.live = s.live, t.fin = s.fin, t.finalized = s.finalized,
           t.total_alloc = s.total_alloc, t.total_free = s.total_free,
           NEW y, NEW l \in AllLists \ {"free"},
           t.dl.owner = s.dl.owner \/ (y \in s.live /\ t.dl.owner = [s.dl.owner EXCEPT ![y] = l])
    PROVE  Running(t)
<1>1. s \in Whole /\ s.live \subseteq Cell
  BY DEF Running
<1>2. \A n \in Node : /\ OwnerOf(t, n) = NULL <=> OwnerOf(s, n) = NULL
                      /\ OwnerOf(t, n) = "free" <=> OwnerOf(s, n) = "free"
                      /\ n \notin Cell => OwnerOf(t, n) = OwnerOf(s, n)
  <2> SUFFICES ASSUME NEW n \in Node
               PROVE  /\ OwnerOf(t, n) = NULL <=> OwnerOf(s, n) = NULL
                      /\ OwnerOf(t, n) = "free" <=> OwnerOf(s, n) = "free"
                      /\ n \notin Cell => OwnerOf(t, n) = OwnerOf(s, n)
    OBVIOUS
  <2>1. CASE t.dl.owner = s.dl.owner
    BY <2>1 DEF OwnerOf
  <2>2. CASE y \in s.live /\ t.dl.owner = [s.dl.owner EXCEPT ![y] = l]
    <3>1. y \in Cell /\ OwnerOf(s, y) \notin {NULL, "free"}
      BY <2>2 DEF Running
    <3>2. OwnerOf(t, n) = IF n = y THEN l ELSE OwnerOf(s, n)
      BY <1>1, <2>2, OwnersOf DEF OwnerOf
    <3> QED
      BY <3>1, <3>2, Names
  <2> QED
    BY <2>1, <2>2
<1>3. FreeCells(t) = FreeCells(s) /\ Allocated(t) = Allocated(s)
  BY <1>2 DEF FreeCells, Allocated, Node
<1>4. {c \in Cell : OwnerOf(t, c) \notin {NULL, "free"}} = {c \in Cell : OwnerOf(s, c) \notin {NULL, "free"}}
  BY <1>2 DEF Node
<1>5. OwnerOf(t, Sentinel) = "roots"
  BY <1>2, NodesAssumption DEF Running, Node
<1> QED
  BY <1>3, <1>4, <1>5 DEF Running

(* A cell in use is freed.                                                 *)
AfterFree(s, c, t) ==
    /\ t \in Whole /\ t.fault = s.fault
    /\ t.live = s.live \ {c} /\ t.total_free = s.total_free + 1
    /\ t.finalized = IF c \in s.fin THEN [s.finalized EXCEPT ![c] = @ + 1] ELSE s.finalized
    /\ t.reachable = s.reachable /\ t.refcount = s.refcount /\ t.locked = s.locked /\ t.fin = s.fin
    /\ t.total_alloc = s.total_alloc /\ t.clean_cycles = s.clean_cycles
    /\ t.fault = "none" =>
         /\ t.dl.owner = [s.dl.owner EXCEPT ![c] = "free"]
         /\ \A ow : View(s, ow) => View(t, [ow EXCEPT ![c] = "free"])

LEMMA FreeKeepsRunning ==
    ASSUME NEW s, Running(s), NEW c \in s.live, NEW t, AfterFree(s, c, t)
    PROVE  Running(t)
<1>1. /\ s \in Whole /\ c \in Cell /\ OwnerOf(s, c) \notin {NULL, "free"}
      /\ t \in Whole /\ t.fault = "none" /\ t.dl.owner = [s.dl.owner EXCEPT ![c] = "free"]
  BY DEF Running, AfterFree
<1>2. \A n \in Node : OwnerOf(t, n) = IF n = c THEN "free" ELSE OwnerOf(s, n)
  BY <1>1, OwnersOf DEF OwnerOf
<1>3. "free" # NULL /\ c # Sentinel /\ Cell \subseteq Node
  BY <1>1, Names, NodesAssumption DEF AllLists, Node
<1>4. FreeCells(t) = FreeCells(s) \cup {c} /\ c \notin FreeCells(s) /\ Allocated(t) = Allocated(s)
  BY <1>1, <1>2, <1>3 DEF FreeCells, Allocated
<1>5. t.total_free = Cardinality(FreeCells(t))
  <2>1. IsFiniteSet(FreeCells(s))
    BY SetsOfCells
  <2>2. Cardinality(FreeCells(s) \cup {c}) = Cardinality(FreeCells(s)) + 1
    BY <1>4, <2>1, FS_AddElement
  <2> QED
    BY <1>4, <2>2 DEF Running, AfterFree
<1>6. t.live = {d \in Cell : OwnerOf(t, d) \notin {NULL, "free"}}
  BY <1>1, <1>2, <1>3 DEF Running, AfterFree
<1>7. \A d \in t.fin : t.finalized[d] = IF d \in t.live THEN 0 ELSE 1
  <2>1. s.finalized \in [Cell -> Nat] /\ s.fin \subseteq Cell
    BY <1>1 DEF Whole, States
  <2> QED
    BY <1>1, <2>1 DEF Running, AfterFree
<1>8. OwnerOf(t, Sentinel) = "roots" /\ t.total_alloc = Cardinality(Allocated(t))
  BY <1>2, <1>3, <1>4 DEF Running, AfterFree, Node
<1> QED
  BY <1>1, <1>5, <1>6, <1>7, <1>8 DEF Running

(* A cell is taken into use, one of the free list (again) or a new one.    *)
AfterRequest(s, c, again, t) ==
    /\ t \in Whole
    /\ t.live = s.live \cup {c} /\ t.locked = s.locked \ {c} /\ t.fin = s.fin \ {c}
    /\ t.refcount = [s.refcount EXCEPT ![c] = 0] /\ t.finalized = [s.finalized EXCEPT ![c] = 0]
    /\ t.total_free = IF again THEN s.total_free - 1 ELSE s.total_free
    /\ t.total_alloc = IF again THEN s.total_alloc ELSE s.total_alloc + 1
    /\ t.reachable = s.reachable /\ t.clean_cycles = s.clean_cycles
    /\ t.fault = "none" =>
         /\ t.dl.owner = [s.dl.owner EXCEPT ![c] = "roots"]
         /\ \A ow : View(s, ow) => View(t, [ow EXCEPT ![c] = "roots_unproc"])

LEMMA RequestKeepsRunning ==
    ASSUME NEW s, Running(s), NEW c \in Cell, NEW again \in BOOLEAN,
           OwnerOf(s, c) = IF again THEN "free" ELSE NULL,
           NEW t, AfterRequest(s, c, again, t), t.fault = "none"
    PROVE  Running(t)
<1>1. /\ s \in Whole /\ t \in Whole /\ t.dl.owner = [s.dl.owner EXCEPT ![c] = "roots"]
  BY DEF Running, AfterRequest
<1>2. \A n \in Node : OwnerOf(t, n) = IF n = c THEN "roots" ELSE OwnerOf(s, n)
  BY <1>1, OwnersOf DEF OwnerOf
<1>3. "free" # NULL /\ "roots" # NULL /\ c # Sentinel /\ Cell \subseteq Node
  BY Names, NodesAssumption DEF AllLists, Node
<1>4. IsFiniteSet(FreeCells(s)) /\ IsFiniteSet(Allocated(s))
      /\ Cardinality(FreeCells(s)) \in Nat /\ Cardinality(Allocated(s)) \in Nat
  BY SetsOfCells
<1>5. CASE again = TRUE
  <2>1. FreeCells(t) = FreeCells(s) \ {c} /\ c \in FreeCells(s) /\ Allocated(t) = Allocated(s)
    BY <1>2, <1>3, <1>5 DEF FreeCells, Allocated
  <2>2. Cardinality(FreeCells(s) \ {c}) = Cardinality(FreeCells(s)) - 1
    BY <1>4, <2>1, FS_RemoveElement
  <2>3. t.total_free = Cardinality(FreeCells(t)) /\ t.total_alloc = Cardinality(Allocated(t))
    BY <1>5, <2>1, <2>2 DEF Running, AfterRequest
  <2>4. t.live = {d \in Cell : OwnerOf(t, d) \notin {NULL, "free"}}
    BY <1>2, <1>3 DEF Running, AfterRequest
  <2>5. \A d \in t.fin : t.finalized[d] = IF d \in t.live THEN 0 ELSE 1
    BY <1>1 DEF Running, AfterRequest, Whole, States
  <2>6. OwnerOf(t, Sentinel) = "roots"
    BY <1>2, <1>3 DEF Running, Node
  <2> QED
    BY <1>1, <2>3, <2>4, <2>5, <2>6 DEF Running
<1>6. CASE again = FALSE
  <2>1. FreeCells(t) = FreeCells(s) /\ c \notin Allocated(s) /\ Allocated(t) = Allocated(s) \cup {c}
    BY <1>2, <1>3, <1>6 DEF FreeCells, Allocated
  <2>2. Cardinality(Allocated(s) \cup {c}) = Cardinality(Allocated(s)) + 1
    BY <1>4, <2>1, FS_AddElement
  <2>3. t.total_free = Cardinality(FreeCells(t)) /\ t.total_alloc = Cardinality(Allocated(t))
    BY <1>6, <2>1, <2>2 DEF Running, AfterRequest
  <2>4. t.live = {d \in Cell : OwnerOf(t, d) \notin {NULL, "free"}}
    BY <1>2, <1>3 DEF Running, AfterRequest
  <2>5. \A d \in t.fin : t.finalized[d] = IF d \in t.live THEN 0 ELSE 1
    BY <1>1 DEF Running, AfterRequest, Whole, States
  <2>6. OwnerOf(t, Sentinel) = "roots"
    BY <1>2, <1>3 DEF Running, Node
  <2> QED
    BY <1>1, <2>3, <2>4, <2>5, <2>6 DEF Running
<1> QED
  BY <1>5, <1>6

(* The calls that do so.                                                   *)
LEMMA FreeIs ==
    ASSUME NEW s \in Whole, NEW c \in Cell, s.fault = "none" => OwnerOf(s, c) # NULL
    PROVE  AfterFree(s, c, memcell_free(s, c))
<1> DEFINE d == memcell_deinit(s, c)
<1> DEFINE u == [d EXCEPT !.live = @ \ {c}]
<1> DEFINE v == MoveTo(u, "free", c)
<1> DEFINE t == [v EXCEPT !.total_free = @ + 1]
<1>1. memcell_free(s, c) = t
  BY DEF memcell_free
<1>2. /\ d \in Whole /\ d.dl = s.dl /\ d.fault = s.fault /\ d.live = s.live /\ d.fin = s.fin
      /\ d.finalized = IF c \in s.fin THEN [s.finalized EXCEPT ![c] = @ + 1] ELSE s.finalized
      /\ d.reachable = s.reachable /\ d.refcount = s.refcount /\ d.locked = s.locked
      /\ d.total_alloc = s.total_alloc /\ d.total_free = s.total_free /\ d.clean_cycles = s.clean_cycles
  <2>1. CASE c \in s.fin
    <3>1. s.finalized \in [Cell -> Nat] /\ [s.finalized EXCEPT ![c] = @ + 1] \in [Cell -> Nat]
      BY DEF Whole, States
    <3>2. d = [s EXCEPT !.finalized[c] = @ + 1]
      BY <2>1 DEF memcell_deinit
    <3> HIDE DEF d
    <3>3. d.finalized = [s.finalized EXCEPT ![c] = @ + 1]
      BY <3>2 DEF Whole, States
    <3>4. d \in Whole
      BY <3>1, <3>2 DEF Whole, States
    <3> QED
      BY <2>1, <3>2, <3>3, <3>4 DEF Whole, States
  <2>2. CASE c \notin s.fin
    BY <2>2 DEF memcell_deinit
  <2> QED
    BY <2>1, <2>2
<1> HIDE DEF d
<1>3. /\ u \in Whole /\ u.dl = d.dl /\ u.fault = d.fault /\ u.live = d.live \ {c} /\ u.fin = d.fin
      /\ u.finalized = d.finalized
      /\ u.reachable = d.reachable /\ u.refcount = d.refcount /\ u.locked = d.locked
      /\ u.total_alloc = d.total_alloc /\ u.total_free = d.total_free /\ u.clean_cycles = d.clean_cycles
  BY <1>2 DEF Whole, States
<1> HIDE DEF u
<1>4. Put(u, v, c, "free")
  <2>1. u.fault = "none" => OwnerOf(u, c) # NULL
    BY <1>2, <1>3 DEF OwnerOf
  <2>2. Put(u, InsertLast(Unlink(u, c), "free", c), c, "free")
    BY <1>3, <2>1, MoveLast DEF AllLists
  <2> QED
    BY <2>2 DEF MoveTo
<1> HIDE DEF v
<1>5. /\ v \in Whole /\ SameData(u, v) /\ v.fault = u.fault
      /\ v.fault = "none" => v.dl.owner = [u.dl.owner EXCEPT ![c] = "free"]
      /\ v.fault = "none" => \A ow : View(u, ow) => View(v, [ow EXCEPT ![c] = "free"])
  BY <1>4 DEF Put, ListOf
<1>6. /\ t \in Whole /\ SameData(v, [t EXCEPT !.total_free = v.total_free]) /\ t.fault = v.fault
      /\ t.total_free = v.total_free + 1 /\ t.dl = v.dl
      /\ t.reachable = v.reachable /\ t.refcount = v.refcount /\ t.locked = v.locked
      /\ t.live = v.live /\ t.fin = v.fin /\ t.finalized = v.finalized
      /\ t.total_alloc = v.total_alloc /\ t.clean_cycles = v.clean_cycles
  BY <1>5 DEF Whole, States, SameData
<1> HIDE DEF t
<1>7. \A ow : (View(s, ow) <=> View(u, ow)) /\ (View(v, ow) <=> View(t, ow))
  BY <1>2, <1>3, <1>6 DEF View, OwnerOf
<1>8. t.fault = "none" => \A ow : View(s, ow) => View(t, [ow EXCEPT ![c] = "free"])
  BY <1>5, <1>6, <1>7
<1>9. t.fault = "none" => t.dl.owner = [s.dl.owner EXCEPT ![c] = "free"]
  BY <1>2, <1>3, <1>5, <1>6
<1>10. AfterFree(s, c, t)
  BY <1>2, <1>3, <1>5, <1>6, <1>8, <1>9 DEF AfterFree, SameData
<1> QED
  BY <1>1, <1>10

(* The part that both kinds of request share.                              *)
LEMMA InitIs ==
    ASSUME NEW s \in Whole, NEW c \in Cell,
           s.fault = "none" => OwnerOf(s, c) = NULL /\ OwnerOf(s, Sentinel) = "roots"
    PROVE  LET t == memcell_init(s, c)
           IN  /\ t \in Whole /\ t.fault = s.fault
               /\ t.live = s.live \cup {c} /\ t.locked = s.locked \ {c} /\ t.fin = s.fin \ {c}
               /\ t.refcount = [s.refcount EXCEPT ![c] = 0] /\ t.finalized = [s.finalized EXCEPT ![c] = 0]
               /\ t.total_free = s.total_free /\ t.total_alloc = s.total_alloc
               /\ t.reachable = s.reachable /\ t.clean_cycles = s.clean_cycles
               /\ s.fault = "none" =>
                    /\ t.dl.owner = [s.dl.owner EXCEPT ![c] = "roots"]
                    /\ \A ow : View(s, ow) => View(t, [ow EXCEPT ![c] = "roots_unproc"])
<1> DEFINE u == [s EXCEPT !.live = @ \cup {c}, !.locked = @ \ {c}, !.refcount = [@ EXCEPT ![c] = 0],
                          !.fin = @ \ {c}, !.finalized = [@ EXCEPT ![c] = 0]]
<1> DEFINE t == memcell_to_roots_unproc(u, c)
<1>1. memcell_init(s, c) = t
  BY DEF memcell_init
<1>2. /\ u \in Whole /\ u.dl = s.dl /\ u.fault = s.fault
      /\ u.live = s.live \cup {c} /\ u.locked = s.locked \ {c} /\ u.fin = s.fin \ {c}
      /\ u.refcount = [s.refcount EXCEPT ![c] = 0] /\ u.finalized = [s.finalized EXCEPT ![c] = 0]
      /\ u.total_free = s.total_free /\ u.total_alloc = s.total_alloc
      /\ u.reachable = s.reachable /\ u.clean_cycles = s.clean_cycles
  BY DEF Whole, States
<1> HIDE DEF u
<1>3. t \in Whole /\ SameData(u, t) /\ t.fault = u.fault
      /\ (u.fault = "none" => Put(u, t, c, "roots_unproc"))
  <2>1. CASE u.fault = "none"
    <3>1. OwnerOf(u, c) = NULL /\ OwnerOf(u, Sentinel) = "roots"
      BY <1>2, <2>1 DEF OwnerOf
    <3>2. Put(u, t, c, "roots_unproc")
      BY <1>2, <2>1, <3>1, PutRootsUnproc
    <3> QED
      BY <3>2 DEF Put
  <2>2. CASE u.fault # "none"
    <3>1. t = u
      BY <2>2 DEF memcell_to_roots_unproc, InsertBetween
    <3> QED
      BY <1>2, <2>2, <3>1 DEF SameData
  <2> QED
    BY <2>1, <2>2
<1> HIDE DEF t
<1>4. \A ow : View(s, ow) <=> View(u, ow)
  BY <1>2 DEF View, OwnerOf
<1>5. s.fault = "none" =>
          /\ t.dl.owner = [s.dl.owner EXCEPT ![c] = "roots"]
          /\ \A ow : View(s, ow) => View(t, [ow EXCEPT ![c] = "roots_unproc"])
  <2> SUFFICES ASSUME s.fault = "none"
               PROVE  /\ t.dl.owner = [s.dl.owner EXCEPT ![c] = "roots"]
                      /\ \A ow : View(s, ow) => View(t, [ow EXCEPT ![c] = "roots_unproc"])
    OBVIOUS
  <2>1. Put(u, t, c, "roots_unproc") /\ u.fault = "none"
    BY <1>2, <1>3
  <2> QED
    BY <1>2, <1>4, <2>1 DEF Put, ListOf
<1>6. /\ t \in Whole /\ t.fault = s.fault
      /\ t.live = s.live \cup {c} /\ t.locked = s.locked \ {c} /\ t.fin = s.fin \ {c}
      /\ t.refcount = [s.refcount EXCEPT ![c] = 0] /\ t.finalized = [s.finalized EXCEPT ![c] = 0]
      /\ t.total_free = s.total_free /\ t.total_alloc = s.total_alloc
      /\ t.reachable = s.reachable /\ t.clean_cycles = s.clean_cycles
  BY <1>2, <1>3 DEF SameData
<1> QED
  BY <1>1, <1>5, <1>6

LEMMA FreshIs ==
    ASSUME NEW s, Running(s), NEW c \in Cell, OwnerOf(s, c) = NULL
    PROVE  AfterRequest(s, c, FALSE, Fresh(s, c)) /\ Fresh(s, c).fault = "none"
<1> DEFINE g == dlnode_init(s.dl, c)
<1> DEFINE u == [s EXCEPT !.dl = g, !.total_alloc = @ + 1]
<1> DEFINE t == memcell_init(u, c)
<1>1. Fresh(s, c) = t
  BY DEF Fresh
<1>2. /\ WellLinked(g) /\ g.owner = s.dl.owner
      /\ \A m \in DlNode : m # c => g.next[m] = s.dl.next[m]
  <2> DEFINE h == s.dl
  <2>1. WellLinked(h) /\ c \in Node /\ h.owner[c] = NULL
    BY DEF Running, Whole, Node, OwnerOf
  <2> HIDE DEF h
  <2>2. /\ WellLinked(dlnode_init(h, c)) /\ dlnode_init(h, c).owner = h.owner
        /\ \A m \in DlNode : m # c => dlnode_init(h, c).next[m] = h.next[m]
    BY <2>1, FreshHeader
  <2> QED
    BY <2>2 DEF h
<1> HIDE DEF g
<1>3. /\ u \in Whole /\ u.dl = g /\ u.fault = "none" /\ u.total_alloc = s.total_alloc + 1
      /\ u.live = s.live /\ u.locked = s.locked /\ u.fin = s.fin
      /\ u.refcount = s.refcount /\ u.finalized = s.finalized /\ u.total_free = s.total_free
      /\ u.reachable = s.reachable /\ u.clean_cycles = s.clean_cycles
  <2>1. g \in Dlists
    BY <1>2 DEF WellLinked
  <2>2. s \in States /\ s.fault = "none"
    BY DEF Running, Whole
  <2>3. s.total_alloc + 1 \in Nat
    BY <2>2 DEF States
  <2> QED
    BY <1>2, <2>1, <2>2, <2>3 DEF Whole, States
<1> HIDE DEF u
<1>4. OwnerOf(u, c) = NULL /\ OwnerOf(u, Sentinel) = "roots"
  BY <1>2, <1>3 DEF OwnerOf, Running
<1>5. /\ t \in Whole /\ t.fault = u.fault
      /\ t.live = u.live \cup {c} /\ t.locked = u.locked \ {c} /\ t.fin = u.fin \ {c}
      /\ t.refcount = [u.refcount EXCEPT ![c] = 0] /\ t.finalized = [u.finalized EXCEPT ![c] = 0]
      /\ t.total_free = u.total_free /\ t.total_alloc = u.total_alloc
      /\ t.reachable = u.reachable /\ t.clean_cycles = u.clean_cycles
      /\ t.dl.owner = [u.dl.owner EXCEPT ![c] = "roots"]
      /\ \A ow : View(u, ow) => View(t, [ow EXCEPT ![c] = "roots_unproc"])
  BY <1>3, <1>4, InitIs
<1> HIDE DEF t
<1>6. ASSUME NEW ow, View(s, ow) PROVE View(u, ow)
  <2>1. ow \in [Cell -> Places] /\ \A d \in Cell : OwnerOf(u, d) = ListOf(ow[d])
    BY <1>2, <1>3, <1>6 DEF View, OwnerOf
  <2>2. c \notin Ahead(ow) /\ c \notin Behind(s.dl, Ahead(ow)) /\ c # Sentinel /\ c # "roots"
        /\ Ahead(ow) \subseteq DlNode /\ Behind(s.dl, Ahead(ow)) \subseteq DlNode
        /\ Sentinel \in DlNode /\ "roots" \in DlNode
    <3>1. c # Sentinel /\ c # "roots" /\ Sentinel \in DlNode /\ "roots" \in DlNode /\ Cell \subseteq DlNode
          /\ "roots" # NULL
      BY NodesAssumption, Names DEF Node, AllLists
    <3>2. c \notin Ahead(ow)
      BY <1>6, <3>1 DEF View, Ahead, ListOf
    <3> QED
      BY <3>1, <3>2 DEF Ahead, Behind, OwnerOf
  <2>3. Behind(g, Ahead(ow)) = Behind(s.dl, Ahead(ow)) /\ g.owner[Sentinel] = s.dl.owner[Sentinel]
    BY <1>2 DEF Behind
  <2>4. Cut(s.dl, Ahead(ow))
    BY <1>6 DEF View
  <2>5. Cut(g, Ahead(ow))
    BY <1>2, <2>2, <2>3, <2>4 DEF Cut
  <2> QED
    BY <1>3, <2>1, <2>5 DEF View
<1>7. AfterRequest(s, c, FALSE, t) /\ t.fault = "none"
  BY <1>2, <1>3, <1>5, <1>6 DEF AfterRequest
<1> QED
  BY <1>1, <1>7

(* The first node of a list that is not empty is one of it.                *)
LEMMA FirstIs ==
    ASSUME NEW s \in Whole, NEW l \in AllLists, ~IsEmpty(s, l)
    PROVE  First(s, l) \in Node /\ OwnerOf(s, First(s, l)) = l
<1> DEFINE h == s.dl
<1> DEFINE n == h.next[l]
<1>1. WellLinked(h) /\ l \in DlNode /\ l # NULL /\ n # l /\ First(s, l) = n
  BY Names DEF Whole, IsEmpty, dlist_is_empty, First, dlist_first
<1>2. l \in Linked(h) /\ h.owner[l] = l
  BY <1>1 DEF WellLinked, IsRing, Linked
<1>3. n \in Linked(h) /\ h.owner[n] = l
  BY <1>1, <1>2 DEF WellLinked, IsRing
<1>4. n \notin AllLists
  BY <1>1, <1>3 DEF WellLinked, IsRing
<1>5. n \in Node
  BY <1>3, <1>4, Names DEF Linked
<1> QED
  BY <1>1, <1>3, <1>5 DEF OwnerOf

(* But for the sentinel, that is a cell.                                   *)
LEMMA FirstIsCell ==
    ASSUME NEW s, Running(s), NEW l \in AllLists, ~IsEmpty(s, l), First(s, l) # Sentinel
    PROVE  First(s, l) \in Cell /\ OwnerOf(s, First(s, l)) = l
BY FirstIs DEF Running, Node

LEMMA OnlyRootsHaveSentinel ==
    ASSUME NEW s, Running(s), NEW l \in AllLists \ {"roots"}, ~IsEmpty(s, l)
    PROVE  First(s, l) \in Cell /\ OwnerOf(s, First(s, l)) = l
BY FirstIs DEF Running, Node

LEMMA ReusedIs ==
    ASSUME NEW s, Running(s), ~IsEmpty(s, "free")
    PROVE  LET c == First(s, "free")
               t == Reused(s)
           IN  /\ c \in Cell /\ OwnerOf(s, c) = "free" /\ AfterRequest(s, c, TRUE, t)
               /\ t.fault \in {"none", "memory.c:316", "memory.c:317"}
               /\ t.fault = "memory.c:316" => c \in s.locked
               /\ t.fault = "none" => c \notin s.locked /\ (AssertReuse => s.refcount[c] = 0)
<1> DEFINE c == First(s, "free")
<1> DEFINE A == c \notin s.locked
<1> DEFINE B == AssertReuse => s.refcount[c] = 0
<1> DEFINE C == s.total_free # 0
<1> DEFINE w == Check(Check(Check(s, A, "memory.c:316"), B, "memory.c:317"), C, "memory.c:319")
<1> DEFINE v == Unlink(w, c)
<1> DEFINE u == [v EXCEPT !.total_free = @ - 1]
<1> DEFINE t == memcell_init(u, c)
<1>1. Reused(s) = t
  BY DEF Reused
<1>2. c \in Cell /\ OwnerOf(s, c) = "free"
  BY OnlyRootsHaveSentinel DEF AllLists
<1> HIDE DEF c
<1>3. C
  <2>1. c \in FreeCells(s)
    BY <1>2 DEF FreeCells
  <2>2. Cardinality(FreeCells(s)) # 0
    BY <2>1, SetsOfCells, FS_EmptySet
  <2> QED
    BY <2>2 DEF Running
<1>4. s \in Whole /\ s.fault = "none"
  BY DEF Running
<1>5. /\ w \in Whole /\ SameData(s, w) /\ w.dl = s.dl
      /\ w.fault \in {"none", "memory.c:316", "memory.c:317"}
      /\ w.fault = "memory.c:316" => ~A
      /\ w.fault = "none" => A /\ B
  <2>0. {"memory.c:316", "memory.c:317"} \subseteq Faults \ {"none"}
    BY DEF Faults
  <2>1. CASE A /\ B
    <3>1. w = s
      BY <1>3, <2>1 DEF Check
    <3> QED
      BY <1>4, <2>1, <3>1 DEF SameData
  <2>2. CASE ~A
    <3> DEFINE f == [s EXCEPT !.fault = "memory.c:316"]
    <3>1. Faulted(s, f, "memory.c:316") /\ f.fault # "none"
      BY <1>4, <2>0, FaultIs
    <3>2. w = f
      BY <1>4, <2>2, <3>1 DEF Check
    <3> QED
      BY <1>4, <2>2, <3>1, <3>2 DEF Faulted
  <2>3. CASE A /\ ~B
    <3> DEFINE f == [s EXCEPT !.fault = "memory.c:317"]
    <3>1. Faulted(s, f, "memory.c:317") /\ f.fault # "none"
      BY <1>4, <2>0, FaultIs
    <3>2. w = f
      BY <1>4, <2>3, <3>1 DEF Check
    <3> QED
      BY <1>4, <3>1, <3>2 DEF Faulted
  <2> QED
    BY <2>1, <2>2, <2>3
<1> HIDE DEF w
<1>6. Put(w, v, c, "unallocated")
  <2>1. w.fault = "none" => OwnerOf(w, c) # NULL
    BY <1>2, <1>5, Names DEF OwnerOf, AllLists
  <2> QED
    BY <1>2, <1>5, <2>1, PutUnlink
<1> HIDE DEF v
<1>7. /\ u \in Whole /\ u.dl = v.dl /\ u.fault = v.fault /\ u.total_free = v.total_free - 1
      /\ u.live = v.live /\ u.locked = v.locked /\ u.fin = v.fin
      /\ u.refcount = v.refcount /\ u.finalized = v.finalized /\ u.total_alloc = v.total_alloc
      /\ u.reachable = v.reachable /\ u.clean_cycles = v.clean_cycles
  BY <1>6 DEF Put, Whole, States
<1> HIDE DEF u
<1>8. u.fault = "none" => /\ u.dl.owner = [s.dl.owner EXCEPT ![c] = NULL]
                          /\ OwnerOf(u, c) = NULL /\ OwnerOf(u, Sentinel) = "roots"
                          /\ \A ow : View(s, ow) => View(u, [ow EXCEPT ![c] = "unallocated"])
  <2> SUFFICES ASSUME u.fault = "none"
               PROVE  /\ u.dl.owner = [s.dl.owner EXCEPT ![c] = NULL]
                      /\ OwnerOf(u, c) = NULL /\ OwnerOf(u, Sentinel) = "roots"
                      /\ \A ow : View(s, ow) => View(u, [ow EXCEPT ![c] = "unallocated"])
    OBVIOUS
  <2>1. w.fault = "none" /\ v.dl.owner = [s.dl.owner EXCEPT ![c] = NULL]
    BY <1>5, <1>6, <1>7 DEF Put, ListOf
  <2>2. \A ow : View(s, ow) => View(w, ow)
    BY <1>5 DEF View, OwnerOf
  <2>3. \A ow : View(w, ow) => View(v, [ow EXCEPT ![c] = "unallocated"])
    BY <1>6, <2>1 DEF Put
  <2>4. \A ow : View(v, ow) => View(u, ow)
    BY <1>7 DEF View, OwnerOf
  <2>5. OwnerOf(u, c) = NULL /\ OwnerOf(u, Sentinel) = "roots"
    BY <1>2, <1>4, <1>7, <2>1, OwnersOf, NodesAssumption DEF OwnerOf, Running, Node
  <2> QED
    BY <1>7, <2>1, <2>2, <2>3, <2>4, <2>5
<1>9. /\ t \in Whole /\ t.fault = u.fault
      /\ t.live = u.live \cup {c} /\ t.locked = u.locked \ {c} /\ t.fin = u.fin \ {c}
      /\ t.refcount = [u.refcount EXCEPT ![c] = 0] /\ t.finalized = [u.finalized EXCEPT ![c] = 0]
      /\ t.total_free = u.total_free /\ t.total_alloc = u.total_alloc
      /\ t.reachable = u.reachable /\ t.clean_cycles = u.clean_cycles
      /\ u.fault = "none" =>
           /\ t.dl.owner = [u.dl.owner EXCEPT ![c] = "roots"]
           /\ \A ow : View(u, ow) => View(t, [ow EXCEPT ![c] = "roots_unproc"])
  BY <1>2, <1>7, <1>8, InitIs
<1> HIDE DEF t
<1>10. t.fault = "none" => /\ t.dl.owner = [s.dl.owner EXCEPT ![c] = "roots"]
                           /\ \A ow : View(s, ow) => View(t, [ow EXCEPT ![c] = "roots_unproc"])
  <2> SUFFICES ASSUME t.fault = "none"
               PROVE  /\ t.dl.owner = [s.dl.owner EXCEPT ![c] = "roots"]
                      /\ \A ow : View(s, ow) => View(t, [ow EXCEPT ![c] = "roots_unproc"])
    OBVIOUS
  <2>1. t.dl.owner = [s.dl.owner EXCEPT ![c] = "roots"]
    BY <1>2, <1>4, <1>8, <1>9, OwnersOf
  <2>2. ASSUME NEW ow, View(s, ow) PROVE View(t, [ow EXCEPT ![c] = "roots_unproc"])
    <3>1. View(t, [[ow EXCEPT ![c] = "unallocated"] EXCEPT ![c] = "roots_unproc"])
      BY <1>8, <1>9, <2>2
    <3>2. [[ow EXCEPT ![c] = "unallocated"] EXCEPT ![c] = "roots_unproc"] = [ow EXCEPT ![c] = "roots_unproc"]
      BY <2>2 DEF View
    <3> QED
      BY <3>1, <3>2
  <2> QED
    BY <2>1, <2>2
<1>11. SameData(w, v) /\ v.fault = w.fault
  BY <1>6 DEF Put
<1>12. AfterRequest(s, c, TRUE, t)
  BY <1>2, <1>5, <1>7, <1>9, <1>10, <1>11 DEF AfterRequest, SameData
<1>13. /\ t.fault \in {"none", "memory.c:316", "memory.c:317"}
       /\ t.fault = "memory.c:316" => ~A
       /\ t.fault = "none" => A /\ B
  BY <1>5, <1>7, <1>9, <1>11
<1> QED
  BY <1>1, <1>2, <1>12, <1>13 DEF c

(* Locked, and unlocked.                                                   *)
AfterLock(s, c, t) ==
    /\ t \in Whole /\ t.fault = "none" /\ t.locked = s.locked \cup {c}
    /\ t.reachable = s.reachable /\ t.refcount = s.refcount /\ t.live = s.live /\ t.fin = s.fin
    /\ t.finalized = s.finalized /\ t.total_alloc = s.total_alloc /\ t.total_free = s.total_free
    /\ t.clean_cycles = s.clean_cycles
    /\ t.dl.owner = IF OwnerOf(s, c) = "roots" THEN s.dl.owner ELSE [s.dl.owner EXCEPT ![c] = "roots"]
    /\ \A ow : View(s, ow) =>
          View(t, IF OwnerOf(s, c) = "roots" THEN ow ELSE [ow EXCEPT ![c] = "roots_unproc"])

LEMMA LockIs ==
    ASSUME NEW s, Running(s), NEW c \in s.live
    PROVE  AfterLock(s, c, memory_gc_lock(s, c))
<1> DEFINE u == [s EXCEPT !.locked = @ \cup {c}]
<1> DEFINE t == memory_gc_lock(s, c)
<1>1. s \in Whole /\ s.fault = "none" /\ c \in Cell /\ OwnerOf(s, c) # NULL /\ OwnerOf(s, Sentinel) = "roots"
  BY DEF Running
<1>2. /\ u \in Whole /\ u.dl = s.dl /\ u.fault = "none" /\ u.locked = s.locked \cup {c}
      /\ u.reachable = s.reachable /\ u.refcount = s.refcount /\ u.live = s.live /\ u.fin = s.fin
      /\ u.finalized = s.finalized /\ u.total_alloc = s.total_alloc /\ u.total_free = s.total_free
      /\ u.clean_cycles = s.clean_cycles
  BY <1>1 DEF Whole, States
<1>3. \A ow : View(s, ow) => View(u, ow)
  BY <1>2 DEF View, OwnerOf
<1>4. CASE OwnerOf(s, c) = "roots"
  <2>1. t = u
    BY <1>4 DEF memory_gc_lock
  <2> HIDE DEF t, u
  <2> QED
    BY <1>2, <1>3, <1>4, <2>1 DEF AfterLock, t
<1>5. CASE OwnerOf(s, c) # "roots"
  <2>1. t = memcell_to_roots_unproc(Unlink(u, c), c)
    BY <1>5 DEF memory_gc_lock
  <2> HIDE DEF t, u
  <2>2. OwnerOf(u, c) # NULL /\ OwnerOf(u, Sentinel) = "roots"
    BY <1>1, <1>2 DEF OwnerOf
  <2>3. Put(u, t, c, "roots_unproc")
    BY <1>1, <1>2, <2>1, <2>2, MoveRootsUnproc
  <2>4. /\ t \in Whole /\ SameData(u, t) /\ t.fault = u.fault
        /\ t.dl.owner = [u.dl.owner EXCEPT ![c] = "roots"]
        /\ \A ow : View(u, ow) => View(t, [ow EXCEPT ![c] = "roots_unproc"])
    BY <1>2, <2>3 DEF Put, ListOf
  <2> QED
    BY <1>2, <1>3, <1>5, <2>4 DEF AfterLock, SameData, t
<1> QED
  BY <1>4, <1>5

AfterUnlock(s, c, t) ==
    /\ t \in Whole /\ t.fault = "none" /\ t.locked = s.locked \ {c} /\ t.clean_cycles = 0
    /\ t.reachable = s.reachable /\ t.refcount = s.refcount /\ t.live = s.live /\ t.fin = s.fin
    /\ t.finalized = s.finalized /\ t.total_alloc = s.total_alloc /\ t.total_free = s.total_free
    /\ t.dl.owner = [s.dl.owner EXCEPT ![c] = IF s.refcount[c] # 0 THEN "boundary" ELSE "free_pending"]
    /\ \A ow : View(s, ow) =>
          View(t, [ow EXCEPT ![c] = IF s.refcount[c] # 0 THEN "boundary" ELSE "free_pending"])

LEMMA UnlockIs ==
    ASSUME NEW s, Running(s), NEW c \in Cell, OwnerOf(s, c) = "roots"
    PROVE  AfterUnlock(s, c, memory_gc_unlock(s, c))
<1> DEFINE l == IF s.refcount[c] # 0 THEN "boundary" ELSE "free_pending"
<1> DEFINE v == InsertLast(Unlink(s, c), l, c)
<1> DEFINE t == memory_gc_unlock(s, c)
<1>1. s \in Whole /\ s.fault = "none" /\ OwnerOf(s, c) # NULL
  BY Names DEF Running, AllLists
<1>2. Check(s, OwnerOf(s, c) = "roots", "memory.c:397") = s
  BY DEF Check
<1>3. SameData(s, Unlink(s, c))
  <2>1. Put(s, Unlink(s, c), c, "unallocated")
    BY <1>1, PutUnlink
  <2> QED
    BY <2>1 DEF Put
<1>4. t = [v EXCEPT !.locked = @ \ {c}, !.clean_cycles = 0]
  <2>1. Unlink(s, c).refcount = s.refcount
    BY <1>3 DEF SameData
  <2>2. CASE s.refcount[c] # 0
    BY <1>2, <2>1, <2>2 DEF memory_gc_unlock, memcell_to_boundary
  <2>3. CASE s.refcount[c] = 0
    BY <1>2, <2>1, <2>3 DEF memory_gc_unlock, memcell_to_free_pending
  <2> QED
    BY <2>2, <2>3
<1>5. l \in AllLists \ {"roots"} /\ ListOf(l) = l
  BY DEF AllLists, ListOf
<1> HIDE DEF l
<1>6. Put(s, v, c, l)
  BY <1>1, <1>5, MoveLast
<1> HIDE DEF v
<1>7. /\ v \in Whole /\ SameData(s, v) /\ v.fault = "none"
      /\ v.dl.owner = [s.dl.owner EXCEPT ![c] = l]
      /\ \A ow : View(s, ow) => View(v, [ow EXCEPT ![c] = l])
  BY <1>1, <1>5, <1>6 DEF Put
<1> HIDE DEF t
<1>8. /\ t \in Whole /\ t.dl = v.dl /\ t.fault = v.fault /\ t.locked = v.locked \ {c} /\ t.clean_cycles = 0
      /\ t.reachable = v.reachable /\ t.refcount = v.refcount /\ t.live = v.live /\ t.fin = v.fin
      /\ t.finalized = v.finalized /\ t.total_alloc = v.total_alloc /\ t.total_free = v.total_free
  <2>1. v \in States /\ WellLinked(v.dl) /\ 0 \in 0..2
    BY <1>7 DEF Whole
  <2>2. t \in States
    BY <1>4, <2>1 DEF States
  <2>3. /\ t.dl = v.dl /\ t.fault = v.fault /\ t.locked = v.locked \ {c} /\ t.clean_cycles = 0
        /\ t.reachable = v.reachable /\ t.refcount = v.refcount /\ t.live = v.live /\ t.fin = v.fin
        /\ t.finalized = v.finalized /\ t.total_alloc = v.total_alloc /\ t.total_free = v.total_free
    BY <1>4, <2>1 DEF States
  <2> QED
    BY <2>1, <2>2, <2>3 DEF Whole
<1>9. \A ow : View(v, ow) => View(t, ow)
  BY <1>8 DEF View, OwnerOf
<1>10. AfterUnlock(s, c, t) <=>
         /\ t \in Whole /\ t.fault = "none" /\ t.locked = s.locked \ {c} /\ t.clean_cycles = 0
         /\ t.reachable = s.reachable /\ t.refcount = s.refcount /\ t.live = s.live /\ t.fin = s.fin
         /\ t.finalized = s.finalized /\ t.total_alloc = s.total_alloc /\ t.total_free = s.total_free
         /\ t.dl.owner = [s.dl.owner EXCEPT ![c] = l]
         /\ \A ow : View(s, ow) => View(t, [ow EXCEPT ![c] = l])
  BY Zenon DEF AfterUnlock, l
<1>11. AfterUnlock(s, c, t)
  BY <1>7, <1>8, <1>9, <1>10 DEF SameData
<1> QED
  BY <1>11 DEF t

-----------------------------------------------------------------------------
(* All the links of a cell, in the loops that free it and that trace it.   *)
(* After i of the links in q: how often c was one of them.                 *)
Lost(q, i) == [c \in Cell |-> Cardinality({j \in 1..i : q[j] = c})]

LEMMA LostType ==
    ASSUME NEW q, NEW i \in Nat
    PROVE  Lost(q, i) \in [Cell -> Nat]
<1>1. ASSUME NEW c \in Cell PROVE Cardinality({j \in 1..i : q[j] = c}) \in Nat
  <2>1. IsFiniteSet(1..i)
    BY FS_Interval
  <2>2. {j \in 1..i : q[j] = c} \in SUBSET (1..i)
    OBVIOUS
  <2> QED
    BY <2>1, <2>2, FS_Subset, FS_CardinalityType
<1> QED
  BY <1>1 DEF Lost

LEMMA LostFirst ==
    ASSUME NEW q
    PROVE  Lost(q, 0) = [c \in Cell |-> 0]
<1>1. \A c : {j \in 1..0 : q[j] = c} = {}
  OBVIOUS
<1> QED
  BY <1>1, FS_EmptySet DEF Lost

LEMMA LostNext ==
    ASSUME NEW q, NEW n \in Nat, NEW i \in 1..n
    PROVE  \A c \in Cell : Lost(q, i)[c] = IF q[i] = c THEN Lost(q, i - 1)[c] + 1 ELSE Lost(q, i - 1)[c]
<1> SUFFICES ASSUME NEW c \in Cell
             PROVE  Lost(q, i)[c] = IF q[i] = c THEN Lost(q, i - 1)[c] + 1 ELSE Lost(q, i - 1)[c]
  OBVIOUS
<1> DEFINE S == {j \in 1..i - 1 : q[j] = c}
<1> DEFINE T == {j \in 1..i : q[j] = c}
<1>1. i \in Nat /\ i - 1 \in Nat /\ i \notin 1..i - 1 /\ 1..i = 1..i - 1 \cup {i}
  OBVIOUS
<1>2. IsFiniteSet(S)
  <2>1. IsFiniteSet(1..i - 1)
    BY <1>1, FS_Interval
  <2>2. S \in SUBSET (1..i - 1)
    OBVIOUS
  <2> QED
    BY <2>1, <2>2, FS_Subset
<1>3. q[i] = c => T = S \cup {i} /\ i \notin S
  BY <1>1
<1>4. q[i] # c => T = S
  BY <1>1
<1>5. Lost(q, i)[c] = Cardinality(T) /\ Lost(q, i - 1)[c] = Cardinality(S)
  BY DEF Lost
<1> HIDE DEF S, T
<1> QED
  BY <1>2, <1>3, <1>4, <1>5, FS_AddElement

(* Where the cells that lose their last link are.                          *)
Drops(s, lost, c) == s.refcount[c] # 0 /\ s.refcount[c] <= lost[c] /\ c \notin s.locked /\ c \in s.live
Dropped(s, ow, lost) == [c \in Cell |-> IF Drops(s, lost, c) THEN "free_pending" ELSE ow[c]]
Counted(s, lost) ==
    [c \in Cell |-> IF s.refcount[c] > lost[c] THEN s.refcount[c] - lost[c] ELSE 0]

AfterStaleLinks(s, q, i, x) ==
    /\ x \in Whole /\ x.fault \in {"none", "memory.c:465"}
    /\ x.refcount = Counted(s, Lost(q, i))
    /\ x.reachable = s.reachable /\ x.locked = s.locked /\ x.live = s.live /\ x.fin = s.fin
    /\ x.finalized = s.finalized /\ x.total_alloc = s.total_alloc /\ x.total_free = s.total_free
    /\ x.clean_cycles = IF \E j \in 1..i : q[j] # NULL THEN 0 ELSE s.clean_cycles
    /\ x.fault = "none" =>
         /\ Running(x)
         /\ \A c \in s.live : Lost(q, i)[c] > s.refcount[c] => OwnerOf(x, c) = "free_pending"
         /\ \A ow : View(s, ow) => View(x, Dropped(s, ow, Lost(q, i)))

LEMMA StaleLinksStart ==
    ASSUME NEW s, Running(s), NEW q
    PROVE  AfterStaleLinks(s, q, 0, s)
<1>1. s \in Whole /\ s.fault = "none" /\ s.refcount \in [Cell -> Nat] /\ s.live \subseteq Cell
  BY DEF Running, Whole, States
<1>2. Lost(q, 0) = [c \in Cell |-> 0]
  BY LostFirst
<1>3. s.refcount = Counted(s, Lost(q, 0))
  BY <1>1, <1>2 DEF Counted
<1>4. \A c \in s.live : ~(Lost(q, 0)[c] > s.refcount[c])
  BY <1>1, <1>2
<1>5. \A ow : View(s, ow) => Dropped(s, ow, Lost(q, 0)) = ow
  <2> SUFFICES ASSUME NEW ow, View(s, ow) PROVE Dropped(s, ow, Lost(q, 0)) = ow
    OBVIOUS
  <2>1. \A c \in Cell : ~Drops(s, Lost(q, 0), c)
    BY <1>1, <1>2 DEF Drops
  <2> QED
    BY <2>1 DEF Dropped, View
<1>6. ~ \E j \in 1..0 : q[j] # NULL
  OBVIOUS
<1> QED
  BY <1>1, <1>3, <1>4, <1>5, <1>6 DEF AfterStaleLinks

LEMMA StaleLinksNext ==
    ASSUME NEW s, Running(s), NEW n \in Nat, NEW i \in 1..n, NEW q, q[i] \in Cell \cup {NULL},
           NEW x, AfterStaleLinks(s, q, i - 1, x)
    PROVE  AfterStaleLinks(s, q, i, memory_gc_advise_stale_link(x, q[i]))
<1> DEFINE y == q[i]
<1> DEFINE t == memory_gc_advise_stale_link(x, y)
<1> DEFINE a == Lost(q, i - 1)
<1> DEFINE b == Lost(q, i)
<1>1. i \in Nat /\ i - 1 \in Nat /\ 1..i = 1..i - 1 \cup {i}
  OBVIOUS
<1>2. /\ a \in [Cell -> Nat] /\ b \in [Cell -> Nat] /\ s.refcount \in [Cell -> Nat]
      /\ s.live \subseteq Cell /\ y \in Cell \cup {NULL} /\ NULL \notin Cell
      /\ \A c \in Cell : b[c] = IF y = c THEN a[c] + 1 ELSE a[c]
  BY <1>1, LostType, LostNext, Names DEF Running, Whole, States
<1>3. /\ x \in Whole /\ x.fault \in {"none", "memory.c:465"} /\ x.refcount = Counted(s, a)
      /\ x.reachable = s.reachable /\ x.locked = s.locked /\ x.live = s.live /\ x.fin = s.fin
      /\ x.finalized = s.finalized /\ x.total_alloc = s.total_alloc /\ x.total_free = s.total_free
      /\ x.clean_cycles = IF \E j \in 1..i - 1 : q[j] # NULL THEN 0 ELSE s.clean_cycles
  BY DEF AfterStaleLinks
<1>4. x.fault = "none" =>
        /\ Running(x)
        /\ \A c \in s.live : a[c] > s.refcount[c] => OwnerOf(x, c) = "free_pending"
        /\ \A ow : View(s, ow) => View(x, Dropped(s, ow, a))
  BY DEF AfterStaleLinks
<1>5. AfterStaleLink(x, y, t)
  <2>1. x.fault = "none" => \A c \in x.live : OwnerOf(x, c) # NULL
    BY <1>4 DEF Running
  <2> HIDE DEF y
  <2> QED
    BY <1>2, <1>3, <2>1, StaleLinkIs
<1> HIDE DEF a, b, y, t
<1>6. \A c \in Cell : x.refcount[c] = IF s.refcount[c] > a[c] THEN s.refcount[c] - a[c] ELSE 0
  BY <1>3 DEF Counted
<1>7. t.refcount = Counted(s, b)
  <2>1. CASE ~StaleCounts(x, y)
    <3>1. \A c \in Cell : Counted(s, b)[c] = x.refcount[c]
      BY <1>2, <1>6, <2>1 DEF Counted, StaleCounts
    <3>2. x.refcount \in [Cell -> Nat]
      BY <1>3 DEF Whole, States
    <3> QED
      BY <1>5, <2>1, <3>1, <3>2 DEF AfterStaleLink, Counted
  <2>2. CASE StaleCounts(x, y)
    <3>1. y \in Cell /\ x.refcount \in [Cell -> Nat]
      BY <1>2, <1>3, <2>2 DEF StaleCounts, Whole, States
    <3>2. \A c \in Cell : Counted(s, b)[c] = IF c = y THEN x.refcount[c] - 1 ELSE x.refcount[c]
      BY <1>2, <1>6, <2>2 DEF Counted, StaleCounts
    <3>3. t.refcount = [x.refcount EXCEPT ![y] = @ - 1]
      BY <1>5, <2>2 DEF AfterStaleLink
    <3>4. [x.refcount EXCEPT ![y] = @ - 1] = Counted(s, b)
      BY <3>1, <3>2 DEF Counted
    <3> QED
      BY <3>3, <3>4
  <2> QED
    BY <2>1, <2>2
<1>8. t.clean_cycles = IF \E j \in 1..i : q[j] # NULL THEN 0 ELSE s.clean_cycles
  <2>1. t.clean_cycles = IF y = NULL THEN x.clean_cycles ELSE 0
    BY <1>5 DEF AfterStaleLink
  <2>2. (\E j \in 1..i : q[j] # NULL) <=> (y # NULL \/ \E j \in 1..i - 1 : q[j] # NULL)
    BY <1>1 DEF y
  <2> QED
    BY <1>3, <2>1, <2>2
<1>9. ASSUME t.fault = "none"
      PROVE  /\ Running(t)
             /\ \A c \in s.live : b[c] > s.refcount[c] => OwnerOf(t, c) = "free_pending"
             /\ \A ow : View(s, ow) => View(t, Dropped(s, ow, b))
  <2>1. /\ x.fault = "none" /\ Running(x) /\ t \in Whole
        /\ t.reachable = x.reachable /\ t.locked = x.locked /\ t.live = x.live /\ t.fin = x.fin
        /\ t.finalized = x.finalized /\ t.total_alloc = x.total_alloc /\ t.total_free = x.total_free
        /\ y # NULL /\ x.refcount[y] = 0 => OwnerOf(x, y) = "free_pending" \/ y \notin x.live
        /\ t.dl.owner = IF StaleMoves(x, y) THEN [x.dl.owner EXCEPT ![y] = "free_pending"] ELSE x.dl.owner
        /\ \A ow : View(x, ow) =>
              View(t, IF StaleMoves(x, y) THEN [ow EXCEPT ![y] = "free_pending"] ELSE ow)
    BY <1>4, <1>5, <1>9 DEF AfterStaleLink
  <2>2. Running(t)
    <3>1. "free_pending" \in AllLists \ {"free"}
      BY DEF AllLists
    <3>2. t.dl.owner = x.dl.owner \/ (y \in x.live /\ t.dl.owner = [x.dl.owner EXCEPT ![y] = "free_pending"])
      BY <2>1 DEF StaleMoves
    <3> QED
      BY <1>9, <2>1, <3>1, <3>2, MoveKeepsRunning
  <2>3. \A c \in Cell : OwnerOf(t, c) = IF StaleMoves(x, y) /\ c = y THEN "free_pending" ELSE OwnerOf(x, c)
    BY <1>3, <2>1, OwnersOf DEF OwnerOf, Node
  <2>4. ASSUME NEW c \in s.live, b[c] > s.refcount[c] PROVE OwnerOf(t, c) = "free_pending"
    <3>1. c \in Cell /\ c \in x.live
      BY <1>2, <1>3
    <3>2. CASE c # y
      <4>1. a[c] > s.refcount[c]
        BY <1>2, <2>4, <3>1, <3>2
      <4> QED
        BY <1>4, <2>1, <2>3, <3>1, <3>2, <4>1
    <3>3. CASE c = y
      <4>1. ~(s.refcount[c] > a[c])
        BY <1>2, <2>4, <3>1, <3>3
      <4>2. x.refcount[y] = 0 /\ y # NULL
        BY <1>2, <1>6, <3>1, <3>3, <4>1
      <4> QED
        BY <2>1, <2>3, <3>1, <3>3, <4>2
    <3> QED
      BY <3>2, <3>3
  <2>5. ASSUME NEW ow, View(s, ow) PROVE View(t, Dropped(s, ow, b))
    <3>1. View(x, Dropped(s, ow, a)) /\ Dropped(s, ow, a) \in [Cell -> Places]
      BY <1>4, <2>1, <2>5 DEF View
    <3>2. ASSUME NEW c \in Cell
          PROVE  Drops(s, b, c) <=> Drops(s, a, c) \/ (StaleMoves(x, y) /\ c = y)
      <4>1. CASE c # y
        BY <1>2, <3>2, <4>1 DEF Drops
      <4>2. CASE c = y
        <5>1. b[c] = a[c] + 1 /\ a[c] \in Nat /\ s.refcount[c] \in Nat /\ y # NULL
          BY <1>2, <3>2, <4>2
        <5>2. x.refcount[y] = 1 <=> s.refcount[c] = a[c] + 1
          BY <1>6, <3>2, <4>2, <5>1
        <5> QED
          BY <1>3, <4>2, <5>1, <5>2 DEF Drops, StaleMoves
      <4> QED
        BY <4>1, <4>2
    <3>3. CASE StaleMoves(x, y)
      <4>1. y \in Cell
        BY <1>2, <3>3 DEF StaleMoves
      <4>2. \A c \in Cell : Dropped(s, ow, b)[c] = IF c = y THEN "free_pending" ELSE Dropped(s, ow, a)[c]
        BY <3>2, <3>3 DEF Dropped
      <4>3. Dropped(s, ow, b) = [Dropped(s, ow, a) EXCEPT ![y] = "free_pending"]
        BY <4>1, <4>2 DEF Dropped
      <4> DEFINE ov == Dropped(s, ow, a)
      <4>4. View(x, ov)
        BY <3>1
      <4> HIDE DEF ov
      <4>5. View(t, [ov EXCEPT ![y] = "free_pending"])
        BY <2>1, <3>3, <4>4
      <4> QED
        BY <4>3, <4>5 DEF ov
    <3>4. CASE ~StaleMoves(x, y)
      <4>1. Dropped(s, ow, b) = Dropped(s, ow, a)
        BY <3>2, <3>4 DEF Dropped
      <4> QED
        BY <2>1, <3>1, <3>4, <4>1
    <3> QED
      BY <3>3, <3>4
  <2> QED
    BY <2>2, <2>4, <2>5
<1>10. /\ t \in Whole /\ t.fault \in {"none", "memory.c:465"}
       /\ t.reachable = s.reachable /\ t.locked = s.locked /\ t.live = s.live /\ t.fin = s.fin
       /\ t.finalized = s.finalized /\ t.total_alloc = s.total_alloc /\ t.total_free = s.total_free
  BY <1>3, <1>5 DEF AfterStaleLink
<1> QED
  BY <1>7, <1>8, <1>9, <1>10 DEF AfterStaleLinks, b, t, y

LEMMA StaleRowIs ==
    ASSUME NEW s, Running(s), NEW q \in Seq(Cell \cup {NULL})
    PROVE  \E at : StaleRow(at, s, q) /\ \A i \in 0..Len(q) : AfterStaleLinks(s, q, i, at[i])
<1> DEFINE V == Cell \cup {NULL}
<1> DEFINE X == {x \in Whole : x.fault = "none" => \A c \in x.live : OwnerOf(x, c) # NULL}
<1> DEFINE n == Len(q)
<1> DEFINE Z == [i \in 0..n |-> {x \in X : AfterStaleLinks(s, q, i, x)}]
<1>1. s \in X
  BY DEF Running
<1>2. \A x \in X, v \in V : memory_gc_advise_stale_link(x, v) \in X
  <2> SUFFICES ASSUME NEW x \in X, NEW v \in V PROVE memory_gc_advise_stale_link(x, v) \in X
    OBVIOUS
  <2> DEFINE t == memory_gc_advise_stale_link(x, v)
  <2>1. AfterStaleLink(x, v, t)
    BY StaleLinkIs
  <2> HIDE DEF t
  <2>2. ASSUME t.fault = "none", NEW c \in t.live PROVE OwnerOf(t, c) # NULL
    <3>1. /\ x \in Whole /\ x.fault = "none" /\ t.live = x.live /\ c \in Node /\ OwnerOf(x, c) # NULL
          /\ t.dl.owner = IF StaleMoves(x, v) THEN [x.dl.owner EXCEPT ![v] = "free_pending"] ELSE x.dl.owner
      BY <2>1, <2>2 DEF AfterStaleLink, Whole, States, Node
    <3>2. "free_pending" # NULL
      BY Names DEF AllLists
    <3> QED
      BY <3>1, <3>2, OwnersOf DEF OwnerOf
  <2>3. t \in X
    BY <2>1, <2>2 DEF AfterStaleLink
  <2> QED
    BY <2>3 DEF t
<1>3. n \in Nat /\ \A i \in 1..n : q[i] \in V
  OBVIOUS
<1>4. PICK at : StaleRow(at, s, q)
  <2> HIDE DEF X, V
  <2>1. q \in Seq(V)
    BY DEF V
  <2> QED
    BY <1>1, <1>2, <2>1, Fold_memory_gc_advise_stale_link
<1>5. at[0] \in Z[0]
  <2>1. AfterStaleLinks(s, q, 0, s)
    BY StaleLinksStart
  <2> HIDE DEF X
  <2> QED
    BY <1>1, <1>3, <1>4, <2>1 DEF StaleRow
<1>6. \A i \in 1..n : at[i - 1] \in Z[i - 1] => at[i] \in Z[i]
  <2> SUFFICES ASSUME NEW i \in 1..n, at[i - 1] \in Z[i - 1] PROVE at[i] \in Z[i]
    OBVIOUS
  <2>1. i - 1 \in 0..n /\ i \in 0..n
    BY <1>3
  <2>2. at[i - 1] \in X /\ AfterStaleLinks(s, q, i - 1, at[i - 1])
    BY <2>1
  <2>3. q[i] \in V /\ at[i] = memory_gc_advise_stale_link(at[i - 1], q[i])
    BY <1>3, <1>4 DEF StaleRow
  <2> HIDE DEF X, n
  <2>4. AfterStaleLinks(s, q, i, memory_gc_advise_stale_link(at[i - 1], q[i]))
    BY <1>3, <2>2, <2>3, StaleLinksNext
  <2>5. at[i] \in X /\ AfterStaleLinks(s, q, i, at[i])
    BY <1>2, <2>2, <2>3, <2>4
  <2> QED
    BY <2>1, <2>5
<1> HIDE DEF Z, n
<1>7. \A i \in 0..n : at[i] \in Z[i]
  BY <1>3, <1>5, <1>6, LastOfRow
<1> QED
  BY <1>3, <1>4, <1>7 DEF Z, n

LEMMA StaleLinksIs ==
    ASSUME NEW s, Running(s), NEW q \in Seq(Cell \cup {NULL})
    PROVE  AfterStaleLinks(s, q, Len(q), StaleAll(s, q))
<1>1. PICK at : StaleRow(at, s, q) /\ \A i \in 0..Len(q) : AfterStaleLinks(s, q, i, at[i])
  BY StaleRowIs
<1>2. Len(q) \in 0..Len(q)
  OBVIOUS
<1> QED
  BY <1>1, <1>2 DEF StaleRow

(* The links of a cell that is traced.                                     *)
Traced(s, ow, T) ==
    [c \in Cell |-> IF /\ c \in T
                       /\ OwnerOf(s, c) = Unproc(s) \/ (OwnerOf(s, c) = "roots" /\ c \notin s.locked)
                    THEN "boundary" ELSE ow[c]]
Met(q, i) == {q[j] : j \in 1..i}
AfterTraces(s, q, i, x) ==
    /\ x \in Whole /\ SameData(s, x)
    /\ x.fault \in {"none", "memory.c:519", "memory.c:520", "memory.c:522"}
    /\ x.fault = "none" =>
         /\ Running(x)
         /\ \A c \in Met(q, i) \ {NULL} :
               c \in s.live /\ OwnerOf(s, c) # "free_pending" /\ s.refcount[c] # 0
         /\ \A c \in Cell : OwnerOf(x, c) = IF c \in Met(q, i) /\ TraceMoves(s, c) THEN "boundary"
                                                                                 ELSE OwnerOf(s, c)
         /\ \A ow : View(s, ow) => View(x, Traced(s, ow, Met(q, i)))

LEMMA TracesStart ==
    ASSUME NEW s, Running(s), NEW q
    PROVE  AfterTraces(s, q, 0, s)
<1>1. Met(q, 0) = {}
  BY DEF Met
<1>2. \A ow : View(s, ow) => Traced(s, ow, {}) = ow
  BY DEF View, Traced
<1> QED
  BY <1>1, <1>2 DEF AfterTraces, SameData, Running

LEMMA TracesNext ==
    ASSUME NEW s, Running(s), NEW n \in Nat, NEW i \in 1..n, NEW q, q[i] \in Cell \cup {NULL},
           NEW x, AfterTraces(s, q, i - 1, x)
    PROVE  AfterTraces(s, q, i, dl_cb_try_move_boundary(x, q[i]))
<1> DEFINE y == q[i]
<1> DEFINE t == dl_cb_try_move_boundary(x, y)
<1> DEFINE A == Met(q, i - 1)
<1> DEFINE B == Met(q, i)
<1>1. B = A \cup {y} /\ y \in Cell \cup {NULL}
  <2>1. 1..i = 1..i - 1 \cup {i}
    OBVIOUS
  <2> QED
    BY <2>1 DEF Met
<1>2. /\ x \in Whole /\ SameData(s, x) /\ x.fault \in {"none", "memory.c:519", "memory.c:520", "memory.c:522"}
      /\ x.fault = "none" =>
         /\ Running(x)
         /\ \A c \in A \ {NULL} : c \in s.live /\ OwnerOf(s, c) # "free_pending" /\ s.refcount[c] # 0
         /\ \A c \in Cell : OwnerOf(x, c) = IF c \in A /\ TraceMoves(s, c) THEN "boundary" ELSE OwnerOf(s, c)
         /\ \A ow : View(s, ow) => View(x, Traced(s, ow, A))
  BY DEF AfterTraces
<1>3. AfterTrace(x, y, t)
  <2> HIDE DEF y
  <2> QED
    BY <1>1, <1>2, TraceIs
<1> HIDE DEF y, t, A, B
<1>4. t \in Whole /\ SameData(s, t) /\ t.fault \in {"none", "memory.c:519", "memory.c:520", "memory.c:522"}
  BY <1>2, <1>3 DEF AfterTrace, SameData
<1>5. ASSUME t.fault = "none"
      PROVE  /\ Running(t)
             /\ \A c \in B \ {NULL} : c \in s.live /\ OwnerOf(s, c) # "free_pending" /\ s.refcount[c] # 0
             /\ \A c \in Cell : OwnerOf(t, c) = IF c \in B /\ TraceMoves(s, c) THEN "boundary" ELSE OwnerOf(s, c)
             /\ \A ow : View(s, ow) => View(t, Traced(s, ow, B))
  <2>1. /\ x.fault = "none" /\ Running(x) /\ t \in Whole /\ SameData(x, t)
        /\ y # NULL => y \in x.live /\ OwnerOf(x, y) # "free_pending" /\ x.refcount[y] # 0
        /\ t.dl.owner = IF TraceMoves(x, y) THEN [x.dl.owner EXCEPT ![y] = "boundary"] ELSE x.dl.owner
        /\ \A ow : View(x, ow) => View(t, IF TraceMoves(x, y) THEN [ow EXCEPT ![y] = "boundary"] ELSE ow)
    BY <1>2, <1>3, <1>5 DEF AfterTrace
  <2>2. \A c \in Cell : OwnerOf(x, c) = IF c \in A /\ TraceMoves(s, c) THEN "boundary" ELSE OwnerOf(s, c)
    BY <1>2, <2>1
  <2>3. /\ s.reachable \in Colors /\ Unproc(x) = Unproc(s) /\ x.locked = s.locked /\ x.live = s.live
        /\ x.refcount = s.refcount /\ Unproc(s) # "boundary"
    BY <1>2 DEF Running, Whole, States, SameData, Unproc, OtherColor, Colors
  <2>4. Running(t)
    <3>1. "boundary" \in AllLists \ {"free"}
      BY DEF AllLists
    <3>2. t.dl.owner = x.dl.owner \/ (y \in x.live /\ t.dl.owner = [x.dl.owner EXCEPT ![y] = "boundary"])
      BY <2>1 DEF TraceMoves
    <3> QED
      BY <1>5, <2>1, <3>1, <3>2, MoveKeepsRunning DEF SameData
  <2>5. \A c \in Cell : OwnerOf(t, c) = IF TraceMoves(x, y) /\ c = y THEN "boundary" ELSE OwnerOf(x, c)
    BY <1>2, <2>1, OwnersOf DEF OwnerOf, Node
  <2>6. \A c \in Cell : TraceMoves(s, c) => c # NULL
    BY DEF TraceMoves
  <2>7. \A c \in Cell : TraceMoves(x, c) <=> TraceMoves(s, c) /\ c \notin A
    BY <2>2, <2>3 DEF TraceMoves
  <2>8. \A c \in Cell : OwnerOf(t, c) = IF c \in B /\ TraceMoves(s, c) THEN "boundary" ELSE OwnerOf(s, c)
    BY <1>1, <2>2, <2>5, <2>7 DEF TraceMoves
  <2>9. \A c \in B \ {NULL} : c \in s.live /\ OwnerOf(s, c) # "free_pending" /\ s.refcount[c] # 0
    <3> SUFFICES ASSUME NEW c \in B \ {NULL}
                 PROVE  c \in s.live /\ OwnerOf(s, c) # "free_pending" /\ s.refcount[c] # 0
      OBVIOUS
    <3>1. CASE c \in A
      BY <1>2, <2>1, <3>1
    <3>2. CASE c \notin A
      <4>1. c = y /\ y # NULL /\ c \in Cell
        BY <1>1, <3>2
      <4> QED
        BY <2>1, <2>2, <2>3, <3>2, <4>1
    <3> QED
      BY <3>1, <3>2
  <2>10. ASSUME NEW ow, View(s, ow) PROVE View(t, Traced(s, ow, B))
    <3> DEFINE ov == Traced(s, ow, A)
    <3>1. View(x, ov)
      BY <1>2, <2>1, <2>10
    <3>2. \A S : \A c \in Cell : Traced(s, ow, S)[c] = IF c \in S /\ TraceMoves(s, c) THEN "boundary" ELSE ow[c]
      BY NodesAssumption, Names DEF Traced, TraceMoves
    <3>3. CASE TraceMoves(x, y)
      <4>1. y \in Cell
        BY <1>1, <3>3 DEF TraceMoves
      <4>2. \A c \in Cell : Traced(s, ow, B)[c] = IF c = y THEN "boundary" ELSE ov[c]
        BY <1>1, <2>7, <3>2, <3>3, <4>1
      <4>3. Traced(s, ow, B) = [ov EXCEPT ![y] = "boundary"]
        BY <4>1, <4>2 DEF Traced
      <4> HIDE DEF ov
      <4>4. View(t, [ov EXCEPT ![y] = "boundary"])
        BY <2>1, <3>1, <3>3
      <4> QED
        BY <4>3, <4>4
    <3>4. CASE ~TraceMoves(x, y)
      <4>1. \A c \in Cell : Traced(s, ow, B)[c] = ov[c]
        BY <1>1, <2>7, <3>2, <3>4
      <4>2. Traced(s, ow, B) = ov
        BY <4>1 DEF Traced
      <4> QED
        BY <2>1, <3>1, <3>4, <4>2
    <3> QED
      BY <3>3, <3>4
  <2> QED
    BY <2>4, <2>8, <2>9, <2>10
<1> QED
  BY <1>4, <1>5 DEF AfterTraces, B, t, y

LEMMA TraceRowIs ==
    ASSUME NEW s, Running(s), NEW q \in Seq(Cell \cup {NULL})
    PROVE  \E at : TraceRow(at, s, q) /\ \A i \in 0..Len(q) : AfterTraces(s, q, i, at[i])
<1> DEFINE V == Cell \cup {NULL}
<1> DEFINE n == Len(q)
<1> DEFINE Z == [i \in 0..n |-> {x \in Whole : AfterTraces(s, q, i, x)}]
<1>1. s \in Whole
  BY DEF Running
<1>2. \A x \in Whole, v \in V : dl_cb_try_move_boundary(x, v) \in Whole
  <2> SUFFICES ASSUME NEW x \in Whole, NEW v \in V PROVE dl_cb_try_move_boundary(x, v) \in Whole
    OBVIOUS
  <2>1. AfterTrace(x, v, dl_cb_try_move_boundary(x, v))
    BY TraceIs
  <2> QED
    BY <2>1 DEF AfterTrace
<1>3. n \in Nat /\ \A i \in 1..n : q[i] \in V
  OBVIOUS
<1>4. PICK at : TraceRow(at, s, q)
  <2> HIDE DEF V
  <2>1. q \in Seq(V)
    BY DEF V
  <2> QED
    BY <1>1, <1>2, <2>1, Fold_dl_cb_try_move_boundary
<1>5. at[0] \in Z[0]
  <2>1. AfterTraces(s, q, 0, s)
    BY TracesStart
  <2> QED
    BY <1>1, <1>3, <1>4, <2>1 DEF TraceRow
<1>6. \A i \in 1..n : at[i - 1] \in Z[i - 1] => at[i] \in Z[i]
  <2> SUFFICES ASSUME NEW i \in 1..n, at[i - 1] \in Z[i - 1] PROVE at[i] \in Z[i]
    OBVIOUS
  <2>1. i - 1 \in 0..n /\ i \in 0..n
    BY <1>3
  <2>2. at[i - 1] \in Whole /\ AfterTraces(s, q, i - 1, at[i - 1])
    BY <2>1
  <2>3. q[i] \in V /\ at[i] = dl_cb_try_move_boundary(at[i - 1], q[i])
    BY <1>3, <1>4 DEF TraceRow
  <2> HIDE DEF n
  <2>4. AfterTraces(s, q, i, dl_cb_try_move_boundary(at[i - 1], q[i]))
    BY <1>3, <2>2, <2>3, TracesNext
  <2>5. at[i] \in Whole /\ AfterTraces(s, q, i, at[i])
    BY <1>2, <2>2, <2>3, <2>4
  <2> QED
    BY <2>1, <2>5
<1> HIDE DEF Z, n
<1>7. \A i \in 0..n : at[i] \in Z[i]
  BY <1>3, <1>5, <1>6, LastOfRow
<1> QED
  BY <1>3, <1>4, <1>7 DEF Z, n

LEMMA TracesIs ==
    ASSUME NEW s, Running(s), NEW q \in Seq(Cell \cup {NULL})
    PROVE  AfterTraces(s, q, Len(q), TraceAll(s, q))
<1>1. PICK at : TraceRow(at, s, q) /\ \A i \in 0..Len(q) : AfterTraces(s, q, i, at[i])
  BY TraceRowIs
<1>2. Len(q) \in 0..Len(q)
  OBVIOUS
<1> QED
  BY <1>1, <1>2 DEF TraceRow

-----------------------------------------------------------------------------
(* One iteration of the collector.                                         *)
LEMMA EmptyIs ==
    ASSUME NEW s \in Whole, NEW l \in AllLists, IsEmpty(s, l)
    PROVE  \A n \in Node : OwnerOf(s, n) # l
<1>1. ClosedUnderNext(s.dl, l, {}) /\ {} \in SUBSET Members(s.dl, l)
  BY DEF IsEmpty, dlist_is_empty, ClosedUnderNext
<1>2. Members(s.dl, l) = {}
  BY <1>1 DEF Whole, WellLinked, OnItsList
<1> QED
  BY <1>2 DEF Members, OwnerOf, Node

(* The sentinel is the first of the roots: no root is left to process.     *)
LEMMA NoneAhead ==
    ASSUME NEW s \in Whole, First(s, "roots") = Sentinel, NEW ow, View(s, ow)
    PROVE  Ahead(ow) = {}
<1> DEFINE h == s.dl
<1> DEFINE S == Behind(h, Ahead(ow)) \cup {Sentinel}
<1>1. /\ Cut(h, Ahead(ow)) /\ WellLinked(h) /\ h.next["roots"] = Sentinel /\ "roots" \in AllLists
      /\ Sentinel \in Cell \cup {Sentinel} /\ Sentinel \notin Cell
  BY NodesAssumption DEF View, Whole, First, dlist_first, AllLists
<1>2. S \in SUBSET Members(h, "roots") /\ ClosedUnderNext(h, "roots", S)
  BY <1>1 DEF Members, Behind, ClosedUnderNext, Cut
<1>3. S = Members(h, "roots")
  <2> HIDE DEF S
  <2> QED
    BY <1>1, <1>2 DEF WellLinked, OnItsList
<1>4. \A c \in Ahead(ow) : c \in Cell /\ h.owner[c] = "roots"
  BY DEF Ahead, View, ListOf, OwnerOf
<1>5. \A c \in Ahead(ow) : c \in S
  BY <1>3, <1>4 DEF Members
<1> QED
  BY <1>1, <1>4, <1>5 DEF Behind

(* After an assert failed, the loops do nothing to the lists any more.     *)
LEMMA StaleAfterFault ==
    ASSUME NEW s \in Whole, s.fault # "none", NEW q \in Seq(Cell \cup {NULL})
    PROVE  StaleAll(s, q) \in Whole /\ StaleAll(s, q).fault = s.fault
<1> DEFINE V == Cell \cup {NULL}
<1> DEFINE X == {x \in Whole : x.fault = s.fault}
<1> DEFINE Z == [i \in 0..Len(q) |-> X]
<1>1. \A x \in X, v \in V : memory_gc_advise_stale_link(x, v) \in X
  <2> SUFFICES ASSUME NEW x \in X, NEW v \in V PROVE memory_gc_advise_stale_link(x, v) \in X
    OBVIOUS
  <2>1. AfterStaleLink(x, v, memory_gc_advise_stale_link(x, v))
    BY StaleLinkIs
  <2> QED
    BY <2>1 DEF AfterStaleLink
<1>2. PICK at : StaleRow(at, s, q)
  <2>1. s \in X /\ q \in Seq(V)
    OBVIOUS
  <2> HIDE DEF X, V
  <2> QED
    BY <1>1, <2>1, Fold_memory_gc_advise_stale_link
<1>3. Len(q) \in Nat /\ \A i \in 1..Len(q) : q[i] \in V
  OBVIOUS
<1>4. at[0] \in Z[0] /\ \A i \in 1..Len(q) : at[i - 1] \in Z[i - 1] => at[i] \in Z[i]
  <2>1. \A i \in 0..Len(q) : Z[i] = X
    OBVIOUS
  <2>2. 0 \in 0..Len(q) /\ \A i \in 1..Len(q) : i \in 0..Len(q) /\ i - 1 \in 0..Len(q)
    BY <1>3
  <2>3. s \in X
    OBVIOUS
  <2> HIDE DEF X, V, Z
  <2> QED
    BY <1>1, <1>2, <1>3, <2>1, <2>2, <2>3 DEF StaleRow
<1>5. at[Len(q)] \in Z[Len(q)]
  <2> HIDE DEF Z
  <2>1. \A i \in 0..Len(q) : at[i] \in Z[i]
    BY <1>3, <1>4, LastOfRow
  <2> QED
    BY <1>3, <2>1
<1> QED
  BY <1>2, <1>3, <1>5 DEF StaleRow

LEMMA TraceAfterFault ==
    ASSUME NEW s \in Whole, s.fault # "none", NEW q \in Seq(Cell \cup {NULL})
    PROVE  TraceAll(s, q) \in Whole /\ TraceAll(s, q).fault = s.fault
<1> DEFINE V == Cell \cup {NULL}
<1> DEFINE X == {x \in Whole : x.fault = s.fault}
<1> DEFINE Z == [i \in 0..Len(q) |-> X]
<1>1. \A x \in X, v \in V : dl_cb_try_move_boundary(x, v) \in X
  <2> SUFFICES ASSUME NEW x \in X, NEW v \in V PROVE dl_cb_try_move_boundary(x, v) \in X
    OBVIOUS
  <2>1. AfterTrace(x, v, dl_cb_try_move_boundary(x, v))
    BY TraceIs
  <2> QED
    BY <2>1 DEF AfterTrace
<1>2. PICK at : TraceRow(at, s, q)
  <2>1. s \in X /\ q \in Seq(V)
    OBVIOUS
  <2> HIDE DEF X, V
  <2> QED
    BY <1>1, <2>1, Fold_dl_cb_try_move_boundary
<1>3. Len(q) \in Nat /\ \A i \in 1..Len(q) : q[i] \in V
  OBVIOUS
<1>4. at[0] \in Z[0] /\ \A i \in 1..Len(q) : at[i - 1] \in Z[i - 1] => at[i] \in Z[i]
  <2>1. \A i \in 0..Len(q) : Z[i] = X
    OBVIOUS
  <2>2. 0 \in 0..Len(q) /\ \A i \in 1..Len(q) : i \in 0..Len(q) /\ i - 1 \in 0..Len(q)
    BY <1>3
  <2>3. s \in X
    OBVIOUS
  <2> HIDE DEF X, V, Z
  <2> QED
    BY <1>1, <1>2, <1>3, <2>1, <2>2, <2>3 DEF TraceRow
<1>5. at[Len(q)] \in Z[Len(q)]
  <2> HIDE DEF Z
  <2>1. \A i \in 0..Len(q) : at[i] \in Z[i]
    BY <1>3, <1>4, LastOfRow
  <2> QED
    BY <1>3, <2>1
<1> QED
  BY <1>2, <1>3, <1>5 DEF TraceRow

(* A cell in use is freed, its links first.                                *)
FreeStep(s, q, c) ==
    Check(memcell_free(StaleAll(s, q), c), s.total_free < s.total_alloc, "memory.c:598, 656")
AfterFreeStep(s, q, c, t) ==
    /\ t \in Whole /\ t.fault = StaleAll(s, q).fault /\ t.fault \in {"none", "memory.c:465"}
    /\ t.fault = "none" =>
         /\ Running(t)
         /\ t.refcount = Counted(s, Lost(q, Len(q)))
         /\ t.reachable = s.reachable /\ t.locked = s.locked
         /\ t.clean_cycles = IF \E j \in 1..Len(q) : q[j] # NULL THEN 0 ELSE s.clean_cycles
         /\ \A ow : View(s, ow) =>
              /\ View(t, [Dropped(s, ow, Lost(q, Len(q))) EXCEPT ![c] = "free"])
              /\ \A d \in s.live : Lost(q, Len(q))[d] > s.refcount[d] =>
                    Dropped(s, ow, Lost(q, Len(q)))[d] = "free_pending"

LEMMA FreeIsFewer ==
    ASSUME NEW s, Running(s), NEW c \in s.live
    PROVE  s.total_free < s.total_alloc
<1>1. c \in Allocated(s) /\ FreeCells(s) \in SUBSET (Allocated(s) \ {c})
  BY Names DEF Running, Allocated, FreeCells, AllLists
<1>2. IsFiniteSet(Allocated(s)) /\ Cardinality(Allocated(s)) \in Nat /\ Cardinality(FreeCells(s)) \in Nat
  BY SetsOfCells
<1>3. IsFiniteSet(Allocated(s) \ {c}) /\ Cardinality(Allocated(s) \ {c}) = Cardinality(Allocated(s)) - 1
  BY <1>1, <1>2, FS_RemoveElement
<1>4. Cardinality(FreeCells(s)) <= Cardinality(Allocated(s) \ {c})
  BY <1>1, <1>3, FS_Subset
<1> QED
  BY <1>2, <1>3, <1>4 DEF Running

LEMMA FreeStepIs ==
    ASSUME NEW s, Running(s), NEW q \in Seq(Cell \cup {NULL}), NEW c \in s.live
    PROVE  AfterFreeStep(s, q, c, FreeStep(s, q, c))
<1> DEFINE x == StaleAll(s, q)
<1> DEFINE t == memcell_free(x, c)
<1> DEFINE lost == Lost(q, Len(q))
<1>1. FreeStep(s, q, c) = t
  BY FreeIsFewer DEF FreeStep, Check
<1>2. AfterStaleLinks(s, q, Len(q), x)
  BY StaleLinksIs
<1> HIDE DEF x, lost
<1>3. /\ x \in Whole /\ c \in Cell /\ c \in x.live
      /\ x.fault = "none" => Running(x) /\ OwnerOf(x, c) # NULL
      /\ x.fault \in {"none", "memory.c:465"}
  BY <1>2 DEF AfterStaleLinks, Running
<1>4. AfterFree(x, c, t)
  BY <1>3, FreeIs
<1> HIDE DEF t
<1>5. t \in Whole /\ t.fault = x.fault
  BY <1>4 DEF AfterFree
<1>6. ASSUME t.fault = "none"
      PROVE  /\ Running(t)
             /\ t.refcount = Counted(s, lost) /\ t.reachable = s.reachable /\ t.locked = s.locked
             /\ t.clean_cycles = IF \E j \in 1..Len(q) : q[j] # NULL THEN 0 ELSE s.clean_cycles
  <2>1. Running(x)
    BY <1>3, <1>5, <1>6
  <2>2. Running(t)
    BY <1>3, <1>4, <2>1, FreeKeepsRunning
  <2> QED
    BY <1>2, <1>4, <2>2 DEF AfterStaleLinks, AfterFree, lost
<1>7. ASSUME t.fault = "none", NEW ow, View(s, ow)
      PROVE  /\ View(t, [Dropped(s, ow, lost) EXCEPT ![c] = "free"])
             /\ \A d \in s.live : lost[d] > s.refcount[d] => Dropped(s, ow, lost)[d] = "free_pending"
  <2> DEFINE ov == Dropped(s, ow, lost)
  <2>1. View(x, ov) /\ \A d \in s.live : lost[d] > s.refcount[d] => OwnerOf(x, d) = "free_pending"
    BY <1>2, <1>5, <1>7 DEF AfterStaleLinks, lost
  <2> HIDE DEF ov
  <2>2. View(t, [ov EXCEPT ![c] = "free"])
    BY <1>4, <1>7, <2>1 DEF AfterFree
  <2>3. \A d \in s.live : lost[d] > s.refcount[d] => ov[d] = "free_pending"
    <3>1. s.live \subseteq Cell
      BY DEF Running
    <3>2. \A pl \in Places : ListOf(pl) = "free_pending" => pl = "free_pending"
      BY Names DEF ListOf, Places, AllLists
    <3> QED
      BY <2>1, <3>1, <3>2 DEF View
  <2> QED
    BY <2>2, <2>3 DEF ov
<1>8. AfterFreeStep(s, q, c, t)
  BY <1>3, <1>5, <1>6, <1>7 DEF AfterFreeStep, lost, x
<1> QED
  BY <1>1, <1>8

LEMMA LinksType ==
    ASSUME link \in Heap, NEW c \in Cell
    PROVE  links_cb(c) \in Seq(Cell \cup {NULL}) /\ Len(links_cb(c)) = Len(SlotOrder)
<1>1. Len(SlotOrder) \in Nat /\ DOMAIN SlotOrder = 1..Len(SlotOrder)
      /\ \A i \in 1..Len(SlotOrder) : SlotOrder[i] \in Slot
  BY SlotOrderAssumption
<1>2. \A i \in 1..Len(SlotOrder) : link[<<c, SlotOrder[i]>>] \in Cell \cup {NULL}
  BY <1>1 DEF Heap, Link
<1>3. links_cb(c) = [i \in 1..Len(SlotOrder) |-> link[<<c, SlotOrder[i]>>]]
  BY <1>1 DEF links_cb
<1> QED
  BY <1>1, <1>2, <1>3

(* The first that waits to be freed.                                       *)
AfterPending(s, c, t) ==
    /\ c \in s.live /\ OwnerOf(s, c) = "free_pending"
    /\ t \in Whole /\ t.fault \in {"none", "memory.c:588, 590", "memory.c:465"}
    /\ c \notin s.locked /\ s.refcount[c] = 0 => AfterFreeStep(s, links_cb(c), c, t)
    /\ t.fault = "none" => c \notin s.locked /\ s.refcount[c] = 0 /\ AfterFreeStep(s, links_cb(c), c, t)

LEMMA PendingIs ==
    ASSUME NEW s, Running(s), link \in Heap, ~IsEmpty(s, "free_pending")
    PROVE  AfterPending(s, First(s, "free_pending"), IteratePending(s))
<1> DEFINE c == First(s, "free_pending")
<1> DEFINE t == IteratePending(s)
<1> DEFINE A == c \notin s.locked /\ s.refcount[c] = 0
<1>1. c \in Cell /\ OwnerOf(s, c) = "free_pending"
  BY OnlyRootsHaveSentinel DEF AllLists
<1>2. s \in Whole /\ s.fault = "none" /\ c \in s.live
  BY <1>1, Names DEF Running, AllLists
<1>3. links_cb(c) \in Seq(Cell \cup {NULL})
  BY <1>1, LinksType
<1>4. CASE A
  <2>1. Check(s, c \notin s.locked /\ s.refcount[c] = 0, "memory.c:588, 590") = s
    BY <1>4 DEF Check
  <2>2. t = FreeStep(s, links_cb(c), c)
    BY <2>1 DEF IteratePending, FreeFirst, FreeStep, StaleAll
  <2> HIDE DEF c, t
  <2>3. AfterFreeStep(s, links_cb(c), c, t)
    BY <1>2, <1>3, <2>2, FreeStepIs
  <2> QED
    BY <1>1, <1>2, <1>4, <2>3 DEF AfterPending, AfterFreeStep, c, t
<1>5. CASE ~A
  <2> DEFINE f == [s EXCEPT !.fault = "memory.c:588, 590"]
  <2> DEFINE x == StaleAll(f, links_cb(c))
  <2>1. Check(s, c \notin s.locked /\ s.refcount[c] = 0, "memory.c:588, 590") = f
    BY <1>2, <1>5 DEF Check
  <2>2. Faulted(s, f, "memory.c:588, 590") /\ f.fault # "none"
    BY <1>2, FaultIs DEF Faults
  <2>3. f \in Whole /\ f.fault = "memory.c:588, 590" /\ First(f, "free_pending") = c
    BY <1>2, <2>2 DEF Faulted, First
  <2>4. t = Check(memcell_free(x, c), f.total_free < f.total_alloc, "memory.c:598, 656")
    BY <2>1, <2>3 DEF IteratePending, FreeFirst, StaleAll
  <2> HIDE DEF c, f
  <2>5. x \in Whole /\ x.fault = f.fault
    BY <1>3, <2>3, StaleAfterFault
  <2> HIDE DEF x
  <2>6. AfterFree(x, c, memcell_free(x, c))
    BY <1>1, <2>3, <2>5, FreeIs
  <2>7. t = memcell_free(x, c)
    BY <2>3, <2>4, <2>5, <2>6 DEF Check, AfterFree
  <2> HIDE DEF t
  <2>8. t \in Whole /\ t.fault = "memory.c:588, 590"
    BY <2>3, <2>5, <2>6, <2>7 DEF AfterFree
  <2> QED
    BY <1>1, <1>2, <1>5, <2>8 DEF AfterPending, c, t
<1> QED
  BY <1>4, <1>5

(* The first that was not reached.                                         *)
AfterUnproc(s, c, t) ==
    /\ c \in s.live /\ OwnerOf(s, c) = Unproc(s)
    /\ t \in Whole /\ t.fault \in {"none", "memory.c:643", "memory.c:465"}
    /\ c \notin s.locked => AfterFreeStep(s, links_cb(c), c, t)
    /\ t.fault = "none" => c \notin s.locked /\ AfterFreeStep(s, links_cb(c), c, t)

LEMMA UnprocIs ==
    ASSUME NEW s, Running(s), link \in Heap, ~IsEmpty(s, Unproc(s))
    PROVE  AfterUnproc(s, First(s, Unproc(s)), IterateUnproc(s))
<1> DEFINE l == Unproc(s)
<1> DEFINE c == First(s, l)
<1> DEFINE t == IterateUnproc(s)
<1>0. l \in AllLists \ {"roots"} /\ l # "free" /\ l # NULL
  BY Names DEF AllLists, Colors, Unproc, OtherColor, Running, Whole, States
<1>1. c \in Cell /\ OwnerOf(s, c) = l
  BY <1>0, OnlyRootsHaveSentinel
<1>2. s \in Whole /\ s.fault = "none" /\ c \in s.live
  BY <1>0, <1>1 DEF Running
<1>3. links_cb(c) \in Seq(Cell \cup {NULL})
  BY <1>1, LinksType
<1>4. CASE c \notin s.locked
  <2>1. Check(s, c \notin s.locked, "memory.c:643") = s
    BY <1>4 DEF Check
  <2>2. t = FreeStep(s, links_cb(c), c)
    BY <2>1 DEF IterateUnproc, FreeFirst, FreeStep, StaleAll
  <2> HIDE DEF c, t
  <2>3. AfterFreeStep(s, links_cb(c), c, t)
    BY <1>2, <1>3, <2>2, FreeStepIs
  <2> QED
    BY <1>1, <1>2, <1>4, <2>3 DEF AfterUnproc, AfterFreeStep, c, t
<1>5. CASE c \in s.locked
  <2> DEFINE f == [s EXCEPT !.fault = "memory.c:643"]
  <2> DEFINE x == StaleAll(f, links_cb(c))
  <2>1. Check(s, c \notin s.locked, "memory.c:643") = f
    BY <1>2, <1>5 DEF Check
  <2>2. Faulted(s, f, "memory.c:643") /\ f.fault # "none"
    BY <1>2, FaultIs DEF Faults
  <2>3. f \in Whole /\ f.fault = "memory.c:643" /\ First(f, Unproc(s)) = c
    BY <1>2, <2>2 DEF Faulted, First
  <2>4. t = Check(memcell_free(x, c), f.total_free < f.total_alloc, "memory.c:598, 656")
    BY <2>1, <2>3 DEF IterateUnproc, FreeFirst, StaleAll
  <2> HIDE DEF c, f
  <2>5. x \in Whole /\ x.fault = f.fault
    BY <1>3, <2>3, StaleAfterFault
  <2> HIDE DEF x
  <2>6. AfterFree(x, c, memcell_free(x, c))
    BY <1>1, <2>3, <2>5, FreeIs
  <2>7. t = memcell_free(x, c)
    BY <2>3, <2>4, <2>5, <2>6 DEF Check, AfterFree
  <2> HIDE DEF t
  <2>8. t \in Whole /\ t.fault = "memory.c:643"
    BY <2>3, <2>5, <2>6, <2>7 DEF AfterFree
  <2> QED
    BY <1>1, <1>2, <1>5, <2>8 DEF AfterUnproc, c, t
<1> QED
  BY <1>4, <1>5

(* A cell that is traced goes to a list l that says so.                    *)
AfterTraceStep(s, q, c, place, t) ==
    /\ t \in Whole /\ t.fault = TraceAll(s, q).fault
    /\ t.fault \in {"none", "memory.c:519", "memory.c:520", "memory.c:522"}
    /\ t.fault = "none" =>
         /\ Running(t) /\ SameData(s, t)
         /\ \A d \in Met(q, Len(q)) \ {NULL} :
               d \in s.live /\ OwnerOf(s, d) # "free_pending" /\ s.refcount[d] # 0
         /\ \A ow : View(s, ow) => View(t, [Traced(s, ow, Met(q, Len(q))) EXCEPT ![c] = place])

LEMMA TraceStepIs ==
    ASSUME NEW s, Running(s), NEW q \in Seq(Cell \cup {NULL}), NEW c \in s.live,
           NEW t, NEW place, ListOf(place) \in AllLists \ {"free"},
           LET x == TraceAll(s, q)
           IN  /\ x.fault # "none" => t \in Whole /\ t.fault = x.fault
               /\ Running(x) /\ c \in x.live => Put(x, t, c, place)
    PROVE  AfterTraceStep(s, q, c, place, t)
<1> DEFINE x == TraceAll(s, q)
<1> DEFINE T == Met(q, Len(q))
<1>1. AfterTraces(s, q, Len(q), x)
  BY TracesIs
<1> HIDE DEF x
<1>2. CASE x.fault # "none"
  BY <1>1, <1>2 DEF AfterTraces, AfterTraceStep, x
<1>3. CASE x.fault = "none"
  <2>1. /\ x \in Whole /\ Running(x) /\ SameData(s, x) /\ c \in x.live
        /\ \A d \in T \ {NULL} : d \in s.live /\ OwnerOf(s, d) # "free_pending" /\ s.refcount[d] # 0
        /\ \A ow : View(s, ow) => View(x, Traced(s, ow, T))
    BY <1>1, <1>3 DEF AfterTraces, SameData
  <2> HIDE DEF T
  <2>2. Put(x, t, c, place)
    BY <2>1 DEF x
  <2>3. /\ t \in Whole /\ SameData(x, t) /\ t.fault = "none"
        /\ t.dl.owner = [x.dl.owner EXCEPT ![c] = ListOf(place)]
        /\ \A ow : View(x, ow) => View(t, [ow EXCEPT ![c] = place])
    BY <1>3, <2>2 DEF Put
  <2>4. Running(t)
    BY <2>1, <2>3, MoveKeepsRunning DEF SameData
  <2>5. ASSUME NEW ow, View(s, ow) PROVE View(t, [Traced(s, ow, T) EXCEPT ![c] = place])
    <3> DEFINE ov == Traced(s, ow, T)
    <3>1. View(x, ov)
      BY <2>1, <2>5
    <3> HIDE DEF ov
    <3>2. View(t, [ov EXCEPT ![c] = place])
      BY <2>3, <3>1
    <3> QED
      BY <3>2 DEF ov
  <2>6. SameData(s, t)
    BY <2>1, <2>3 DEF SameData
  <2> QED
    BY <1>3, <2>1, <2>3, <2>4, <2>5, <2>6 DEF AfterTraceStep, T, x
<1> QED
  BY <1>2, <1>3

(* On a state with a fault, a list stays as it is.                         *)
LEMMA ListsStopAtFault ==
    ASSUME NEW x, x.fault # "none"
    PROVE  \A n, p, q : Unlink(x, n) = x /\ InsertBetween(x, p, n, q) = x
BY DEF Unlink, InsertBetween

AfterBoundary(s, c, t) ==
    /\ c \in s.live /\ OwnerOf(s, c) = "boundary"
    /\ t \in Whole
    /\ t.fault \in {"none", "memory.c:610, 611", "memory.c:519", "memory.c:520", "memory.c:522"}
    /\ c \notin s.locked /\ s.refcount[c] # 0 => AfterTraceStep(s, links_cb(c), c, s.reachable, t)
    /\ t.fault = "none" =>
         c \notin s.locked /\ s.refcount[c] # 0 /\ AfterTraceStep(s, links_cb(c), c, s.reachable, t)

LEMMA BoundaryIs ==
    ASSUME NEW s, Running(s), link \in Heap, ~IsEmpty(s, "boundary")
    PROVE  AfterBoundary(s, First(s, "boundary"), IterateBoundary(s))
<1> DEFINE c == First(s, "boundary")
<1> DEFINE A == c \notin s.locked /\ s.refcount[c] # 0
<1> DEFINE f == Check(s, A, "memory.c:610, 611")
<1> DEFINE x == TraceAll(f, links_cb(c))
<1> DEFINE t == memcell_to_reachable(Unlink(x, c), c)
<1>1. c \in Cell /\ OwnerOf(s, c) = "boundary"
  BY OnlyRootsHaveSentinel DEF AllLists
<1>2. s \in Whole /\ s.fault = "none" /\ c \in s.live /\ s.reachable \in Colors
  BY <1>1, Names DEF Running, AllLists, Whole, States
<1>3. links_cb(c) \in Seq(Cell \cup {NULL})
  BY <1>1, LinksType
<1>4. IterateBoundary(s) = t
  BY DEF IterateBoundary, TraceAll
<1>5. x.fault # "none" => t = x
  <2> HIDE DEF c, x
  <2> QED
    BY ListsStopAtFault DEF memcell_to_reachable, InsertLast
<1>6. CASE A
  <2>1. x = TraceAll(s, links_cb(c))
    BY <1>6 DEF Check
  <2>2. AfterTraces(s, links_cb(c), Len(links_cb(c)), x)
    BY <1>3, <2>1, TracesIs
  <2>3. x \in Whole /\ x.reachable = s.reachable
    BY <2>2 DEF AfterTraces, SameData
  <2> HIDE DEF c, f, x
  <2>4. Running(x) /\ c \in x.live => Put(x, t, c, s.reachable)
    <3> SUFFICES ASSUME Running(x), c \in x.live PROVE Put(x, t, c, s.reachable)
      OBVIOUS
    <3>1. OwnerOf(x, c) # NULL
      BY DEF Running
    <3>2. Unlink(x, c).reachable = s.reachable
      BY <1>1, <2>3, UnlinkIs DEF Node, SameData
    <3>3. t = InsertLast(Unlink(x, c), s.reachable, c)
      BY <3>2 DEF memcell_to_reachable
    <3>4. s.reachable \in AllLists \ {"roots"}
      BY <1>2 DEF AllLists, Colors
    <3>5. Put(x, InsertLast(Unlink(x, c), s.reachable, c), c, s.reachable)
      BY <1>1, <2>3, <3>1, <3>4, MoveLast
    <3> QED
      BY <3>3, <3>5
  <2>5. ListOf(s.reachable) \in AllLists \ {"free"}
    BY <1>2 DEF Colors, AllLists, ListOf
  <2> HIDE DEF t
  <2>6. AfterTraceStep(s, links_cb(c), c, s.reachable, t)
    <3> DEFINE q == links_cb(c)
    <3>1. /\ TraceAll(s, q).fault # "none" => t \in Whole /\ t.fault = TraceAll(s, q).fault
          /\ Running(TraceAll(s, q)) /\ c \in TraceAll(s, q).live => Put(TraceAll(s, q), t, c, s.reachable)
      BY <1>5, <2>1, <2>3, <2>4
    <3>2. q \in Seq(Cell \cup {NULL})
      BY <1>3
    <3> HIDE DEF q
    <3>3. AfterTraceStep(s, q, c, s.reachable, t)
      BY <1>2, <2>5, <3>1, <3>2, TraceStepIs
    <3> QED
      BY <3>3 DEF q
  <2>7. AfterBoundary(s, c, t)
    BY <1>1, <1>2, <1>6, <2>6 DEF AfterBoundary, AfterTraceStep, c
  <2> QED
    BY <1>4, <2>7 DEF c
<1>7. CASE ~A
  <2>1. f = [s EXCEPT !.fault = "memory.c:610, 611"]
    BY <1>2, <1>7 DEF Check
  <2>2. Faulted(s, f, "memory.c:610, 611") /\ f.fault # "none"
    BY <1>2, <2>1, FaultIs DEF Faults
  <2> HIDE DEF c, f
  <2>3. f \in Whole /\ f.fault = "memory.c:610, 611"
    BY <1>2, <2>2 DEF Faulted
  <2>4. x \in Whole /\ x.fault = f.fault
    BY <1>3, <2>3, TraceAfterFault
  <2> HIDE DEF x, t
  <2>5. t \in Whole /\ t.fault = "memory.c:610, 611"
    BY <1>5, <2>3, <2>4
  <2>6. AfterBoundary(s, c, t)
    BY <1>1, <1>2, <1>7, <2>5 DEF AfterBoundary
  <2> QED
    BY <1>4, <2>6 DEF c
<1> QED
  BY <1>6, <1>7

AfterRoot(s, c, t) ==
    /\ c \in s.live /\ OwnerOf(s, c) = "roots" /\ \A ow : View(s, ow) => ow[c] = "roots_unproc"
    /\ AfterTraceStep(s, links_cb(c), c, "roots_proc", t)

LEMMA RootIs ==
    ASSUME NEW s, Running(s), link \in Heap, First(s, "roots") # Sentinel
    PROVE  AfterRoot(s, First(s, "roots"), IterateRoot(s))
<1> DEFINE c == First(s, "roots")
<1> DEFINE x == TraceAll(s, links_cb(c))
<1> DEFINE t == memcell_to_roots_proc(Unlink(x, c), c)
<1>0. ~IsEmpty(s, "roots") /\ "roots" \in AllLists
  <2>1. "roots" \in AllLists
    BY DEF AllLists
  <2>2. IsEmpty(s, "roots") => OwnerOf(s, Sentinel) # "roots"
    BY <2>1, EmptyIs DEF Running, Node
  <2> QED
    BY <2>1, <2>2 DEF Running
<1>1. c \in Cell /\ OwnerOf(s, c) = "roots"
  BY <1>0, FirstIsCell
<1>2. s \in Whole /\ s.fault = "none" /\ c \in s.live
  BY <1>1, Names DEF Running, AllLists
<1>3. links_cb(c) \in Seq(Cell \cup {NULL})
  BY <1>1, LinksType
<1>4. IterateRoot(s) = t
  BY DEF IterateRoot, TraceAll
<1>5. x.fault # "none" => t = x
  BY ListsStopAtFault DEF memcell_to_roots_proc
<1>6. \A ow : View(s, ow) => ow[c] = "roots_unproc"
  BY <1>1 DEF View, Cut, First, dlist_first, Ahead
<1>7. AfterTraces(s, links_cb(c), Len(links_cb(c)), x)
  BY <1>3, TracesIs
<1>8. x \in Whole
  BY <1>7 DEF AfterTraces
<1> HIDE DEF c
<1>9. Running(x) /\ c \in x.live => Put(x, t, c, "roots_proc")
  <2> SUFFICES ASSUME Running(x), c \in x.live PROVE Put(x, t, c, "roots_proc")
    OBVIOUS
  <2> HIDE DEF x
  <2>1. x.fault = "none" /\ OwnerOf(x, c) # NULL /\ OwnerOf(x, Sentinel) = "roots"
    BY DEF Running
  <2> QED
    BY <1>1, <1>8, <2>1, MoveRootsProc
<1> HIDE DEF t
<1>10. AfterTraceStep(s, links_cb(c), c, "roots_proc", t)
  <2> DEFINE q == links_cb(c)
  <2>1. /\ TraceAll(s, q).fault # "none" => t \in Whole /\ t.fault = TraceAll(s, q).fault
        /\ Running(TraceAll(s, q)) /\ c \in TraceAll(s, q).live => Put(TraceAll(s, q), t, c, "roots_proc")
    BY <1>5, <1>8, <1>9
  <2>2. q \in Seq(Cell \cup {NULL}) /\ ListOf("roots_proc") \in AllLists \ {"free"}
    BY <1>3 DEF ListOf, AllLists
  <2> HIDE DEF q
  <2>3. AfterTraceStep(s, q, c, "roots_proc", t)
    BY <1>2, <2>1, <2>2, TraceStepIs
  <2> QED
    BY <2>3 DEF q
<1>11. AfterRoot(s, c, t)
  BY <1>1, <1>2, <1>6, <1>10 DEF AfterRoot
<1> QED
  BY <1>4, <1>11 DEF c

(* The two halves of the cycle change their roles: the sentinel goes to    *)
(* the end of the roots.                                                   *)
Recolored(ow) == [c \in Cell |-> IF ow[c] = "roots_proc" THEN "roots_unproc" ELSE ow[c]]
AfterReset(s, t) ==
    /\ t \in Whole /\ t.fault = "none"
    /\ t.reachable = OtherColor(s.reachable) /\ t.clean_cycles = s.clean_cycles + 1
    /\ t.refcount = s.refcount /\ t.locked = s.locked /\ t.live = s.live /\ t.fin = s.fin
    /\ t.finalized = s.finalized /\ t.total_alloc = s.total_alloc /\ t.total_free = s.total_free
    /\ t.dl.owner = s.dl.owner
    /\ \A ow : View(s, ow) /\ Ahead(ow) = {} => View(t, Recolored(ow))

(* t has the lists g, those of s with the sentinel behind the last root.   *)
SentinelLast(h, k, g, p) ==
    /\ k = dlnode_remove(h, Sentinel) /\ p = k.prev["roots"] /\ g = dlnode_insert(k, p, Sentinel, "roots")
    /\ WellLinked(h) /\ WellLinked(k) /\ WellLinked(g) /\ p \in DlNode
    /\ h.owner[Sentinel] = "roots" /\ g.owner = h.owner /\ k.owner = [h.owner EXCEPT ![Sentinel] = NULL]
    /\ \A m \in DlNode : k.next[m] = IF m = h.prev[Sentinel] THEN h.next[Sentinel] ELSE h.next[m]
    /\ \A m \in DlNode : g.next[m] = IF m = Sentinel THEN "roots" ELSE IF m = p THEN Sentinel ELSE k.next[m]

LEMMA MoveSentinel ==
    ASSUME NEW s \in Whole, s.fault = "none", OwnerOf(s, Sentinel) = "roots"
    PROVE  LET v == MoveTo(s, "roots", Sentinel)
           IN  /\ v \in Whole /\ v.fault = "none" /\ SameData(s, v)
               /\ \E k, p : SentinelLast(s.dl, k, v.dl, p)
<1> DEFINE h == s.dl
<1> DEFINE u == Unlink(s, Sentinel)
<1> DEFINE k == u.dl
<1> DEFINE p == k.prev["roots"]
<1> DEFINE v == InsertBetween(u, p, Sentinel, "roots")
<1>0. /\ Sentinel \in Node /\ "roots" # NULL /\ "roots" \in AllLists /\ Sentinel # "roots"
      /\ Sentinel \in DlNode /\ WellLinked(h) /\ h.owner[Sentinel] = "roots"
  BY Names DEF Node, AllLists, Whole, OwnerOf
<1>1. u \in Whole /\ SameData(s, u) /\ u.fault = "none" /\ k = dlnode_remove(h, Sentinel)
  BY <1>0, UnlinkIs
<1>2. /\ k.owner = [h.owner EXCEPT ![Sentinel] = NULL] /\ WellLinked(k)
      /\ \A m \in DlNode : k.next[m] = IF m = h.prev[Sentinel] THEN h.next[Sentinel] ELSE h.next[m]
  <2> HIDE DEF h, k
  <2>1. k = dlnode_remove(h, Sentinel)
    BY <1>1
  <2> QED
    BY <1>0, <2>1, Removal
<1> HIDE DEF u
<1>3. p \in DlNode /\ "roots" \in DlNode /\ Adjacent(k, p, "roots") /\ k.owner[p] = "roots"
  BY <1>0, <1>1, LastNeighbours
<1>4. h.owner \in [DlNode -> AllLists \cup {NULL}]
  BY <1>0 DEF WellLinked, Dlists
<1>5. AssertInsert(k, p, Sentinel, "roots")
  BY <1>0, <1>2, <1>3, <1>4 DEF AssertInsert
<1>6. v \in Whole /\ SameData(u, v) /\ v.fault = "none" /\ v.dl = dlnode_insert(k, p, Sentinel, "roots")
  BY <1>0, <1>1, <1>3, <1>5, InsertIs
<1> DEFINE g == dlnode_insert(k, p, Sentinel, "roots")
<1>7. /\ WellLinked(g) /\ g.owner = [k.owner EXCEPT ![Sentinel] = "roots"]
      /\ \A m \in DlNode : g.next[m] = IF m = Sentinel THEN "roots" ELSE IF m = p THEN Sentinel ELSE k.next[m]
  <2> HIDE DEF k, p
  <2>1. k.owner[p] = "roots"
    BY <1>3
  <2> QED
    BY <1>0, <1>2, <1>3, <1>5, <2>1, Insertion
<1>8. g.owner = h.owner
  <2> HIDE DEF g, k, h
  <2>1. h.owner = [[h.owner EXCEPT ![Sentinel] = NULL] EXCEPT ![Sentinel] = "roots"]
    BY <1>0, <1>4
  <2> QED
    BY <1>2, <1>7, <2>1
<1>9. MoveTo(s, "roots", Sentinel) = v
  BY DEF MoveTo, InsertLast, u
<1> HIDE DEF v
<1>10. SameData(s, v)
  BY <1>1, <1>6 DEF SameData
<1>11. SentinelLast(h, k, v.dl, p)
  <2>1. v.dl = g
    BY <1>6
  <2> HIDE DEF g
  <2>2. SentinelLast(h, k, g, p)
    <3> HIDE DEF h, k
    <3>1. k = dlnode_remove(h, Sentinel)
      BY <1>1
    <3>2. g = dlnode_insert(k, p, Sentinel, "roots")
      BY DEF g
    <3> QED
      BY <1>0, <1>2, <1>3, <1>7, <1>8, <3>1, <3>2 DEF SentinelLast
  <2> QED
    BY <2>1, <2>2
<1> QED
  BY <1>6, <1>9, <1>10, <1>11

LEMMA CutAtTheEnd ==
    ASSUME NEW h, NEW k, NEW g, NEW p, SentinelLast(h, k, g, p), Cut(h, {})
    PROVE  Cut(g, Behind(h, {}))
<1> DEFINE R == Behind(h, {})
<1>1. /\ "roots" \in DlNode /\ Sentinel \in DlNode /\ Cell \subseteq DlNode
      /\ Sentinel \notin Cell /\ "roots" \notin Cell /\ Sentinel # "roots" /\ "roots" # NULL /\ "roots" \in AllLists
  BY Names, NodesAssumption DEF AllLists, Node
<1>2. /\ h.next["roots"] = Sentinel
      /\ \A n \in R \cup {Sentinel} : h.next[n] \in R \cup {"roots"}
  BY DEF Cut
<1>3. h.owner["roots"] = "roots" /\ h.owner[Sentinel] = "roots" /\ \A n \in R : n \in Cell /\ h.owner[n] = "roots"
  BY <1>1 DEF SentinelLast, WellLinked, IsRing, Behind
<1>4. h.prev[Sentinel] = "roots"
  <2>1. "roots" \in Linked(h)
    BY <1>1, <1>3 DEF Linked
  <2>2. \A n \in Linked(h) : h.prev[h.next[n]] = n
    BY DEF SentinelLast, WellLinked, IsRing
  <2> QED
    BY <1>2, <2>1, <2>2
<1>5. \A n \in R \cup {"roots"} : k.next[n] \in R \cup {"roots"}
  BY <1>1, <1>2, <1>3, <1>4 DEF SentinelLast
<1>6. \A n \in R \cup {"roots"} : n \in Linked(k)
  BY <1>1, <1>3 DEF SentinelLast, Linked, WellLinked, Dlists
<1>7. \A n \in R \cup {"roots"} : k.next[n] = "roots" => n = p
  BY <1>6 DEF SentinelLast, WellLinked, IsRing
<1>8. \A n \in R \cup {"roots"} : g.next[n] \in R \cup {Sentinel}
  BY <1>1, <1>3, <1>5, <1>7 DEF SentinelLast
<1>9. g.next[Sentinel] = "roots" /\ g.owner[Sentinel] = "roots"
  BY <1>1, <1>3 DEF SentinelLast
<1>10. Behind(g, R) = {}
  BY DEF SentinelLast, Behind
<1> QED
  BY <1>8, <1>9, <1>10 DEF Cut

LEMMA ResetIs ==
    ASSUME NEW s, Running(s), s.clean_cycles # 2
    PROVE  AfterReset(s, IterateReset(s))
<1> DEFINE v == MoveTo(s, "roots", Sentinel)
<1> DEFINE t == IterateReset(s)
<1>1. s \in Whole /\ s.fault = "none" /\ OwnerOf(s, Sentinel) = "roots"
  BY DEF Running
<1>2. v \in Whole /\ v.fault = "none" /\ SameData(s, v) /\ \E k, p : SentinelLast(s.dl, k, v.dl, p)
  BY <1>1, MoveSentinel
<1>3. t = [v EXCEPT !.reachable = OtherColor(@), !.clean_cycles = @ + 1]
  BY DEF IterateReset
<1> HIDE DEF v, t
<1>4. v \in States /\ WellLinked(v.dl) /\ v.reachable = s.reachable /\ v.clean_cycles = s.clean_cycles
      /\ v.clean_cycles \in 0..1
  <2>1. v \in States /\ v.clean_cycles \in 0..2
    BY <1>2 DEF Whole, States
  <2> QED
    BY <1>2, <2>1 DEF Whole, SameData
<1>5. OtherColor(v.reachable) \in Colors /\ v.clean_cycles + 1 \in 0..2
  BY <1>4 DEF OtherColor, Colors
<1>6. t \in States
  BY <1>3, <1>4, <1>5 DEF States
<1>7. /\ t.dl = v.dl /\ t.fault = v.fault /\ t.locked = v.locked /\ t.clean_cycles = v.clean_cycles + 1
      /\ t.reachable = OtherColor(v.reachable) /\ t.refcount = v.refcount /\ t.live = v.live /\ t.fin = v.fin
      /\ t.finalized = v.finalized /\ t.total_alloc = v.total_alloc /\ t.total_free = v.total_free
  BY <1>3, <1>4 DEF States
<1>8. t \in Whole
  BY <1>4, <1>6, <1>7 DEF Whole
<1>9. PICK k, p : SentinelLast(s.dl, k, v.dl, p)
  BY <1>2
<1>10. ASSUME NEW ow, View(s, ow), Ahead(ow) = {} PROVE View(t, Recolored(ow))
  <2>1. Cut(v.dl, Behind(s.dl, {}))
    BY <1>9, <1>10, CutAtTheEnd DEF View
  <2>2. ow \in [Cell -> Places] /\ \A c \in Cell : s.dl.owner[c] = ListOf(ow[c]) /\ ow[c] # "roots_unproc"
    BY <1>10 DEF View, OwnerOf, Ahead
  <2>3. Recolored(ow) \in [Cell -> Places]
    BY <2>2 DEF Recolored, Places
  <2>4. \A c \in Cell : OwnerOf(t, c) = ListOf(Recolored(ow)[c])
    BY <1>7, <1>9, <2>2 DEF SentinelLast, OwnerOf, Recolored, ListOf
  <2>5. Ahead(Recolored(ow)) = Behind(s.dl, {})
    BY <2>2, Names DEF Ahead, Recolored, Behind, ListOf, Places, AllLists
  <2> QED
    BY <1>7, <2>1, <2>3, <2>4, <2>5 DEF View
<1>11. t.dl.owner = s.dl.owner
  BY <1>7, <1>9 DEF SentinelLast
<1>12. AfterReset(s, t)
  BY <1>2, <1>4, <1>7, <1>8, <1>10, <1>11 DEF AfterReset, SameData
<1> QED
  BY <1>12 DEF t

LEMMA ResetKeepsRunning ==
    ASSUME NEW s, Running(s), NEW t, AfterReset(s, t)
    PROVE  Running(t)
<1>1. "boundary" \in AllLists \ {"free"}
  BY DEF AllLists
<1> QED
  BY <1>1, MoveKeepsRunning DEF AfterReset

(* Which part of memory.c:581-677 an iteration runs.                       *)
LEMMA OneOfFive ==
    ASSUME NEW s
    PROVE  \/ ~IsEmpty(s, "free_pending") /\ memory_gc_iterate(s) = IteratePending(s)
           \/ /\ IsEmpty(s, "free_pending") /\ ~IsEmpty(s, "boundary")
              /\ memory_gc_iterate(s) = IterateBoundary(s)
           \/ /\ IsEmpty(s, "free_pending") /\ IsEmpty(s, "boundary")
              /\ \/ First(s, "roots") # Sentinel /\ memory_gc_iterate(s) = IterateRoot(s)
                 \/ /\ First(s, "roots") = Sentinel
                    /\ \/ ~IsEmpty(s, Unproc(s)) /\ memory_gc_iterate(s) = IterateUnproc(s)
                       \/ IsEmpty(s, Unproc(s)) /\ memory_gc_iterate(s) = IterateReset(s)
<1>1. CASE ~IsEmpty(s, "free_pending")
  BY <1>1 DEF memory_gc_iterate
<1>2. CASE IsEmpty(s, "free_pending") /\ ~IsEmpty(s, "boundary")
  BY <1>2 DEF memory_gc_iterate
<1>3. CASE IsEmpty(s, "free_pending") /\ IsEmpty(s, "boundary") /\ First(s, "roots") # Sentinel
  BY <1>3 DEF memory_gc_iterate
<1>4. CASE IsEmpty(s, "free_pending") /\ IsEmpty(s, "boundary") /\ First(s, "roots") = Sentinel
  <2>1. memory_gc_iterate(s) = IF ~IsEmpty(s, Unproc(s)) THEN IterateUnproc(s) ELSE IterateReset(s)
    BY <1>4 DEF memory_gc_iterate
  <2> QED
    BY <1>4, <2>1
<1> QED
  BY <1>1, <1>2, <1>3, <1>4

LEMMA IterateIsProper ==
    ASSUME NEW s, Running(s), link \in Heap, s.clean_cycles # 2
    PROVE  Proper(memory_gc_iterate(s))
<1> DEFINE t == memory_gc_iterate(s)
<1>1. CASE ~IsEmpty(s, "free_pending") /\ t = IteratePending(s)
  <2>1. AfterPending(s, First(s, "free_pending"), t)
    BY <1>1, PendingIs
  <2> HIDE DEF t
  <2> QED
    BY <2>1 DEF AfterPending, AfterFreeStep, Proper, Impossible, t
<1>2. CASE ~IsEmpty(s, "boundary") /\ t = IterateBoundary(s)
  <2>1. AfterBoundary(s, First(s, "boundary"), t)
    BY <1>2, BoundaryIs
  <2> QED
    BY <2>1 DEF AfterBoundary, AfterTraceStep, Proper, Impossible
<1>3. CASE First(s, "roots") # Sentinel /\ t = IterateRoot(s)
  <2>1. AfterRoot(s, First(s, "roots"), t)
    BY <1>3, RootIs
  <2> QED
    BY <2>1 DEF AfterRoot, AfterTraceStep, Proper, Impossible
<1>4. CASE ~IsEmpty(s, Unproc(s)) /\ t = IterateUnproc(s)
  <2>1. AfterUnproc(s, First(s, Unproc(s)), t)
    BY <1>4, UnprocIs
  <2> QED
    BY <2>1 DEF AfterUnproc, AfterFreeStep, Proper, Impossible
<1>5. CASE t = IterateReset(s)
  <2>1. AfterReset(s, t)
    BY <1>5, ResetIs
  <2>2. Running(t)
    BY <2>1, ResetKeepsRunning
  <2> QED
    BY <2>1, <2>2 DEF AfterReset, Proper, Impossible
<1> QED
  BY OneOfFive, <1>1, <1>2, <1>3, <1>4, <1>5

-----------------------------------------------------------------------------
(* The steps of the program.                                               *)

(* The first memory state: the sentinel alone on the roots.                *)
LEMMA InitRuns == Running(memory_state_init)
<1> DEFINE s == memory_state_init
<1> DEFINE h == dlist_insertlast(dlist_init, "roots", Sentinel)
<1>1. /\ WellLinked(h)
      /\ h.owner = [n \in DlNode |-> IF n \in AllLists THEN n ELSE IF n = Sentinel THEN "roots" ELSE NULL]
  BY FirstLists
<1>2. Cell \subseteq DlNode /\ Sentinel \in DlNode /\ Sentinel \notin Cell /\ Sentinel \notin AllLists
      /\ \A c \in Cell : c \notin AllLists /\ c # Sentinel
  BY Names, NodesAssumption DEF Node
<1>3. s.dl = h
  BY DEF memory_state_init
<1> HIDE DEF h
<1>4. \A c \in Cell : OwnerOf(s, c) = NULL
  BY <1>1, <1>2, <1>3 DEF OwnerOf
<1>5. OwnerOf(s, Sentinel) = "roots"
  BY <1>1, <1>2, <1>3 DEF OwnerOf
<1>6. s \in States
  <2>1. h \in Dlists
    BY <1>1 DEF WellLinked
  <2> QED
    BY <2>1 DEF memory_state_init, States, Colors, Faults, h
<1>7. s \in Whole
  BY <1>1, <1>3, <1>6 DEF Whole
<1>8. FreeCells(s) = {} /\ Allocated(s) = {}
  BY <1>4, Names DEF FreeCells, Allocated, AllLists
<1>9. s.fault = "none" /\ s.live = {} /\ s.fin = {} /\ s.total_free = 0 /\ s.total_alloc = 0
  BY DEF memory_state_init
<1>10. Cardinality(FreeCells(s)) = 0 /\ Cardinality(Allocated(s)) = 0
  BY <1>8, FS_EmptySet
<1>11. s.live = {c \in Cell : OwnerOf(s, c) \notin {NULL, "free"}}
  BY <1>4, <1>9
<1> HIDE DEF s
<1>12. Running(s)
  BY <1>5, <1>7, <1>9, <1>10, <1>11 DEF Running
<1> QED
  BY <1>12 DEF s

LEMMA BlobKeepsRunning ==
    ASSUME NEW t \in Whole, NEW c \in Cell, t.fault = "none" => Running(t) /\ c \in t.live /\ t.finalized[c] = 0,
           NEW u \in {t, [t EXCEPT !.fin = @ \cup {c}]}
    PROVE  u \in Whole /\ u.fault = t.fault /\ (u.fault = "none" => Running(u))
<1>1. CASE u = t
  BY <1>1
<1>2. CASE u = [t EXCEPT !.fin = @ \cup {c}]
  <2>1. t \in States /\ WellLinked(t.dl)
    BY DEF Whole
  <2>2. u \in States
    BY <1>2, <2>1 DEF States
  <2>3. /\ u.dl = t.dl /\ u.fault = t.fault /\ u.live = t.live /\ u.finalized = t.finalized
        /\ u.total_free = t.total_free /\ u.total_alloc = t.total_alloc /\ u.fin = t.fin \cup {c}
    BY <1>2, <2>1 DEF States
  <2>4. u \in Whole
    BY <2>1, <2>2, <2>3 DEF Whole
  <2>5. FreeCells(u) = FreeCells(t) /\ Allocated(u) = Allocated(t) /\ \A n : OwnerOf(u, n) = OwnerOf(t, n)
    BY <2>3 DEF FreeCells, Allocated, OwnerOf
  <2>6. ASSUME u.fault = "none" PROVE Running(u)
    <3>1. Running(t) /\ c \in t.live /\ t.finalized[c] = 0
      BY <2>3, <2>6
    <3> QED
      BY <2>3, <2>4, <2>5, <3>1 DEF Running
  <2> QED
    BY <2>3, <2>4, <2>6
<1> QED
  BY <1>1, <1>2

LEMMA RequestIsProper ==
    ASSUME Running(ms), NEW blob \in BOOLEAN, MemoryRequest(blob)
    PROVE  \E u : \E c \in Cell : Becomes(u) /\ Proper(u) /\ link' = Cleared(c)
<1>1. CASE ~IsEmpty(ms, "free")
  <2> DEFINE c == First(ms, "free")
  <2> DEFINE t == Reused(ms)
  <2> DEFINE u == WithFinalizer(t, c, blob)
  <2>1. /\ c \in Cell /\ OwnerOf(ms, c) = "free" /\ AfterRequest(ms, c, TRUE, t)
        /\ t.fault \in {"none", "memory.c:316", "memory.c:317"}
    BY <1>1, ReusedIs
  <2>2. Becomes(u) /\ link' = Cleared(c)
    BY <1>1 DEF MemoryRequest
  <2>3. u \in {t, [t EXCEPT !.fin = @ \cup {c}]}
    BY DEF WithFinalizer
  <2> HIDE DEF c, t, u
  <2>4. t.fault = "none" => Running(t)
    BY <2>1, RequestKeepsRunning
  <2>5. t \in Whole /\ c \in t.live /\ t.finalized[c] = 0
    <3>1. ms.finalized \in [Cell -> Nat]
      BY DEF Running, Whole, States
    <3> QED
      BY <2>1, <3>1 DEF AfterRequest
  <2>6. u \in Whole /\ u.fault = t.fault /\ (u.fault = "none" => Running(u))
    BY <2>1, <2>3, <2>4, <2>5, BlobKeepsRunning
  <2>7. Proper(u)
    BY <2>1, <2>6 DEF Proper, Impossible
  <2> QED
    BY <2>1, <2>2, <2>7
<1>2. CASE IsEmpty(ms, "free")
  <2>1. PICK c \in Cell : OwnerOf(ms, c) = NULL /\ Becomes(WithFinalizer(Fresh(ms, c), c, blob)) /\ link' = Cleared(c)
    BY <1>2 DEF MemoryRequest
  <2> DEFINE t == Fresh(ms, c)
  <2> DEFINE u == WithFinalizer(t, c, blob)
  <2>2. AfterRequest(ms, c, FALSE, t) /\ t.fault = "none"
    BY <2>1, FreshIs
  <2>3. u \in {t, [t EXCEPT !.fin = @ \cup {c}]}
    BY DEF WithFinalizer
  <2>4. Becomes(u)
    BY <2>1
  <2> HIDE DEF t, u
  <2>5. Running(t)
    BY <2>1, <2>2, RequestKeepsRunning
  <2>6. t \in Whole /\ c \in t.live /\ t.finalized[c] = 0
    <3>1. ms.finalized \in [Cell -> Nat]
      BY DEF Running, Whole, States
    <3> QED
      BY <2>2, <3>1 DEF AfterRequest
  <2>7. u \in Whole /\ u.fault = t.fault /\ (u.fault = "none" => Running(u))
    BY <2>3, <2>5, <2>6, BlobKeepsRunning
  <2>8. Proper(u)
    BY <2>2, <2>7 DEF Proper, Impossible
  <2> QED
    BY <2>1, <2>4, <2>8
<1> QED
  BY <1>1, <1>2

LEMMA NewLinkIsProper ==
    ASSUME NEW s, Running(s), NEW y \in Cell \cup {NULL}, NEW t, AfterNewLink(s, y, t)
    PROVE  t \in Whole /\ t.fault \in {"none", "memory.c:431", "memory.c:432"} /\ (t.fault = "none" => Running(t))
<1>1. t \in Whole /\ t.fault \in {"none", "memory.c:431", "memory.c:432"}
  BY DEF AfterNewLink, Running
<1>2. ASSUME t.fault = "none" PROVE Running(t)
  <2>1. "boundary" \in AllLists \ {"free"}
    BY DEF AllLists
  <2>2. t.dl.owner = s.dl.owner \/ (y \in s.live /\ t.dl.owner = [s.dl.owner EXCEPT ![y] = "boundary"])
    BY <1>2 DEF AfterNewLink, NewLinkMoves
  <2>3. /\ t.live = s.live /\ t.fin = s.fin /\ t.finalized = s.finalized
        /\ t.total_alloc = s.total_alloc /\ t.total_free = s.total_free
    BY DEF AfterNewLink
  <2> QED
    BY <1>1, <1>2, <2>1, <2>2, <2>3, MoveKeepsRunning
<1> QED
  BY <1>1, <1>2

LEMMA StaleLinkIsProper ==
    ASSUME NEW s, Running(s), NEW y \in Cell \cup {NULL}, NEW t, AfterStaleLink(s, y, t)
    PROVE  t \in Whole /\ t.fault \in {"none", "memory.c:465"} /\ (t.fault = "none" => Running(t))
<1>1. t \in Whole /\ t.fault \in {"none", "memory.c:465"}
  BY DEF AfterStaleLink, Running
<1>2. ASSUME t.fault = "none" PROVE Running(t)
  <2>1. "free_pending" \in AllLists \ {"free"}
    BY DEF AllLists
  <2>2. t.dl.owner = s.dl.owner \/ (y \in s.live /\ t.dl.owner = [s.dl.owner EXCEPT ![y] = "free_pending"])
    BY <1>2 DEF AfterStaleLink, StaleMoves
  <2>3. /\ t.live = s.live /\ t.fin = s.fin /\ t.finalized = s.finalized
        /\ t.total_alloc = s.total_alloc /\ t.total_free = s.total_free
    BY DEF AfterStaleLink
  <2> QED
    BY <1>1, <1>2, <2>1, <2>2, <2>3, MoveKeepsRunning
<1> QED
  BY <1>1, <1>2

(* A link is written: the advice about the new one comes first.            *)
Patched(s, y, z) == memory_gc_advise_stale_link(memory_gc_advise_new_link(s, y), z)
LEMMA PatchIsProper ==
    ASSUME NEW s, Running(s), NEW y \in Cell \cup {NULL}, NEW z \in Cell \cup {NULL}
    PROVE  /\ AfterNewLink(s, y, memory_gc_advise_new_link(s, y))
           /\ AfterStaleLink(memory_gc_advise_new_link(s, y), z, Patched(s, y, z))
           /\ Proper(Patched(s, y, z))
<1> DEFINE x == memory_gc_advise_new_link(s, y)
<1> DEFINE t == Patched(s, y, z)
<1>1. s \in Whole
  BY DEF Running
<1>2. AfterNewLink(s, y, x)
  BY <1>1, NewLinkIs
<1>3. t = memory_gc_advise_stale_link(x, z)
  BY DEF Patched
<1> HIDE DEF x
<1>4. x \in Whole /\ x.fault \in {"none", "memory.c:431", "memory.c:432"} /\ (x.fault = "none" => Running(x))
  BY <1>2, NewLinkIsProper
<1>5. x.fault = "none" => \A c \in x.live : OwnerOf(x, c) # NULL
  BY <1>4 DEF Running
<1>6. AfterStaleLink(x, z, t)
  BY <1>3, <1>4, <1>5, StaleLinkIs
<1> HIDE DEF t
<1>7. t \in Whole /\ (x.fault # "none" => t.fault = x.fault)
  BY <1>6 DEF AfterStaleLink
<1>8. x.fault = "none" => t.fault \in {"none", "memory.c:465"} /\ (t.fault = "none" => Running(t))
  BY <1>4, <1>6, StaleLinkIsProper
<1>9. Proper(t)
  BY <1>4, <1>7, <1>8 DEF Proper, Impossible
<1> QED
  BY <1>2, <1>6, <1>9 DEF x, t

LEMMA LockIsProper ==
    ASSUME NEW s, Running(s), NEW c \in s.live
    PROVE  Proper(memory_gc_lock(s, c))
<1> DEFINE t == memory_gc_lock(s, c)
<1>1. AfterLock(s, c, t)
  BY LockIs
<1> HIDE DEF t
<1>2. "roots" \in AllLists \ {"free"}
  BY DEF AllLists
<1>3. /\ t \in Whole /\ t.fault = "none" /\ t.live = s.live /\ t.fin = s.fin /\ t.finalized = s.finalized
      /\ t.total_alloc = s.total_alloc /\ t.total_free = s.total_free
      /\ t.dl.owner = s.dl.owner \/ t.dl.owner = [s.dl.owner EXCEPT ![c] = "roots"]
  BY <1>1 DEF AfterLock
<1>4. Running(t)
  BY <1>2, <1>3, MoveKeepsRunning
<1> QED
  BY <1>3, <1>4 DEF Proper, Impossible, t

LEMMA UnlockIsProper ==
    ASSUME NEW s, Running(s), NEW c \in Cell, OwnerOf(s, c) = "roots"
    PROVE  Proper(memory_gc_unlock(s, c))
<1> DEFINE t == memory_gc_unlock(s, c)
<1> DEFINE l == IF s.refcount[c] # 0 THEN "boundary" ELSE "free_pending"
<1>1. AfterUnlock(s, c, t)
  BY UnlockIs
<1> HIDE DEF t
<1>2. l \in AllLists \ {"free"}
  BY DEF AllLists
<1>3. /\ t \in Whole /\ t.fault = "none" /\ t.live = s.live /\ t.fin = s.fin /\ t.finalized = s.finalized
      /\ t.total_alloc = s.total_alloc /\ t.total_free = s.total_free
      /\ t.dl.owner = [s.dl.owner EXCEPT ![c] = l]
  BY <1>1 DEF AfterUnlock
<1>4. c \in s.live
  BY Names DEF Running, AllLists
<1> HIDE DEF l
<1>5. Running(t)
  BY <1>2, <1>3, <1>4, MoveKeepsRunning
<1> QED
  BY <1>3, <1>5 DEF Proper, Impossible, t

LEMMA OutOfMemoryIsProper ==
    ASSUME NEW s, Running(s)
    PROVE  Proper([s EXCEPT !.fault = "memory.c:330"])
<1> DEFINE t == [s EXCEPT !.fault = "memory.c:330"]
<1>1. s \in Whole /\ s \in States /\ s.fault = "none"
  BY DEF Running, Whole
<1>2. Faulted(s, t, "memory.c:330") /\ t.fault # "none"
  BY <1>1, FaultIs DEF Faults
<1>3. t.fault = "memory.c:330"
  BY <1>1 DEF States
<1> HIDE DEF t
<1>4. Proper(t)
  BY <1>2, <1>3 DEF Faulted, Proper, Impossible
<1> QED
  BY <1>4 DEF t

-----------------------------------------------------------------------------
(* memory_state_reset.  In its loops the sentinel may be on no list, and   *)
(* the counters are not looked at.                                         *)
Emptying(s) ==
    /\ s \in Whole /\ s.fault = "none" /\ OwnerOf(s, Sentinel) \in {NULL, "roots"}
    /\ s.live = {c \in Cell : OwnerOf(s, c) \notin {NULL, "free"}}
    /\ \A c \in s.fin : s.finalized[c] = IF c \in s.live THEN 0 ELSE 1

On(s, l) == {n \in Node : OwnerOf(s, n) = l}
Fewer(s, t, l) == \E n \in On(s, l) : On(t, l) = On(s, l) \ {n}

LEMMA NodesOn ==
    \A s, l : /\ IsFiniteSet(On(s, l)) /\ Cardinality(On(s, l)) \in 0..Cardinality(Cell) + 1
              /\ Cardinality(Cell) \in Nat
<1> TAKE s, l
<1>1. IsFiniteSet(Cell) /\ Sentinel \notin Cell /\ Node = Cell \cup {Sentinel}
  BY CellAssumption, NodesAssumption DEF Node
<1>2. IsFiniteSet(Node) /\ Cardinality(Node) = Cardinality(Cell) + 1 /\ Cardinality(Cell) \in Nat
  BY <1>1, FS_AddElement, FS_CardinalityType
<1>3. On(s, l) \in SUBSET Node
  BY DEF On
<1>4. IsFiniteSet(On(s, l)) /\ Cardinality(On(s, l)) <= Cardinality(Node)
  BY <1>2, <1>3, FS_Subset
<1>5. Cardinality(On(s, l)) \in Nat
  BY <1>4, FS_CardinalityType
<1> QED
  BY <1>2, <1>4, <1>5

(* One turn frees the first cell of the list, or takes the sentinel off.   *)
AfterFreeFront(s, l, t) ==
    /\ Emptying(t)
    /\ \A k \in AllLists \ {"free"} : On(t, k) \subseteq On(s, k)
    /\ On(s, l) = {} \/ \E n \in On(s, l) : On(t, l) = On(s, l) \ {n}

LEMMA SentinelOut ==
    ASSUME NEW s, Emptying(s), NEW l \in AllLists \ {"free"}, ~IsEmpty(s, l), First(s, l) = Sentinel
    PROVE  AfterFreeFront(s, l, FreeFront(s, l))
<1> DEFINE t == Unlink(s, Sentinel)
<1>0. Sentinel \in Node /\ Sentinel \notin Cell /\ NULL \notin AllLists /\ s \in Whole /\ s.fault = "none"
  BY Names, NodesAssumption DEF Node, Emptying
<1>1. OwnerOf(s, Sentinel) = l
  BY <1>0, FirstIs
<1>2. FreeFront(s, l) = t
  BY DEF FreeFront
<1>3. /\ t \in Whole /\ SameData(s, t) /\ t.fault = "none" /\ t.dl = dlnode_remove(s.dl, Sentinel)
  BY <1>0, <1>1, UnlinkIs
<1>4. t.dl.owner = [s.dl.owner EXCEPT ![Sentinel] = NULL]
  BY <1>0, <1>1, <1>3, Removal DEF Whole, OwnerOf
<1> HIDE DEF t
<1>5. \A n \in Node : OwnerOf(t, n) = IF n = Sentinel THEN NULL ELSE OwnerOf(s, n)
  BY <1>0, <1>4, OwnersOf DEF OwnerOf
<1>6. \A k \in AllLists : On(t, k) = On(s, k) \ {Sentinel}
  BY <1>0, <1>5 DEF On
<1>7. Sentinel \in On(s, l)
  BY <1>0, <1>1 DEF On
<1>8. {c \in Cell : OwnerOf(t, c) \notin {NULL, "free"}} = {c \in Cell : OwnerOf(s, c) \notin {NULL, "free"}}
  BY <1>0, <1>5 DEF Node
<1>9. Emptying(t)
  BY <1>0, <1>3, <1>5, <1>8 DEF Emptying, SameData
<1>10. AfterFreeFront(s, l, t)
  BY <1>6, <1>7, <1>9 DEF AfterFreeFront
<1> QED
  BY <1>2, <1>10

LEMMA FrontFreed ==
    ASSUME NEW s, Emptying(s), NEW l \in AllLists \ {"free"}, ~IsEmpty(s, l), First(s, l) # Sentinel
    PROVE  AfterFreeFront(s, l, FreeFront(s, l))
<1> DEFINE c == First(s, l)
<1> DEFINE t == memcell_free(s, c)
<1>0. Sentinel \notin Cell /\ NULL \notin AllLists /\ s \in Whole /\ s.fault = "none"
      /\ Cell \subseteq Node /\ l # NULL /\ l # "free" /\ "free" \in AllLists
  BY Names, NodesAssumption DEF Node, Emptying, AllLists
<1>1. c \in Cell /\ OwnerOf(s, c) = l
  BY <1>0, FirstIs DEF Node
<1>2. FreeFront(s, l) = t
  BY DEF FreeFront
<1> HIDE DEF c
<1>3. AfterFree(s, c, t)
  BY <1>0, <1>1, FreeIs
<1> HIDE DEF t
<1>4. t \in Whole /\ t.fault = "none" /\ t.dl.owner = [s.dl.owner EXCEPT ![c] = "free"]
  BY <1>0, <1>3 DEF AfterFree
<1>5. \A n \in Node : OwnerOf(t, n) = IF n = c THEN "free" ELSE OwnerOf(s, n)
  BY <1>0, <1>1, <1>4, OwnersOf DEF OwnerOf
<1>6. \A k \in AllLists \ {"free"} : On(t, k) = On(s, k) \ {c}
  BY <1>0, <1>5 DEF On
<1>7. c \in On(s, l) /\ c \in s.live
  BY <1>0, <1>1 DEF On, Emptying
<1>8. t.live = {d \in Cell : OwnerOf(t, d) \notin {NULL, "free"}}
  BY <1>0, <1>3, <1>5 DEF Emptying, AfterFree
<1>9. \A d \in t.fin : t.finalized[d] = IF d \in t.live THEN 0 ELSE 1
  <2>1. s.finalized \in [Cell -> Nat] /\ s.fin \subseteq Cell
    BY <1>0 DEF Whole, States
  <2> QED
    BY <1>7, <2>1, <1>3 DEF Emptying, AfterFree
<1>10. OwnerOf(t, Sentinel) = OwnerOf(s, Sentinel)
  BY <1>0, <1>1, <1>5 DEF Node
<1>11. Emptying(t)
  BY <1>4, <1>8, <1>9, <1>10 DEF Emptying
<1>12. AfterFreeFront(s, l, t)
  BY <1>6, <1>7, <1>11 DEF AfterFreeFront
<1> QED
  BY <1>2, <1>12

LEMMA FreeFrontIs ==
    ASSUME NEW s, Emptying(s), NEW l \in AllLists \ {"free"}
    PROVE  AfterFreeFront(s, l, FreeFront(s, l))
<1>1. CASE IsEmpty(s, l)
  <2>1. s \in Whole
    BY DEF Emptying
  <2>2. On(s, l) = {}
    BY <1>1, <2>1, EmptyIs DEF On
  <2> QED
    BY <1>1, <2>2 DEF FreeFront, AfterFreeFront
<1> QED
  BY <1>1, SentinelOut, FrontFreed

LEMMA TurnsAre ==
    ASSUME NEW l
    PROVE  /\ Turns(l) \in Seq({l}) /\ Len(Turns(l)) = Cardinality(Cell) + 1
           /\ \A i \in 1..Len(Turns(l)) : Turns(l)[i] = l
<1>1. Cardinality(Cell) + 1 \in Nat
  BY CellAssumption, FS_CardinalityType
<1> QED
  BY <1>1 DEF Turns

(* The turns that a list can have nodes for leave nothing on it.           *)
AfterFreeList(s, l, t) ==
    /\ Emptying(t) /\ On(t, l) = {}
    /\ \A k \in AllLists \ {"free"} : On(t, k) \subseteq On(s, k)

LEMMA FreeListIs ==
    ASSUME NEW s, Emptying(s), NEW l \in AllLists \ {"free"}
    PROVE  AfterFreeList(s, l, FreeList(s, l))
<1> DEFINE q == Turns(l)
<1> DEFINE N == Cardinality(Cell) + 1
<1> DEFINE X == {x \in Whole : Emptying(x) /\ \A k \in AllLists \ {"free"} : On(x, k) \subseteq On(s, k)}
<1> DEFINE Z == [i \in 0..N |-> {x \in X : Cardinality(On(x, l)) <= N - i}]
<1>1. q \in Seq({l}) /\ Len(q) = N /\ N \in Nat /\ \A i \in 1..N : q[i] = l
  <2>1. Cardinality(Cell) \in Nat
    BY CellAssumption, FS_CardinalityType
  <2>2. q \in Seq({l}) /\ Len(q) = N /\ \A i \in 1..Len(q) : q[i] = l
    BY TurnsAre
  <2> HIDE DEF q
  <2> QED
    BY <2>1, <2>2
<1>2. s \in X
  BY DEF Emptying
<1>3. \A x \in X, v \in {l} : FreeFront(x, v) \in X
  <2> SUFFICES ASSUME NEW x \in X PROVE FreeFront(x, l) \in X
    OBVIOUS
  <2>1. AfterFreeFront(x, l, FreeFront(x, l))
    BY FreeFrontIs
  <2> HIDE DEF q, N, Z
  <2> QED
    BY <2>1 DEF AfterFreeFront, Emptying
<1>4. PICK at : FreeRow(at, s, q)
  <2> HIDE DEF X, q
  <2> QED
    BY <1>1, <1>2, <1>3, Fold_FreeFront
<1>5. at[0] \in Z[0]
  <2>1. Cardinality(On(s, l)) <= N
    BY NodesOn
  <2> HIDE DEF X, q
  <2> QED
    BY <1>1, <1>2, <1>4, <2>1 DEF FreeRow
<1>6. ASSUME NEW i \in 1..N, at[i - 1] \in Z[i - 1] PROVE at[i] \in Z[i]
  <2> DEFINE x == at[i - 1]
  <2> DEFINE t == FreeFront(x, l)
  <2>1. at[i] = t
    <3> HIDE DEF q, N, X
    <3> QED
      BY <1>1, <1>4 DEF FreeRow
  <2>2. i - 1 \in 0..N /\ i \in 0..N /\ x \in X /\ Cardinality(On(x, l)) <= N - (i - 1)
    <3> HIDE DEF X, N
    <3> QED
      BY <1>1, <1>6
  <2>3. t \in X
    <3> HIDE DEF X
    <3> QED
      BY <1>3, <2>2
  <2>4. AfterFreeFront(x, l, t)
    BY <2>2, FreeFrontIs
  <2>5. Cardinality(On(t, l)) <= N - i
    <3>1. CASE On(x, l) = {}
      <4>1. On(t, l) = {}
        BY <2>4, <3>1 DEF AfterFreeFront
      <4>2. Cardinality(On(t, l)) = 0
        BY <4>1, FS_EmptySet
      <4> HIDE DEF N, t
      <4> QED
        BY <1>1, <4>2
    <3>2. CASE On(x, l) # {}
      <4>1. PICK n \in On(x, l) : On(t, l) = On(x, l) \ {n}
        BY <2>4, <3>2 DEF AfterFreeFront
      <4>2. IsFiniteSet(On(x, l)) /\ Cardinality(On(x, l)) \in Nat
        BY NodesOn
      <4>3. Cardinality(On(t, l)) = Cardinality(On(x, l)) - 1
        <5> DEFINE S == On(x, l)
        <5>1. IsFiniteSet(S) /\ n \in S /\ On(t, l) = S \ {n}
          BY <4>1, <4>2
        <5> HIDE DEF S, t, x
        <5>2. Cardinality(S \ {n}) = Cardinality(S) - 1
          BY <5>1, FS_RemoveElement
        <5> QED
          BY <5>1, <5>2 DEF S
      <4> HIDE DEF N, t, x
      <4> QED
        BY <1>1, <2>2, <4>2, <4>3
    <3> QED
      BY <3>1, <3>2
  <2> HIDE DEF X, N, t
  <2> QED
    BY <2>1, <2>2, <2>3, <2>5
<1>7. at[N] \in Z[N]
  <2> HIDE DEF Z, N
  <2>1. \A i \in 0..N : at[i] \in Z[i]
    BY <1>1, <1>5, <1>6, LastOfRow
  <2> QED
    BY <1>1, <2>1
<1>8. FreeList(s, l) = at[N]
  <2> HIDE DEF q, N
  <2> QED
    BY <1>1, <1>4 DEF FreeRow, FreeList, FreeAll, q
<1>9. at[N] \in X /\ Cardinality(On(at[N], l)) <= 0
  <2> HIDE DEF N, X
  <2> QED
    BY <1>1, <1>7
<1>10. On(at[N], l) = {}
  <2> HIDE DEF N, X
  <2> QED
    BY <1>9, NodesOn, FS_EmptySet
<1>11. AfterFreeList(s, l, at[N])
  BY <1>9, <1>10 DEF AfterFreeList
<1> QED
  BY <1>8, <1>11

(* The five lists, one after another.                                      *)
FiveLists == <<"free_pending", "roots", "boundary", "black", "white">>
LEMMA FiveListsAre ==
    /\ FiveLists \in Seq(AllLists \ {"free"}) /\ Len(FiveLists) = 5
    /\ \A l \in AllLists \ {"free"} : \E i \in 1..5 : FiveLists[i] = l
    /\ \A i \in 1..5 : FiveLists[i] \in AllLists \ {"free"}
<1>1. /\ FiveLists[1] = "free_pending" /\ FiveLists[2] = "roots" /\ FiveLists[3] = "boundary"
      /\ FiveLists[4] = "black" /\ FiveLists[5] = "white"
  BY DEF FiveLists
<1>2. FiveLists \in Seq(AllLists \ {"free"}) /\ Len(FiveLists) = 5
  BY DEF FiveLists, AllLists, Colors
<1>3. \A l \in AllLists \ {"free"} : l \in {"free_pending", "roots", "boundary", "black", "white"}
  BY DEF AllLists, Colors
<1>4. \A l \in AllLists \ {"free"} : \E i \in 1..5 : FiveLists[i] = l
  <2> TAKE l \in AllLists \ {"free"}
  <2>1. 1 \in 1..5 /\ 2 \in 1..5 /\ 3 \in 1..5 /\ 4 \in 1..5 /\ 5 \in 1..5
    OBVIOUS
  <2> QED
    BY <1>1, <1>3, <2>1
<1>5. \A i \in 1..5 : FiveLists[i] \in AllLists \ {"free"}
  BY <1>2, ElementOfSeq
<1> QED
  BY <1>2, <1>4, <1>5

(* What is left for the last loop, which gives the free cells to malloc.   *)
Returning(s) ==
    /\ s \in Whole /\ s.fault = "none" /\ s.live = {}
    /\ \A n \in Node : OwnerOf(s, n) \in {NULL, "free"}
    /\ \A c \in s.fin : s.finalized[c] = 1

LEMMA EmptiedIs ==
    ASSUME NEW s, Emptying(s)
    PROVE  Returning(FreeLists(s, FiveLists))
<1> DEFINE q == FiveLists
<1> DEFINE V == AllLists \ {"free"}
<1> DEFINE X == {x \in Whole : Emptying(x)}
<1> DEFINE Z == [i \in 0..5 |-> {x \in X : \A j \in 1..i : On(x, q[j]) = {}}]
<1>1. q \in Seq(V) /\ Len(q) = 5 /\ (\A l \in V : \E i \in 1..5 : q[i] = l) /\ \A i \in 1..5 : q[i] \in V
  BY FiveListsAre
<1> HIDE DEF q
<1>2. s \in X
  BY DEF Emptying
<1>3. \A x \in X, l \in V : AfterFreeList(x, l, FreeList(x, l)) /\ FreeList(x, l) \in X
  BY FreeListIs DEF AfterFreeList, Emptying
<1>4. PICK at : FreeListsRow(at, s, q)
  <2> HIDE DEF X, V
  <2>1. \A x \in X, l \in V : FreeList(x, l) \in X
    BY <1>3
  <2> QED
    BY <1>1, <1>2, <2>1, Fold_FreeList
<1>5. at[0] \in Z[0]
  <2> HIDE DEF X
  <2> QED
    BY <1>2, <1>4 DEF FreeListsRow
<1>6. ASSUME NEW i \in 1..5, at[i - 1] \in Z[i - 1] PROVE at[i] \in Z[i]
  <2> DEFINE x == at[i - 1]
  <2> DEFINE t == FreeList(x, q[i])
  <2>1. at[i] = t /\ q[i] \in V /\ i - 1 \in 0..5 /\ i \in 0..5
    <3> HIDE DEF X, V, Z
    <3> QED
      BY <1>1, <1>4 DEF FreeListsRow
  <2>2. x \in X /\ \A j \in 1..i - 1 : On(x, q[j]) = {}
    <3> HIDE DEF X, V
    <3> QED
      BY <1>6, <2>1
  <2>3. AfterFreeList(x, q[i], t) /\ t \in X
    <3> HIDE DEF X, V
    <3> QED
      BY <1>3, <2>1, <2>2
  <2>4. \A j \in 1..i : On(t, q[j]) = {}
    <3> SUFFICES ASSUME NEW j \in 1..i PROVE On(t, q[j]) = {}
      OBVIOUS
    <3>1. j = i \/ j \in 1..i - 1
      OBVIOUS
    <3>2. q[j] \in V
      BY <1>1
    <3> HIDE DEF X, t, x
    <3> QED
      BY <2>2, <2>3, <3>1, <3>2 DEF AfterFreeList
  <2> HIDE DEF X, V, t, x
  <2> QED
    BY <2>1, <2>3, <2>4
<1>7. at[5] \in Z[5]
  <2> HIDE DEF Z
  <2>1. \A i \in 0..5 : at[i] \in Z[i]
    BY <1>5, <1>6, LastOfRow
  <2> QED
    BY <2>1
<1> DEFINE t == FreeLists(s, q)
<1>8. t = at[5]
  BY <1>1, <1>4 DEF FreeListsRow
<1>9. t \in X /\ \A j \in 1..5 : On(t, q[j]) = {}
  <2> HIDE DEF X, t
  <2> QED
    BY <1>7, <1>8
<1> HIDE DEF t
<1>10. Emptying(t) /\ t \in Whole
  BY <1>9
<1>11. \A l \in V : On(t, l) = {}
  BY <1>1, <1>9
<1>12. ASSUME NEW n \in Node PROVE OwnerOf(t, n) \in {NULL, "free"}
  <2>1. OwnerOf(t, n) \in AllLists \cup {NULL}
    BY <1>10, OwnersOf
  <2>2. OwnerOf(t, n) \notin V
    BY <1>11 DEF On
  <2> QED
    BY <2>1, <2>2
<1>13. t.live = {}
  BY <1>10, <1>12 DEF Emptying, Node
<1>14. Returning(t)
  BY <1>10, <1>12, <1>13 DEF Returning, Emptying
<1> QED
  BY <1>14 DEF t, q

LEMMA ReturnFrontIs ==
    ASSUME NEW s, Returning(s)
    PROVE  LET t == ReturnFront(s, "free")
           IN  Returning(t) /\ (On(s, "free") = {} \/ \E n \in On(s, "free") : On(t, "free") = On(s, "free") \ {n})
<1> DEFINE t == ReturnFront(s, "free")
<1>0. s \in Whole /\ s.fault = "none" /\ "free" \in AllLists /\ "free" # NULL
  BY Names DEF Returning, AllLists
<1>1. CASE IsEmpty(s, "free")
  <2>1. On(s, "free") = {}
    BY <1>0, <1>1, EmptyIs DEF On
  <2> QED
    BY <1>1, <2>1 DEF ReturnFront
<1>2. CASE ~IsEmpty(s, "free")
  <2> DEFINE n == First(s, "free")
  <2>1. n \in Node /\ OwnerOf(s, n) = "free"
    BY <1>0, <1>2, FirstIs
  <2>2. t = Unlink(s, n)
    BY <1>2 DEF ReturnFront
  <2> HIDE DEF n
  <2>3. t \in Whole /\ SameData(s, t) /\ t.fault = "none" /\ t.dl = dlnode_remove(s.dl, n)
    BY <1>0, <2>1, <2>2, UnlinkIs
  <2>4. t.dl.owner = [s.dl.owner EXCEPT ![n] = NULL]
    BY <1>0, <2>1, <2>3, Removal DEF Whole, OwnerOf
  <2> HIDE DEF t
  <2>5. \A m \in Node : OwnerOf(t, m) = IF m = n THEN NULL ELSE OwnerOf(s, m)
    BY <1>0, <2>4, OwnersOf DEF OwnerOf
  <2>6. On(t, "free") = On(s, "free") \ {n} /\ n \in On(s, "free")
    BY <1>0, <2>1, <2>5 DEF On
  <2>7. Returning(t)
    BY <2>3, <2>5 DEF Returning, SameData
  <2> QED
    BY <2>6, <2>7 DEF t
<1> QED
  BY <1>1, <1>2

Returned(s) == Returning(s) /\ \A c \in Cell : OwnerOf(s, c) = NULL

LEMMA ReturnedIs ==
    ASSUME NEW s, Returning(s)
    PROVE  Returned(ReturnAll(s, Turns("free")))
<1> DEFINE l == "free"
<1> DEFINE q == Turns(l)
<1> DEFINE N == Cardinality(Cell) + 1
<1> DEFINE X == {x \in Whole : Returning(x)}
<1> DEFINE Z == [i \in 0..N |-> {x \in X : Cardinality(On(x, l)) <= N - i}]
<1>1. q \in Seq({l}) /\ Len(q) = N /\ N \in Nat /\ \A i \in 1..N : q[i] = l
  <2>1. Cardinality(Cell) \in Nat
    BY CellAssumption, FS_CardinalityType
  <2>2. q \in Seq({l}) /\ Len(q) = N /\ \A i \in 1..Len(q) : q[i] = l
    BY TurnsAre
  <2> HIDE DEF q
  <2> QED
    BY <2>1, <2>2
<1>2. s \in X
  BY DEF Returning
<1>3. \A x \in X, v \in {l} : ReturnFront(x, v) \in X
  <2> SUFFICES ASSUME NEW x \in X PROVE ReturnFront(x, l) \in X
    OBVIOUS
  <2>1. Returning(ReturnFront(x, l))
    BY ReturnFrontIs
  <2> HIDE DEF q, N, Z
  <2> QED
    BY <2>1 DEF Returning
<1>4. PICK at : ReturnRow(at, s, q)
  <2> HIDE DEF X, q, l
  <2> QED
    BY <1>1, <1>2, <1>3, Fold_ReturnFront
<1>5. at[0] \in Z[0]
  <2>1. Cardinality(On(s, l)) <= N
    BY NodesOn
  <2> HIDE DEF X, q
  <2> QED
    BY <1>1, <1>2, <1>4, <2>1 DEF ReturnRow
<1>6. ASSUME NEW i \in 1..N, at[i - 1] \in Z[i - 1] PROVE at[i] \in Z[i]
  <2> DEFINE x == at[i - 1]
  <2> DEFINE t == ReturnFront(x, l)
  <2>1. at[i] = t
    <3> HIDE DEF q, N, X, l
    <3> QED
      BY <1>1, <1>4 DEF ReturnRow
  <2>2. i - 1 \in 0..N /\ i \in 0..N /\ x \in X /\ Cardinality(On(x, l)) <= N - (i - 1)
    <3> HIDE DEF X, N
    <3> QED
      BY <1>1, <1>6
  <2>3. t \in X
    <3> HIDE DEF X
    <3> QED
      BY <1>3, <2>2
  <2>4. On(x, l) = {} \/ \E n \in On(x, l) : On(t, l) = On(x, l) \ {n}
    BY <2>2, ReturnFrontIs
  <2>5. Cardinality(On(t, l)) <= N - i
    <3>1. CASE On(x, l) = {}
      <4>1. IsEmpty(x, l) => t = x
        BY DEF ReturnFront
      <4>2. IsEmpty(x, l)
        <5>1. x \in Whole /\ l \in AllLists
          BY <2>2 DEF AllLists
        <5>2. ~IsEmpty(x, l) => First(x, l) \in Node /\ OwnerOf(x, First(x, l)) = l
          BY <5>1, FirstIs
        <5> QED
          BY <3>1, <5>2 DEF On
      <4>3. Cardinality(On(t, l)) = 0
        BY <3>1, <4>1, <4>2, FS_EmptySet
      <4> HIDE DEF N, t
      <4> QED
        BY <1>1, <4>3
    <3>2. CASE On(x, l) # {}
      <4>1. PICK n \in On(x, l) : On(t, l) = On(x, l) \ {n}
        BY <2>4, <3>2
      <4>2. IsFiniteSet(On(x, l)) /\ Cardinality(On(x, l)) \in Nat
        BY NodesOn
      <4>3. Cardinality(On(t, l)) = Cardinality(On(x, l)) - 1
        <5> DEFINE S == On(x, l)
        <5>1. IsFiniteSet(S) /\ n \in S /\ On(t, l) = S \ {n}
          BY <4>1, <4>2
        <5> HIDE DEF S, t, x
        <5>2. Cardinality(S \ {n}) = Cardinality(S) - 1
          BY <5>1, FS_RemoveElement
        <5> QED
          BY <5>1, <5>2 DEF S
      <4> HIDE DEF N, t, x
      <4> QED
        BY <1>1, <2>2, <4>2, <4>3
    <3> QED
      BY <3>1, <3>2
  <2> HIDE DEF X, N, t
  <2> QED
    BY <2>1, <2>2, <2>3, <2>5
<1>7. at[N] \in Z[N]
  <2> HIDE DEF Z, N
  <2>1. \A i \in 0..N : at[i] \in Z[i]
    BY <1>1, <1>5, <1>6, LastOfRow
  <2> QED
    BY <1>1, <2>1
<1>8. ReturnAll(s, q) = at[N]
  <2> HIDE DEF q, N
  <2> QED
    BY <1>1, <1>4 DEF ReturnRow
<1>9. at[N] \in X /\ Cardinality(On(at[N], l)) <= 0
  <2> HIDE DEF N, X
  <2> QED
    BY <1>1, <1>7
<1>10. On(at[N], l) = {}
  <2> HIDE DEF N, X
  <2> QED
    BY <1>9, NodesOn, FS_EmptySet
<1>11. Returned(at[N])
  <2> HIDE DEF N
  <2> QED
    BY <1>9, <1>10 DEF Returning, Returned, On, Node
<1> QED
  BY <1>8, <1>11

LEMMA ResetReturns ==
    ASSUME NEW s, Running(s)
    PROVE  Returned(memory_state_reset(s))
<1>1. Emptying(s)
  BY DEF Running, Emptying
<1>2. Returning(FreeLists(s, FiveLists))
  BY <1>1, EmptiedIs
<1>3. Returned(ReturnAll(FreeLists(s, FiveLists), Turns("free")))
  BY <1>2, ReturnedIs
<1>4. memory_state_reset(s) = ReturnAll(FreeLists(s, FiveLists), Turns("free"))
  BY DEF memory_state_reset, ReturnAll, FreeLists, FiveLists
<1> QED
  BY <1>3, <1>4

-----------------------------------------------------------------------------
(* What holds between the calls.                                           *)
ListsInv ==
    /\ link \in Heap
    /\ phase \in {"running", "aborted", "over"}
    /\ phase = "running" => Running(ms)
    /\ phase = "aborted" => ms \in Whole /\ ms.fault \notin Impossible
    /\ phase = "over" => Returned(ms)

LEMMA InitIsSound == Init => ListsInv
<1> SUFFICES ASSUME Init PROVE ListsInv
  OBVIOUS
<1>1. link \in Heap
  BY DEF Init, Heap
<1>2. Running(ms)
  BY InitRuns DEF Init
<1>3. phase = "running"
  BY DEF Init
<1> QED
  BY <1>1, <1>2, <1>3 DEF ListsInv

LEMMA BecomesIsSound ==
    ASSUME NEW s, Proper(s), Becomes(s), link' \in Heap
    PROVE  ListsInv'
<1>1. ms' = s /\ phase' = IF s.fault = "none" THEN "running" ELSE "aborted"
  BY DEF Becomes
<1>2. s \in Whole /\ s.fault \notin Impossible /\ (s.fault = "none" => Running(s))
  BY DEF Proper
<1>3. CASE s.fault = "none"
  <2>1. phase' = "running" /\ Running(ms')
    BY <1>1, <1>2, <1>3
  <2> QED
    BY <2>1 DEF ListsInv, Running, Whole, States, Allocated, FreeCells, OwnerOf
<1>4. CASE s.fault # "none"
  <2>1. phase' = "aborted" /\ ms' \in Whole /\ ms'.fault \notin Impossible
    BY <1>1, <1>2, <1>4
  <2> QED
    BY <2>1 DEF ListsInv
<1> QED
  BY <1>3, <1>4

LEMMA UsableIsLive == Usable \subseteq ms.live /\ Usable \subseteq Cell
BY DEF Usable, Reachable

LEMMA ClientIsSound ==
    ASSUME ListsInv, Client
    PROVE  ListsInv'
<1>1. link \in Heap /\ (phase = "running" => Running(ms))
  BY DEF ListsInv
<1>2. CASE \E blob \in BOOLEAN : MemoryRequest(blob)
  <2>1. PICK blob \in BOOLEAN : MemoryRequest(blob)
    BY <1>2
  <2>2. Running(ms)
    BY <1>1, <2>1 DEF MemoryRequest, Becomes
  <2>3. PICK u : \E c \in Cell : Becomes(u) /\ Proper(u) /\ link' = Cleared(c)
    BY <2>1, <2>2, RequestIsProper
  <2>4. link' \in Heap
    BY <1>1, <2>3 DEF Cleared, Heap
  <2> QED
    BY <2>3, <2>4, BecomesIsSound
<1>3. CASE OutOfMemory
  <2>1. Running(ms) /\ Becomes([ms EXCEPT !.fault = "memory.c:330"]) /\ link' = link
    BY <1>1, <1>3 DEF OutOfMemory, Becomes
  <2>2. Proper([ms EXCEPT !.fault = "memory.c:330"])
    BY <2>1, OutOfMemoryIsProper
  <2> QED
    BY <1>1, <2>1, <2>2, BecomesIsSound
<1>4. CASE \E x \in Cell, slot \in Slot, y \in Cell \cup {NULL} : PatchLink(x, slot, y)
  <2>1. PICK x \in Cell, slot \in Slot, y \in Cell \cup {NULL} : PatchLink(x, slot, y)
    BY <1>4
  <2> DEFINE z == link[<<x, slot>>]
  <2>2. z \in Cell \cup {NULL} /\ <<x, slot>> \in Link
    BY <1>1 DEF Heap, Link
  <2>3. Becomes(Patched(ms, y, z)) /\ link' = [link EXCEPT ![<<x, slot>>] = y]
    BY <2>1 DEF PatchLink, Patched
  <2>4. Running(ms)
    BY <1>1, <2>3 DEF Becomes
  <2> HIDE DEF z
  <2>5. Proper(Patched(ms, y, z))
    BY <2>2, <2>4, PatchIsProper
  <2>6. link' \in Heap
    BY <1>1, <2>2, <2>3 DEF Heap
  <2> QED
    BY <2>3, <2>5, <2>6, BecomesIsSound
<1>5. CASE \E c \in Cell : GcLock(c) \/ GcUnlock(c)
  <2>1. PICK c \in Cell : GcLock(c) \/ GcUnlock(c)
    BY <1>5
  <2>2. CASE GcLock(c)
    <3>1. Becomes(memory_gc_lock(ms, c)) /\ link' = link /\ c \in ms.live
      BY <2>2, UsableIsLive DEF GcLock
    <3>2. Running(ms)
      BY <1>1, <3>1 DEF Becomes
    <3>3. Proper(memory_gc_lock(ms, c))
      BY <3>1, <3>2, LockIsProper
    <3> QED
      BY <1>1, <3>1, <3>3, BecomesIsSound
  <2>3. CASE GcUnlock(c)
    <3>1. Becomes(memory_gc_unlock(ms, c)) /\ link' = link /\ OwnerOf(ms, c) = "roots"
      BY <2>3 DEF GcUnlock, RootCells
    <3>2. Running(ms)
      BY <1>1, <3>1 DEF Becomes
    <3>3. Proper(memory_gc_unlock(ms, c))
      BY <2>1, <3>1, <3>2, UnlockIsProper
    <3> QED
      BY <1>1, <3>1, <3>3, BecomesIsSound
  <2> QED
    BY <2>1, <2>2, <2>3
<1> QED
  BY <1>2, <1>3, <1>4, <1>5 DEF Client

LEMMA NextIsSound == ListsInv /\ [Next]_vars => ListsInv'
<1> SUFFICES ASSUME ListsInv, [Next]_vars PROVE ListsInv'
  OBVIOUS
<1>1. CASE Client
  BY <1>1, ClientIsSound
<1>2. CASE Iterate
  <2>1. link' = link /\ link \in Heap /\ Running(ms)
    BY <1>2 DEF Iterate, ListsInv
  <2>2. CASE Collecting
    <3>1. Becomes(memory_gc_iterate(ms))
      BY <1>2, <2>2 DEF Iterate
    <3>2. Proper(memory_gc_iterate(ms))
      BY <2>1, <2>2, IterateIsProper DEF Collecting
    <3> QED
      BY <2>1, <3>1, <3>2, BecomesIsSound
  <2>3. CASE ~Collecting
    <3>1. Becomes(ms)
      BY <1>2, <2>3 DEF Iterate
    <3>2. Proper(ms)
      BY <2>1 DEF Proper, Running, Impossible
    <3> QED
      BY <2>1, <3>1, <3>2, BecomesIsSound
  <2> QED
    BY <2>2, <2>3
<1>3. CASE StateReset
  <2>1. link' = link /\ link \in Heap /\ Running(ms) /\ ms' = memory_state_reset(ms) /\ phase' = "over"
    BY <1>3 DEF StateReset, ListsInv
  <2>2. Returned(ms')
    BY <2>1, ResetReturns
  <2> QED
    BY <2>1, <2>2 DEF ListsInv
<1>4. CASE UNCHANGED <<ms, link, phase>>
  BY <1>4 DEF ListsInv, Running, Returned, Returning, Whole, States, FreeCells, Allocated, OwnerOf
<1> QED
  BY <1>1, <1>2, <1>3, <1>4 DEF Next, BecomeQuiet, Ended, vars

(* Through every sequence of calls, however it goes on or ends.            *)
THEOREM ListsAreSound == Spec => []ListsInv
<1>1. Init => ListsInv
  BY InitIsSound
<1>2. ListsInv /\ [Next]_vars => ListsInv'
  BY NextIsSound
<1> QED
  BY <1>1, <1>2, PTL DEF Spec

(* The lists stay whole, no assert of dlist.c fails in them, and the flag  *)
(* of memory.c:104 says which cells are in use.                            *)
THEOREM ListsStayWhole == Spec => []ListsAreWhole
<1>1. ListsInv => ListsAreWhole
  <2> SUFFICES ASSUME ListsInv PROVE ListsAreWhole
    OBVIOUS
  <2>1. ms \in Whole /\ ms.fault \notin Impossible
    BY DEF ListsInv, Running, Returned, Returning, Impossible
  <2>2. ms \in States /\ WellLinked(ms.dl)
    BY <2>1 DEF Whole
  <2>3. TypeOK
    BY <2>2 DEF TypeOK, ListsInv, States
  <2>4. ASSUME phase = "running", NEW c \in Cell
        PROVE  c \in ms.live <=> OwnerOf(ms, c) \notin {NULL, "free"}
    BY <2>4 DEF ListsInv, Running
  <2> QED
    BY <2>1, <2>2, <2>3, <2>4 DEF ListsAreWhole, Impossible
<1> QED
  BY <1>1, ListsAreSound, PTL

(* On the way around the free list every free cell is met once, no other.  *)
LEMMA WalkCounts ==
    ASSUME Running(ms)
    PROVE  Len(Walk(ms.dl, "free")) = Cardinality(FreeCells(ms))
<1> DEFINE w == Walk(ms.dl, "free")
<1>1. /\ w \in Seq(Node) /\ {w[i] : i \in DOMAIN w} = Members(ms.dl, "free")
      /\ \A i, j \in DOMAIN w : w[i] = w[j] => i = j
  BY Walking DEF Running, Whole, AllLists
<1>2. Members(ms.dl, "free") = FreeCells(ms)
  BY Names DEF Running, Members, FreeCells, OwnerOf
<1> HIDE DEF w
<1>3. DOMAIN w = 1..Len(w) /\ Len(w) \in Nat
  BY <1>1
<1>4. w \in [1..Len(w) -> FreeCells(ms)] /\ \A c \in FreeCells(ms) : \E i \in 1..Len(w) : w[i] = c
  BY <1>1, <1>2, <1>3
<1>5. w \in Bijection(1..Len(w), FreeCells(ms))
  BY <1>1, <1>3, <1>4 DEF Bijection, Injection, Surjection, IsInjective
<1>6. ExistsBijection(1..Len(w), FreeCells(ms))
  BY <1>5 DEF ExistsBijection
<1> QED
  BY <1>3, <1>6, FS_CountingElements DEF w

(* The counters count, and their asserts hold.                             *)
THEOREM CountersCount == Spec => []CountersAreExact
<1>1. ListsInv => CountersAreExact
  <2> SUFFICES ASSUME ListsInv PROVE CountersAreExact
    OBVIOUS
  <2>1. ms.fault \notin Impossible
    BY DEF ListsInv, Running, Returned, Returning, Impossible
  <2>2. ASSUME phase = "running"
        PROVE  /\ ms.total_free = Len(Walk(ms.dl, "free"))
               /\ ms.total_alloc = Cardinality({c \in Cell : OwnerOf(ms, c) # NULL})
    <3>1. Running(ms)
      BY <2>2 DEF ListsInv
    <3> QED
      BY <3>1, WalkCounts DEF Running, Allocated
  <2> QED
    BY <2>1, <2>2 DEF CountersAreExact, Impossible
<1> QED
  BY <1>1, ListsAreSound, PTL

(* A finalizer runs once for what it is there for, at the latest in the    *)
(* reset.                                                                  *)
THEOREM FinalizersRunOnce == Spec => []FinalizedOnce
<1>1. ListsInv => FinalizedOnce
  BY DEF ListsInv, FinalizedOnce, Running, Returned, Returning
<1> QED
  BY <1>1, ListsAreSound, PTL

(* memory_state_reset leaves nothing on a list.                            *)
THEOREM ResetLeavesNothing == Spec => []ResetReturnsAll
<1>1. ListsInv => ResetReturnsAll
  BY DEF ListsInv, ResetReturnsAll, Returned, Returning
<1> QED
  BY <1>1, ListsAreSound, PTL

-----------------------------------------------------------------------------
(* The lists as Memory sees them.  The place of every cell is a function   *)
(* of the lists: what View says of them is what OwnerSeen finds.           *)
LEMMA OnePlace ==
    /\ \A pl \in Places : ListOf(pl) = NULL <=> pl = "unallocated"
    /\ \A pl \in Places : ListOf(pl) = "roots" <=> pl \in {"roots_unproc", "roots_proc"}
    /\ \A pl \in Places, l \in AllLists \ {"roots"} : ListOf(pl) = l <=> pl = l
BY Names DEF Places, ListOf, AllLists, Colors

LEMMA PlaceIs ==
    ASSUME NEW s \in Whole, NEW n \in Node, OwnerOf(s, n) = "roots"
    PROVE  Place(s, "roots", n) \in DOMAIN Walk(s.dl, "roots") /\ Walk(s.dl, "roots")[Place(s, "roots", n)] = n
<1> DEFINE w == Walk(s.dl, "roots")
<1>1. {w[i] : i \in DOMAIN w} = Members(s.dl, "roots")
  BY Walking DEF Whole, AllLists
<1>2. n \in Members(s.dl, "roots")
  BY DEF Members, OwnerOf, Node
<1>3. Place(s, "roots", n) = CHOOSE i \in DOMAIN w : w[i] = n
  BY DEF Place
<1> HIDE DEF w
<1>4. \E i \in DOMAIN w : w[i] = n
  BY <1>1, <1>2
<1> QED
  BY <1>3, <1>4 DEF w

LEMMA RootsInOrder ==
    ASSUME NEW s \in Whole, NEW ow, View(s, ow)
    PROVE  LET w == Walk(s.dl, "roots")
               k == Place(s, "roots", Sentinel)
           IN  /\ \A i \in 1..k - 1 : w[i] \in Ahead(ow)
               /\ \A i \in k + 1..Len(w) : w[i] \in Behind(s.dl, Ahead(ow))
<1> DEFINE h == s.dl
<1> DEFINE w == Walk(h, "roots")
<1> DEFINE k == Place(s, "roots", Sentinel)
<1> DEFINE A == Ahead(ow)
<1> DEFINE B == Behind(h, A)
<1>1. /\ w \in Seq(Node) /\ \A i, j \in DOMAIN w : w[i] = w[j] => i = j
      /\ \A i \in DOMAIN w : w[i] = IF i = 1 THEN h.next["roots"] ELSE h.next[w[i - 1]]
  BY Walking DEF Whole, AllLists
<1>2. Cut(h, A)
  BY DEF View
<1>3. k \in DOMAIN w /\ w[k] = Sentinel
  <2>1. Sentinel \in Node /\ OwnerOf(s, Sentinel) = "roots"
    BY <1>2 DEF Node, Cut, OwnerOf
  <2> QED
    BY <2>1, PlaceIs
<1> HIDE DEF w, k
<1>4. DOMAIN w = 1..Len(w) /\ Len(w) \in Nat /\ k \in 1..Len(w) /\ \A i \in 1..Len(w) : w[i] \in Node
  BY <1>1, <1>3
<1>5. /\ \A n \in A \cup {"roots"} : h.next[n] \in A \cup {Sentinel}
      /\ \A n \in B \cup {Sentinel} : h.next[n] \in B \cup {"roots"}
  BY <1>2 DEF Cut
<1> HIDE DEF A, B, h
<1>6. ASSUME NEW i \in 1..k - 1 PROVE w[i] \in A
  <2> DEFINE at == [j \in 0..k - 1 |-> IF j = 0 THEN "roots" ELSE w[j]]
  <2> DEFINE Z == [j \in 0..k - 1 |-> A \cup {"roots"}]
  <2>1. k - 1 \in Nat /\ k \in Nat
    BY <1>4
  <2>2. at[0] \in Z[0]
    BY <2>1
  <2>3. ASSUME NEW j \in 1..k - 1, at[j - 1] \in Z[j - 1] PROVE at[j] \in Z[j]
    <3>1. j \in DOMAIN w /\ j # k /\ j \in 0..k - 1 /\ j - 1 \in 0..k - 1
      BY <1>4
    <3>2. w[j] = h.next[at[j - 1]]
      BY <1>1, <3>1
    <3>3. w[j] \in A \cup {Sentinel}
      BY <1>5, <2>3, <3>1, <3>2
    <3>4. w[j] # Sentinel
      BY <1>1, <1>3, <3>1
    <3> QED
      BY <3>1, <3>3, <3>4
  <2>4. \A j \in 0..k - 1 : at[j] \in Z[j]
    <3> HIDE DEF at, Z
    <3> QED
      BY <2>1, <2>2, <2>3, LastOfRow
  <2>5. w[i] \in A \cup {"roots"}
    BY <2>1, <2>4
  <2>6. w[i] \in Node /\ "roots" \notin Node
    BY <1>4, Names DEF Node, AllLists
  <2> QED
    BY <2>5, <2>6
<1>7. ASSUME NEW i \in k + 1..Len(w) PROVE w[i] \in B
  <2> DEFINE n == Len(w) - k
  <2> DEFINE at == [j \in 0..n |-> w[k + j]]
  <2> DEFINE Z == [j \in 0..n |-> B \cup {Sentinel}]
  <2>1. n \in Nat /\ k \in Nat
    BY <1>4
  <2>2. at[0] \in Z[0]
    BY <1>3, <2>1
  <2>3. ASSUME NEW j \in 1..n, at[j - 1] \in Z[j - 1] PROVE at[j] \in Z[j]
    <3>1. k + j \in DOMAIN w /\ k + j # 1 /\ j \in 0..n /\ j - 1 \in 0..n /\ (k + j) - 1 = k + (j - 1)
      BY <1>4
    <3>2. at[j] = h.next[at[j - 1]]
      BY <1>1, <3>1
    <3>3. at[j] \in B \cup {"roots"}
      BY <1>5, <2>3, <3>1, <3>2
    <3>4. at[j] \in Node /\ "roots" \notin Node
      BY <1>4, <3>1, Names DEF Node, AllLists
    <3> HIDE DEF at, n
    <3> QED
      BY <3>1, <3>3, <3>4
  <2>4. \A j \in 0..n : at[j] \in Z[j]
    <3> HIDE DEF at, Z, n
    <3> QED
      BY <2>1, <2>2, <2>3, LastOfRow
  <2>5. i - k \in 0..n /\ k + (i - k) = i /\ i \in DOMAIN w /\ i # k
    BY <1>4
  <2>6. w[i] \in B \cup {Sentinel}
    BY <2>4, <2>5
  <2>7. w[i] # Sentinel
    BY <1>1, <1>3, <2>5
  <2> QED
    BY <2>6, <2>7
<1> QED
  BY <1>6, <1>7 DEF w, k, A, B, h

LEMMA SeenIs ==
    ASSUME NEW s \in Whole, NEW ow, View(s, ow)
    PROVE  OwnerSeen(s) = ow
<1> DEFINE w == Walk(s.dl, "roots")
<1> DEFINE k == Place(s, "roots", Sentinel)
<1> DEFINE at(c) == Place(s, "roots", c)
<1>1. ow \in [Cell -> Places] /\ \A c \in Cell : OwnerOf(s, c) = ListOf(ow[c])
  BY DEF View
<1>2. k \in DOMAIN w /\ w[k] = Sentinel
  BY PlaceIs DEF View, Cut, OwnerOf, Node
<1>3. /\ \A i \in 1..k - 1 : w[i] \in Ahead(ow)
      /\ \A i \in k + 1..Len(w) : w[i] \in Behind(s.dl, Ahead(ow))
  BY RootsInOrder
<1>4. w \in Seq(Node)
  BY Walking DEF Whole, AllLists
<1>5. ASSUME NEW c \in Cell, OwnerOf(s, c) = "roots"
      PROVE  ow[c] = IF at(c) < k THEN "roots_unproc" ELSE "roots_proc"
  <2>1. at(c) \in DOMAIN w /\ w[at(c)] = c
    BY <1>5, PlaceIs DEF Node
  <2> HIDE DEF w, k, at
  <2>2. DOMAIN w = 1..Len(w) /\ Len(w) \in Nat
    BY <1>4
  <2>3. CASE at(c) < k
    BY <1>2, <1>3, <2>1, <2>2, <2>3 DEF Ahead
  <2>4. CASE at(c) > k
    <3>1. c \notin Ahead(ow)
      BY <1>2, <1>3, <2>1, <2>2, <2>4 DEF Behind
    <3>2. ow[c] \in {"roots_unproc", "roots_proc"}
      BY <1>1, <1>5, OnePlace
    <3> QED
      BY <1>2, <2>1, <2>2, <2>4, <3>1, <3>2 DEF Ahead
  <2>5. at(c) # k
    BY <1>2, <2>1, NodesAssumption
  <2> QED
    BY <1>2, <2>1, <2>2, <2>3, <2>4, <2>5
<1>6. ASSUME NEW c \in Cell PROVE OwnerSeen(s)[c] = ow[c]
  <2>1. OwnerSeen(s)[c] =
            CASE OwnerOf(s, c) = NULL -> "unallocated"
              [] OwnerOf(s, c) = "roots" -> IF at(c) < k THEN "roots_unproc" ELSE "roots_proc"
              [] OTHER -> OwnerOf(s, c)
    BY DEF OwnerSeen
  <2> HIDE DEF at, k
  <2>2. CASE OwnerOf(s, c) = NULL
    <3>1. NULL # "roots"
      BY Names DEF AllLists
    <3>2. OwnerSeen(s)[c] = "unallocated"
      BY <2>1, <2>2, <3>1
    <3> QED
      BY <1>1, <2>2, <3>2, OnePlace
  <2>3. CASE OwnerOf(s, c) = "roots"
    <3>1. NULL # "roots"
      BY Names DEF AllLists
    <3>2. OwnerSeen(s)[c] = IF at(c) < k THEN "roots_unproc" ELSE "roots_proc"
      BY <2>1, <2>3, <3>1
    <3> QED
      BY <1>5, <2>3, <3>2
  <2>4. CASE OwnerOf(s, c) \notin {NULL, "roots"}
    <3>1. OwnerSeen(s)[c] = OwnerOf(s, c)
      BY <2>1, <2>4
    <3>2. ow[c] \in Places /\ ListOf(ow[c]) \notin {NULL, "roots"}
      BY <1>1, <2>4
    <3> QED
      BY <1>1, <3>1, <3>2 DEF ListOf
  <2> QED
    BY <2>2, <2>3, <2>4
<1>7. OwnerSeen(s) = [c \in Cell |-> OwnerSeen(s)[c]]
  BY DEF OwnerSeen
<1> QED
  BY <1>1, <1>6, <1>7

-----------------------------------------------------------------------------
(* Memory's names for what the memory state holds.                         *)
Untouched ==
    \A c \in Cell : seen[c] = "unallocated" =>
        ms.refcount[c] = 0 /\ c \notin ms.locked /\ \A e \in Link : link[e] # c

LEMMA PlacesSeen ==
    ASSUME View(ms, seen)
    PROVE  /\ seen \in [Cell -> Places]
           /\ \A c \in Cell : /\ seen[c] = "unallocated" <=> OwnerOf(ms, c) = NULL
                              /\ seen[c] \in {"roots_unproc", "roots_proc"} <=> OwnerOf(ms, c) = "roots"
                              /\ \A l \in AllLists \ {"roots"} : seen[c] = l <=> OwnerOf(ms, c) = l
<1>1. seen \in [Cell -> Places] /\ \A c \in Cell : OwnerOf(ms, c) = ListOf(seen[c])
  BY DEF View
<1> QED
  BY <1>1, OnePlace

LEMMA SetsSeen ==
    ASSUME Running(ms), View(ms, seen)
    PROVE  /\ Sets!Live = ms.live /\ Sets!Roots = RootCells /\ Sets!Usable = Usable
           /\ Sets!unproc_listref = Unproc(ms) /\ Unproc(ms) \in Colors
           /\ \A c \in Cell : c \in Sets!Dying <=> seen[c] \in {"unallocated", "free", "free_pending"}
<1>1. Sets!unproc_listref = Unproc(ms)
  BY DEF Sets!unproc_listref, Sets!OtherList, Unproc, OtherColor
<1>2. Unproc(ms) \in Colors
  BY DEF Unproc, OtherColor, Colors
<1>3. Sets!Roots = RootCells
  BY PlacesSeen DEF Sets!Roots, Sets!On, RootCells
<1>4. Sets!Live = ms.live
  <2>1. "free" \in AllLists \ {"roots"}
    BY DEF AllLists
  <2> QED
    BY <2>1, PlacesSeen DEF Sets!Live, Sets!On, Running
<1>5. Sets!Held = Held
  BY <1>3 DEF Sets!Held, Held
<1>6. Sets!Usable = Usable
  BY <1>4, <1>5 DEF Sets!Usable, Sets!Accessible, Usable, Sets!Reachable, Reachable,
     Sets!Closed, Closed, Sets!Link, Link
<1> QED
  BY <1>1, <1>2, <1>3, <1>4, <1>6 DEF Sets!Dying, Sets!On

(* A list that is empty here holds nothing there.                          *)
LEMMA EmptySeen ==
    ASSUME Running(ms), View(ms, seen)
    PROVE  /\ \A l \in AllLists \ {"roots"} : IsEmpty(ms, l) => \A c \in Cell : seen[c] # l
           /\ First(ms, "roots") = Sentinel => \A c \in Cell : seen[c] # "roots_unproc"
<1>1. ms \in Whole
  BY DEF Running
<1>2. ASSUME NEW l \in AllLists \ {"roots"}, IsEmpty(ms, l), NEW c \in Cell PROVE seen[c] # l
  <2>1. OwnerOf(ms, c) # l
    BY <1>1, <1>2, EmptyIs DEF Node
  <2> QED
    BY <1>2, <2>1, PlacesSeen
<1>3. First(ms, "roots") = Sentinel => Ahead(seen) = {}
  BY <1>1, NoneAhead
<1> QED
  BY <1>2, <1>3 DEF Ahead

(* The state that a call leaves, seen in the same way.                     *)
LEMMA SeenNext ==
    ASSUME NEW t \in Whole, NEW ov, View(t, ov), ms' = t, seen' = OwnerSeen(t)
    PROVE  seen' = ov /\ View(ms', seen')
BY SeenIs

(* memory_request takes the first free cell: any, for Memory.              *)
LEMMA SetsRequest ==
    ASSUME Running(ms), View(ms, seen), Untouched, NEW blob \in BOOLEAN, MemoryRequest(blob), phase' = "running"
    PROVE  View(ms', seen') /\ \E c \in Cell : Sets!MemoryRequest(c)
<1> DEFINE Given(c, again, t, u) ==
      /\ c \in Cell /\ OwnerOf(ms, c) = (IF again THEN "free" ELSE NULL)
      /\ AfterRequest(ms, c, again, t) /\ t.fault = "none" /\ u \in {t, [t EXCEPT !.fin = @ \cup {c}]}
      /\ c \notin ms.locked /\ (again => (AssertReuse => ms.refcount[c] = 0))
      /\ (again <=> ~IsEmpty(ms, "free"))
      /\ ms' = u /\ seen' = OwnerSeen(u) /\ link' = Cleared(c)
<1>1. \E c, t, u : Given(c, TRUE, t, u) \/ Given(c, FALSE, t, u)
  <2>1. CASE ~IsEmpty(ms, "free")
    <3> DEFINE c == First(ms, "free")
    <3> DEFINE t == Reused(ms)
    <3> DEFINE u == WithFinalizer(t, c, blob)
    <3>1. /\ c \in Cell /\ OwnerOf(ms, c) = "free" /\ AfterRequest(ms, c, TRUE, t)
          /\ t.fault = "none" => c \notin ms.locked /\ (AssertReuse => ms.refcount[c] = 0)
      BY <2>1, ReusedIs
    <3>2. Becomes(u) /\ link' = Cleared(c)
      BY <2>1 DEF MemoryRequest
    <3>3. u \in {t, [t EXCEPT !.fin = @ \cup {c}]}
      BY DEF WithFinalizer
    <3> HIDE DEF c, t, u
    <3>4. ms' = u /\ seen' = OwnerSeen(u) /\ u.fault = "none"
      BY <3>2 DEF Becomes
    <3>5. u.fault = t.fault
      <4>1. t \in States
        BY <3>1 DEF AfterRequest, Whole
      <4> QED
        BY <3>3, <4>1 DEF States
    <3>6. Given(c, TRUE, t, u)
      BY <2>1, <3>1, <3>2, <3>3, <3>4, <3>5
    <3> QED
      BY <3>6
  <2>2. CASE IsEmpty(ms, "free")
    <3>1. PICK c \in Cell : OwnerOf(ms, c) = NULL /\ Becomes(WithFinalizer(Fresh(ms, c), c, blob)) /\ link' = Cleared(c)
      BY <2>2 DEF MemoryRequest
    <3> DEFINE t == Fresh(ms, c)
    <3> DEFINE u == WithFinalizer(t, c, blob)
    <3>2. AfterRequest(ms, c, FALSE, t) /\ t.fault = "none"
      BY <3>1, FreshIs
    <3>3. u \in {t, [t EXCEPT !.fin = @ \cup {c}]}
      BY DEF WithFinalizer
    <3>4. Becomes(u)
      BY <3>1
    <3> HIDE DEF t, u
    <3>5. ms' = u /\ seen' = OwnerSeen(u)
      BY <3>4 DEF Becomes
    <3>6. c \notin ms.locked
      BY <3>1, PlacesSeen DEF Untouched
    <3>7. Given(c, FALSE, t, u)
      BY <2>2, <3>1, <3>2, <3>3, <3>5, <3>6
    <3> QED
      BY <3>7
  <2> QED
    BY <2>1, <2>2
<1>2. PICK c, t, u : Given(c, TRUE, t, u) \/ Given(c, FALSE, t, u)
  BY <1>1
<1>3. /\ c \in Cell /\ c \notin ms.locked /\ ms' = u /\ seen' = OwnerSeen(u) /\ link' = Cleared(c)
      /\ t \in Whole /\ u \in {t, [t EXCEPT !.fin = @ \cup {c}]}
      /\ t.refcount = [ms.refcount EXCEPT ![c] = 0] /\ t.locked = ms.locked \ {c}
      /\ t.reachable = ms.reachable /\ t.clean_cycles = ms.clean_cycles
      /\ View(t, [seen EXCEPT ![c] = "roots_unproc"])
  BY <1>2 DEF AfterRequest
<1>4. seen[c] = IF Sets!On({"free"}) # {} THEN "free" ELSE "unallocated"
  <2>1. "free" \in AllLists \ {"roots"}
    BY DEF AllLists
  <2>2. CASE IsEmpty(ms, "free")
    <3>1. Sets!On({"free"}) = {}
      BY <2>1, <2>2, EmptySeen DEF Sets!On
    <3>2. OwnerOf(ms, c) = NULL
      BY <1>2, <2>2
    <3> QED
      BY <1>3, <3>1, <3>2, PlacesSeen
  <2>3. CASE ~IsEmpty(ms, "free")
    <3>1. OwnerOf(ms, c) = "free"
      BY <1>2, <2>3
    <3>2. seen[c] = "free"
      BY <1>3, <2>1, <3>1, PlacesSeen
    <3>3. Sets!On({"free"}) # {}
      BY <1>3, <3>2 DEF Sets!On
    <3> QED
      BY <3>2, <3>3
  <2> QED
    BY <2>2, <2>3
<1>5. AssertReuse /\ seen[c] = "free" => ms.refcount[c] = 0
  <2>1. seen[c] = "free" => OwnerOf(ms, c) = "free"
    BY <1>3, PlacesSeen DEF AllLists
  <2>2. NULL # "free"
    BY Names DEF AllLists
  <2> QED
    BY <1>2, <2>1, <2>2
<1> HIDE DEF Given
<1>6. u \in Whole /\ u.dl = t.dl /\ u.refcount = t.refcount /\ u.locked = t.locked
      /\ u.reachable = t.reachable /\ u.clean_cycles = t.clean_cycles
  <2>1. t \in States /\ WellLinked(t.dl)
    BY <1>3 DEF Whole
  <2>2. CASE u = t
    BY <1>3, <2>2
  <2>3. CASE u = [t EXCEPT !.fin = @ \cup {c}]
    <3>1. u \in States /\ u.dl = t.dl
      BY <1>3, <2>1, <2>3 DEF States
    <3>2. u.refcount = t.refcount /\ u.locked = t.locked
          /\ u.reachable = t.reachable /\ u.clean_cycles = t.clean_cycles
      BY <2>1, <2>3 DEF States
    <3> QED
      BY <2>1, <3>1, <3>2 DEF Whole
  <2> QED
    BY <1>3, <2>2, <2>3
<1>7. View(u, [seen EXCEPT ![c] = "roots_unproc"])
  BY <1>3, <1>6 DEF View, OwnerOf
<1>8. seen' = [seen EXCEPT ![c] = "roots_unproc"] /\ View(ms', seen')
  BY <1>3, <1>6, <1>7, SeenNext
<1>9. /\ ms'.refcount = [ms.refcount EXCEPT ![c] = 0] /\ ms'.locked = ms.locked
      /\ ms'.reachable = ms.reachable /\ ms'.clean_cycles = ms.clean_cycles
      /\ link' = [e \in Sets!Link |-> IF e[1] = c THEN NULL ELSE link[e]]
  BY <1>3, <1>6 DEF Cleared, Sets!Link, Link
<1>10. Sets!MemoryRequest(c)
  BY <1>3, <1>4, <1>5, <1>8, <1>9 DEF Sets!MemoryRequest
<1> QED
  BY <1>3, <1>8, <1>10

(* A link is written: one link more, then one less.                        *)
LEMMA SetsPatch ==
    ASSUME Running(ms), View(ms, seen), Untouched, link \in Heap,
           NEW x \in Cell, NEW slot \in Slot, NEW y \in Cell \cup {NULL},
           PatchLink(x, slot, y), phase' = "running"
    PROVE  View(ms', seen') /\ Sets!PatchLink(x, slot, y)
<1> DEFINE z == link[<<x, slot>>]
<1> DEFINE n == memory_gc_advise_new_link(ms, y)
<1> DEFINE t == Patched(ms, y, z)
<1> DEFINE lost == [c \in Cell |-> IF c = z THEN 1 ELSE 0]
<1> DEFINE ob == IF NewLinkMoves(ms, y) THEN [seen EXCEPT ![y] = "boundary"] ELSE seen
<1> DEFINE oc == IF StaleMoves(n, z) THEN [ob EXCEPT ![z] = "free_pending"] ELSE ob
<1>1. /\ x \in Usable /\ y \in Usable \cup {NULL} /\ Becomes(t)
      /\ link' = [link EXCEPT ![<<x, slot>>] = y]
  BY DEF PatchLink, Patched
<1>2. z \in Cell \cup {NULL} /\ (z # NULL => seen[z] # "unallocated")
  <2>1. <<x, slot>> \in Link
    BY DEF Link
  <2> QED
    BY <2>1 DEF Heap, Untouched
<1> HIDE DEF z
<1>3. AfterNewLink(ms, y, n) /\ AfterStaleLink(n, z, t)
  BY <1>2, PatchIsProper
<1>4. t.fault = "none" /\ ms' = t /\ seen' = OwnerSeen(t)
  BY <1>1 DEF Becomes
<1> HIDE DEF n, t
<1>5. n.fault = "none"
  BY <1>3, <1>4 DEF AfterStaleLink
<1>6. /\ y # NULL => y \in ms.live /\ OwnerOf(ms, y) # "free_pending"
      /\ View(n, ob) /\ n \in Whole
      /\ n.refcount = IF y = NULL THEN ms.refcount ELSE [ms.refcount EXCEPT ![y] = @ + 1]
      /\ n.reachable = ms.reachable /\ n.locked = ms.locked /\ n.live = ms.live
      /\ n.clean_cycles = ms.clean_cycles
  BY <1>3, <1>5 DEF AfterNewLink
<1> HIDE DEF ob
<1>7. /\ z # NULL /\ n.refcount[z] = 0 => OwnerOf(n, z) = "free_pending" \/ z \notin n.live
      /\ View(t, oc) /\ t \in Whole
      /\ t.refcount = IF StaleCounts(n, z) THEN [n.refcount EXCEPT ![z] = @ - 1] ELSE n.refcount
      /\ t.reachable = n.reachable /\ t.locked = n.locked
      /\ t.clean_cycles = IF z = NULL THEN n.clean_cycles ELSE 0
  BY <1>3, <1>4, <1>6 DEF AfterStaleLink
<1> HIDE DEF oc
<1>8. seen' = oc /\ View(ms', seen')
  BY <1>4, <1>7, SeenNext
<1>9. /\ seen \in [Cell -> Places] /\ ob \in [Cell -> Places]
      /\ ms.refcount \in [Cell -> Nat] /\ n.refcount \in [Cell -> Nat] /\ NULL \notin Cell
      /\ Unproc(ms) \in {"white", "black"} /\ Unproc(ms) \in AllLists \ {"roots"}
  <2>1. ms \in States /\ n \in States
    BY <1>6 DEF Running, Whole
  <2>2. ms.refcount \in [Cell -> Nat] /\ n.refcount \in [Cell -> Nat]
    BY <2>1 DEF States
  <2> QED
    BY <1>6, <2>2, CellAssumption DEF View, Unproc, OtherColor, AllLists, Colors
<1>10. ob = Sets!Shaded(y)
  <2>1. \A c \in Cell : ob[c] = IF c = y /\ seen[c] = Sets!unproc_listref THEN "boundary" ELSE seen[c]
    BY <1>9, PlacesSeen, SetsSeen DEF ob, NewLinkMoves
  <2> QED
    BY <1>9, <2>1 DEF Sets!Shaded
<1>11. n.refcount = Sets!Retained(y)
  BY <1>6, <1>9 DEF Sets!Retained
<1>12. t.refcount = Sets!Released(n.refcount, lost)
  <2>1. \A c \in Cell : t.refcount[c] = IF n.refcount[c] > lost[c] THEN n.refcount[c] - lost[c] ELSE 0
    BY <1>2, <1>7, <1>9 DEF StaleCounts
  <2>2. t.refcount \in [Cell -> Nat]
    BY <1>7 DEF Whole, States
  <2> HIDE DEF lost
  <2> QED
    BY <2>1, <2>2 DEF Sets!Released
<1>13. z # NULL => (z \in n.live <=> ob[z] # "free")
  <2>1. z \in Cell => (z \in ms.live <=> seen[z] \notin {"unallocated", "free"})
    BY SetsSeen DEF Sets!Live, Sets!On
  <2>2. z \in Cell => (ob[z] = "free" <=> seen[z] = "free")
    BY <1>9, PlacesSeen DEF ob, NewLinkMoves
  <2> QED
    BY <1>2, <1>6, <2>1, <2>2
<1>14. ASSUME NEW c \in Cell
       PROVE  oc[c] = IF Sets!DropsToZero(n.refcount, lost, c) /\ c \notin ms.locked /\ ob[c] # "free"
                      THEN "free_pending" ELSE ob[c]
  <2>1. n.refcount[c] \in Nat /\ lost[c] = (IF c = z THEN 1 ELSE 0)
    BY <1>9
  <2>2. Sets!DropsToZero(n.refcount, lost, c) <=> (c = z /\ n.refcount[c] = 1)
    BY <2>1 DEF Sets!DropsToZero
  <2>3. CASE c = z
    <3>1. StaleMoves(n, z) <=> (n.refcount[c] = 1 /\ c \notin ms.locked /\ ob[c] # "free")
      BY <1>6, <1>9, <1>13, <2>3 DEF StaleMoves
    <3>2. oc[c] = IF StaleMoves(n, z) THEN "free_pending" ELSE ob[c]
      BY <1>9, <2>3 DEF oc
    <3> HIDE DEF lost
    <3> QED
      BY <2>2, <2>3, <3>1, <3>2
  <2>4. CASE c # z
    <3>1. oc[c] = ob[c]
      BY <1>9, <2>4 DEF oc
    <3> HIDE DEF lost
    <3> QED
      BY <2>2, <2>4, <3>1
  <2> QED
    BY <2>3, <2>4
<1>15. oc = Sets!Unlinked(ob, n.refcount, lost)
  <2>1. oc \in [Cell -> Places]
    BY <1>7 DEF View
  <2> HIDE DEF lost
  <2> QED
    BY <1>14, <2>1 DEF Sets!Unlinked
<1>16. Sets!AssertStaleLink(ob, n.refcount, lost)
  <2> SUFFICES ASSUME NEW c \in Cell, lost[c] > n.refcount[c]
               PROVE  oc[c] \in {"free_pending", "free"}
    BY <1>15 DEF Sets!AssertStaleLink
  <2>1. c = z /\ n.refcount[c] = 0
    BY <1>9
  <2>2. ~StaleMoves(n, z)
    BY <2>1 DEF StaleMoves
  <2>3. oc[c] = ob[c]
    BY <2>2 DEF oc
  <2>4. OwnerOf(n, z) = "free_pending" => ob[z] = "free_pending"
    <3>1. OwnerOf(n, z) = ListOf(ob[z]) /\ ob[z] \in Places
      BY <1>6, <1>9, <2>1 DEF View
    <3> QED
      BY <3>1, OnePlace DEF AllLists
  <2> QED
    BY <1>7, <1>9, <1>13, <2>1, <2>3, <2>4
<1>17. Sets!AssertNewLink(y)
  <2>1. "free_pending" \in AllLists \ {"roots"} /\ ms.live \subseteq Cell
    BY DEF AllLists, Running
  <2>2. y # NULL => seen[y] \notin {"unallocated", "free", "free_pending"}
    BY <1>6, <2>1, PlacesSeen, SetsSeen DEF Sets!Live, Sets!On
  <2> QED
    BY <2>2, SetsSeen DEF Sets!AssertNewLink
<1>18. /\ ms'.refcount = Sets!Released(Sets!Retained(y), lost)
       /\ seen' = Sets!Unlinked(Sets!Shaded(y), Sets!Retained(y), lost)
       /\ Sets!AssertStaleLink(Sets!Shaded(y), Sets!Retained(y), lost)
       /\ ms'.clean_cycles = IF z = NULL THEN ms.clean_cycles ELSE 0
       /\ ms'.reachable = ms.reachable /\ ms'.locked = ms.locked
       /\ x \in Sets!Usable /\ y \in Sets!Usable \cup {NULL}
  <2> HIDE DEF lost
  <2>1. Sets!Usable = Usable
    BY SetsSeen
  <2> QED
    BY <1>1, <1>4, <1>6, <1>7, <1>8, <1>10, <1>11, <1>12, <1>15, <1>16, <2>1
<1>19. Sets!PatchLink(x, slot, y)
  BY <1>1, <1>17, <1>18 DEF Sets!PatchLink, z
<1> QED
  BY <1>8, <1>19

LEMMA SetsLock ==
    ASSUME Running(ms), View(ms, seen), NEW c \in Cell, GcLock(c), phase' = "running"
    PROVE  View(ms', seen') /\ Sets!GcLock(c)
<1> DEFINE t == memory_gc_lock(ms, c)
<1> DEFINE ov == IF OwnerOf(ms, c) = "roots" THEN seen ELSE [seen EXCEPT ![c] = "roots_unproc"]
<1>1. c \in Usable /\ Becomes(t) /\ link' = link
  BY DEF GcLock
<1>2. AfterLock(ms, c, t)
  BY <1>1, UsableIsLive, LockIs
<1>3. ms' = t /\ seen' = OwnerSeen(t)
  BY <1>1 DEF Becomes
<1> HIDE DEF t
<1>4. /\ t \in Whole /\ View(t, ov) /\ t.locked = ms.locked \cup {c}
      /\ t.reachable = ms.reachable /\ t.refcount = ms.refcount /\ t.clean_cycles = ms.clean_cycles
  BY <1>2 DEF AfterLock
<1> HIDE DEF ov
<1>5. seen' = ov /\ View(ms', seen')
  BY <1>3, <1>4, SeenNext
<1>6. c \in Sets!Roots <=> OwnerOf(ms, c) = "roots"
  BY SetsSeen DEF RootCells
<1>7. ov = [seen EXCEPT ![c] = IF c \in Sets!Roots THEN @ ELSE "roots_unproc"]
  BY <1>6, PlacesSeen DEF ov
<1>8. c \in Sets!Usable
  BY <1>1, SetsSeen
<1> QED
  BY <1>1, <1>3, <1>4, <1>5, <1>7, <1>8 DEF Sets!GcLock

LEMMA SetsUnlock ==
    ASSUME Running(ms), View(ms, seen), NEW c \in Cell, GcUnlock(c), phase' = "running"
    PROVE  View(ms', seen') /\ Sets!GcUnlock(c)
<1> DEFINE t == memory_gc_unlock(ms, c)
<1> DEFINE ov == [seen EXCEPT ![c] = IF ms.refcount[c] # 0 THEN "boundary" ELSE "free_pending"]
<1>1. c \in Usable \cap RootCells /\ Becomes(t) /\ link' = link
  BY DEF GcUnlock
<1>2. AfterUnlock(ms, c, t)
  BY <1>1, UnlockIs DEF RootCells
<1>3. ms' = t /\ seen' = OwnerSeen(t)
  BY <1>1 DEF Becomes
<1> HIDE DEF t
<1>4. /\ t \in Whole /\ View(t, ov) /\ t.locked = ms.locked \ {c}
      /\ t.reachable = ms.reachable /\ t.refcount = ms.refcount /\ t.clean_cycles = 0
  BY <1>2 DEF AfterUnlock
<1> HIDE DEF ov
<1>5. seen' = ov /\ View(ms', seen')
  BY <1>3, <1>4, SeenNext
<1>6. c \in Sets!Usable \cap Sets!Roots
  BY <1>1, SetsSeen
<1> QED
  BY <1>1, <1>3, <1>4, <1>5, <1>6 DEF Sets!GcUnlock, ov

-----------------------------------------------------------------------------
(* Memory's cardinality is this module's.                                  *)
LEMMA SameCount == \A S : Sets!Cardinality(S) = Cardinality(S)
BY DEF Sets!Cardinality, Cardinality

(* The collector: what the link callback is called with are the links of   *)
(* the cell, one call for each.                                            *)
LEMMA LinksAre ==
    ASSUME link \in Heap, NEW x \in Cell
    PROVE  LET q == links_cb(x)
           IN  /\ \A c \in Cell : Lost(q, Len(q))[c] = Cardinality(Sets!LinksBetween(link, x, c))
               /\ Met(q, Len(q)) \ {NULL} = Sets!Targets(link, x)
               /\ (\E j \in 1..Len(q) : q[j] # NULL) <=> Sets!LinksOf(link, x) # {}
<1> DEFINE q == links_cb(x)
<1> DEFINE n == Len(q)
<1> DEFINE at(j) == <<x, SlotOrder[j]>>
<1>1. DOMAIN SlotOrder = 1..n /\ n \in Nat
  BY LinksType, SlotOrderAssumption
<1>2. \A j \in 1..n : q[j] = link[at(j)]
  BY <1>1 DEF links_cb
<1>3. \A j \in 1..n : SlotOrder[j] \in Slot /\ at(j) \in Link /\ at(j)[1] = x /\ at(j)[2] = SlotOrder[j]
  BY <1>1, SlotOrderAssumption DEF Link
<1>4. \A e \in Link : e[1] = x => \E j \in 1..n : e = at(j)
  BY <1>1, SlotOrderAssumption DEF Link, ToSet
<1>5. \A i, j \in 1..n : at(i) = at(j) => i = j
  BY <1>1, <1>3, SlotOrderAssumption
<1>6. Sets!Link = Link
  BY DEF Sets!Link, Link
<1> HIDE DEF q, n, at
<1>7. ASSUME NEW c \in Cell PROVE Lost(q, n)[c] = Cardinality(Sets!LinksBetween(link, x, c))
  <2> DEFINE J == {j \in 1..n : q[j] = c}
  <2> DEFINE E == {e \in Link : e[1] = x /\ link[e] = c}
  <2> DEFINE f == [j \in J |-> at(j)]
  <2>1. Sets!LinksBetween(link, x, c) = E
    BY <1>6 DEF Sets!LinksBetween, Sets!LinksTo
  <2>2. Lost(q, n)[c] = Cardinality(J)
    BY DEF Lost
  <2>3. \A j \in J : at(j) \in E
    BY <1>2, <1>3
  <2>4. \A e \in E : \E j \in J : at(j) = e
    BY <1>2, <1>4
  <2>5. J \in SUBSET (1..n) /\ \A i, j \in J : at(i) = at(j) => i = j
    BY <1>5
  <2>6. IsFiniteSet(J)
    BY <1>1, <2>5, FS_Interval, FS_Subset
  <2> HIDE DEF J, E
  <2>7. f \in Bijection(J, E)
    BY <2>3, <2>4, <2>5 DEF Bijection, Injection, Surjection, IsInjective
  <2>8. ExistsBijection(J, E)
    BY <2>7 DEF ExistsBijection
  <2>9. Cardinality(E) = Cardinality(J)
    BY <2>6, <2>8, FS_Bijection
  <2> QED
    BY <2>1, <2>2, <2>9
<1>8. Met(q, n) \ {NULL} = Sets!Targets(link, x)
  BY <1>2, <1>3, <1>4, <1>6 DEF Met, Sets!Targets, Sets!LinksOf
<1>9. (\E j \in 1..n : q[j] # NULL) <=> Sets!LinksOf(link, x) # {}
  BY <1>2, <1>3, <1>4, <1>6 DEF Sets!LinksOf
<1> QED
  BY <1>7, <1>8, <1>9 DEF q, n

(* A cell is freed, from free_pending or in the sweep.                     *)
LEMMA SetsFree ==
    ASSUME Running(ms), View(ms, seen), Untouched, link \in Heap, NEW x \in ms.live, NEW t,
           AfterFreeStep(ms, links_cb(x), x, t), t.fault = "none",
           ms' = t, seen' = OwnerSeen(t), link' = link
    PROVE  View(ms', seen') /\ Sets!FreeCell(x)
<1> DEFINE q == links_cb(x)
<1> DEFINE lost == Lost(q, Len(q))
<1> DEFINE ov == [Dropped(ms, seen, lost) EXCEPT ![x] = "free"]
<1>1. x \in Cell /\ ms.refcount \in [Cell -> Nat]
  BY DEF Running, Whole, States
<1>2. q \in Seq(Cell \cup {NULL})
  BY <1>1, LinksType
<1>3. /\ t \in Whole /\ t.refcount = Counted(ms, lost)
      /\ t.reachable = ms.reachable /\ t.locked = ms.locked
      /\ t.clean_cycles = IF \E j \in 1..Len(q) : q[j] # NULL THEN 0 ELSE ms.clean_cycles
      /\ View(t, ov)
      /\ \A d \in ms.live : lost[d] > ms.refcount[d] => Dropped(ms, seen, lost)[d] = "free_pending"
  BY DEF AfterFreeStep
<1>4. /\ \A c \in Cell : lost[c] = Cardinality(Sets!LinksBetween(link, x, c))
      /\ (\E j \in 1..Len(q) : q[j] # NULL) <=> Sets!LinksOf(link, x) # {}
  BY <1>1, LinksAre
<1>5. lost \in [Cell -> Nat]
  BY <1>2, LostType
<1>6. ASSUME NEW c \in Cell, seen[c] = "unallocated" PROVE lost[c] = 0
  <2>1. \A j \in 1..Len(q) : q[j] # c
    <3> SUFFICES ASSUME NEW j \in 1..Len(q) PROVE q[j] # c
      OBVIOUS
    <3>1. j \in DOMAIN SlotOrder /\ SlotOrder[j] \in Slot
      BY <1>1, LinksType, SlotOrderAssumption
    <3>2. q[j] = link[<<x, SlotOrder[j]>>] /\ <<x, SlotOrder[j]>> \in Link
      BY <1>1, <3>1 DEF links_cb, Link
    <3> QED
      BY <1>6, <3>2 DEF Untouched
  <2> HIDE DEF q
  <2>2. {j \in 1..Len(q) : q[j] = c} = {}
    BY <2>1
  <2> QED
    BY <2>2, FS_EmptySet DEF Lost
<1> HIDE DEF lost
<1>7. Sets!Released(ms.refcount, lost) = Counted(ms, lost)
  BY DEF Sets!Released, Counted
<1>8. Sets!Unlinked(seen, ms.refcount, lost) = Dropped(ms, seen, lost)
  <2>1. ASSUME NEW c \in Cell
        PROVE  (Sets!DropsToZero(ms.refcount, lost, c) /\ c \notin ms.locked /\ seen[c] # "free")
                 <=> Drops(ms, lost, c)
    <3>1. c \in ms.live <=> seen[c] \notin {"unallocated", "free"}
      BY SetsSeen DEF Sets!Live, Sets!On
    <3>2. seen[c] = "unallocated" => ms.refcount[c] = 0
      BY DEF Untouched
    <3> QED
      BY <3>1, <3>2 DEF Sets!DropsToZero, Drops
  <2> QED
    BY <2>1 DEF Sets!Unlinked, Dropped
<1>9. Sets!AssertStaleLink(seen, ms.refcount, lost)
  <2> SUFFICES ASSUME NEW c \in Cell, lost[c] > ms.refcount[c]
               PROVE  Dropped(ms, seen, lost)[c] \in {"free_pending", "free"}
    BY <1>8 DEF Sets!AssertStaleLink
  <2>1. CASE c \in ms.live
    BY <1>3, <2>1
  <2>2. CASE c \notin ms.live
    <3>1. seen[c] \in {"unallocated", "free"}
      BY <2>2, SetsSeen DEF Sets!Live, Sets!On
    <3>2. seen[c] # "unallocated"
      BY <1>1, <1>6
    <3>3. Dropped(ms, seen, lost)[c] = seen[c]
      BY <2>2 DEF Dropped, Drops
    <3> QED
      BY <3>1, <3>2, <3>3
  <2> QED
    BY <2>1, <2>2
<1>10. lost = [c \in Cell |-> Cardinality(Sets!LinksBetween(link, x, c))]
  BY <1>4, <1>5
<1> HIDE DEF ov
<1>11. seen' = ov /\ View(ms', seen')
  BY <1>3, SeenNext
<1>12. /\ ms'.refcount = Sets!Released(ms.refcount, lost)
       /\ seen' = [Sets!Unlinked(seen, ms.refcount, lost) EXCEPT ![x] = "free"]
       /\ ms'.clean_cycles = IF Sets!LinksOf(link, x) = {} THEN ms.clean_cycles ELSE 0
       /\ ms'.reachable = ms.reachable /\ ms'.locked = ms.locked /\ link' = link
  BY <1>3, <1>4, <1>7, <1>8, <1>11 DEF ov
<1>13. Sets!FreeCell(x)
  <2> DEFINE gone == [c \in Cell |-> Sets!Cardinality(Sets!LinksBetween(link, x, c))]
  <2>1. gone = lost
    BY <1>10, SameCount
  <2> HIDE DEF gone
  <2>2. /\ Sets!AssertStaleLink(seen, ms.refcount, gone)
        /\ ms'.refcount = Sets!Released(ms.refcount, gone)
        /\ seen' = [Sets!Unlinked(seen, ms.refcount, gone) EXCEPT ![x] = "free"]
        /\ ms'.clean_cycles = IF Sets!LinksOf(link, x) = {} THEN ms.clean_cycles ELSE 0
        /\ UNCHANGED <<ms.reachable, ms.locked, link>>
    BY <1>9, <1>12, <2>1
  <2> QED
    BY <2>2 DEF Sets!FreeCell, gone
<1> QED
  BY <1>11, <1>13

(* A boundary cell or a root is traced.                                    *)
LEMMA SetsTrace ==
    ASSUME Running(ms), View(ms, seen), link \in Heap, NEW x \in ms.live, NEW t, NEW place,
           AfterTraceStep(ms, links_cb(x), x, place, t), t.fault = "none",
           ms' = t, seen' = OwnerSeen(t), link' = link
    PROVE  View(ms', seen') /\ Sets!TraceCell(x, place)
<1> DEFINE q == links_cb(x)
<1> DEFINE T == Met(q, Len(q))
<1> DEFINE ov == [Traced(ms, seen, T) EXCEPT ![x] = place]
<1>1. x \in Cell
  BY DEF Running
<1>2. /\ t \in Whole /\ SameData(ms, t) /\ View(t, ov)
      /\ \A d \in T \ {NULL} : d \in ms.live /\ OwnerOf(ms, d) # "free_pending" /\ ms.refcount[d] # 0
  BY DEF AfterTraceStep
<1>3. T \ {NULL} = Sets!Targets(link, x)
  BY <1>1, LinksAre
<1> HIDE DEF T
<1>4. Sets!AssertLinked(x)
  <2> SUFFICES ASSUME NEW c \in Sets!Targets(link, x) PROVE c \notin Sets!Dying /\ ms.refcount[c] # 0
    BY DEF Sets!AssertLinked
  <2>1. c \in ms.live /\ c \in Cell /\ OwnerOf(ms, c) # "free_pending" /\ ms.refcount[c] # 0
    BY <1>2, <1>3 DEF Running
  <2>2. seen[c] \notin {"unallocated", "free"}
    BY <2>1, SetsSeen DEF Sets!Live, Sets!On
  <2>3. seen[c] # "free_pending"
    BY <2>1, PlacesSeen DEF AllLists
  <2> QED
    BY <2>1, <2>2, <2>3, SetsSeen
<1>5. ASSUME NEW c \in Cell
      PROVE  ov[c] = IF c = x THEN place
                     ELSE IF /\ c \in Sets!Targets(link, x)
                             /\ seen[c] = Sets!unproc_listref \/ c \in Sets!Roots \ ms.locked
                          THEN "boundary" ELSE seen[c]
  <2>1. seen[c] = Sets!unproc_listref <=> OwnerOf(ms, c) = Unproc(ms)
    <3>1. Unproc(ms) \in AllLists \ {"roots"}
      BY SetsSeen DEF AllLists, Colors
    <3> QED
      BY <3>1, SetsSeen, PlacesSeen
  <2>2. c \in Sets!Roots <=> OwnerOf(ms, c) = "roots"
    BY SetsSeen DEF RootCells
  <2>3. c \in T <=> c \in Sets!Targets(link, x)
    BY <1>3, CellAssumption
  <2> QED
    BY <2>1, <2>2, <2>3 DEF Traced
<1>6. ov \in [Cell -> Places]
  BY <1>2 DEF View
<1> HIDE DEF ov
<1>7. seen' = ov /\ View(ms', seen')
  BY <1>2, SeenNext
<1>8. seen' = [c \in Cell |-> IF c = x THEN place
                              ELSE IF /\ c \in Sets!Targets(link, x)
                                      /\ seen[c] = Sets!unproc_listref \/ c \in Sets!Roots \ ms.locked
                                   THEN "boundary" ELSE seen[c]]
  BY <1>5, <1>6, <1>7
<1>9. /\ ms'.refcount = ms.refcount /\ ms'.reachable = ms.reachable /\ ms'.locked = ms.locked
      /\ ms'.clean_cycles = ms.clean_cycles /\ link' = link
  BY <1>2 DEF SameData
<1>10. Sets!TraceCell(x, place)
  BY <1>4, <1>8, <1>9 DEF Sets!TraceCell
<1> QED
  BY <1>7, <1>10

(* One iteration: the first cell of a list is any cell of it.              *)
LEMMA SetsIterate ==
    ASSUME Running(ms), View(ms, seen), Untouched, link \in Heap, Iterate, phase' = "running"
    PROVE  View(ms', seen') /\ Sets!Iterate
<1> DEFINE t == memory_gc_iterate(ms)
<1>a. Sets!Collecting <=> Collecting
  BY DEF Sets!Collecting, Collecting
<1>b. ms.live \subseteq Cell /\ {"free_pending", "boundary", "free"} \subseteq AllLists \ {"roots"}
  BY DEF Running, AllLists
<1>c. /\ Sets!unproc_listref = Unproc(ms) /\ Unproc(ms) \in AllLists \ {"roots"}
      /\ ms.reachable \in Colors
  BY SetsSeen DEF AllLists, Colors, Running, Whole, States
<1>1. CASE ~Collecting
  <2>1. ms' = ms /\ seen' = OwnerSeen(ms) /\ link' = link
    BY <1>1 DEF Iterate, Becomes
  <2>2. seen' = seen /\ View(ms', seen')
    BY <2>1, SeenNext DEF Running
  <2>3. Sets!IterateSkip
    BY <1>1, <1>a, <2>1, <2>2 DEF Sets!IterateSkip, Sets!vars
  <2> QED
    BY <2>2, <2>3 DEF Sets!Iterate
<1>2. CASE Collecting
  <2>1. ms' = t /\ seen' = OwnerSeen(t) /\ link' = link /\ t.fault = "none"
    BY <1>2 DEF Iterate, Becomes
  <2>2. CASE ~IsEmpty(ms, "free_pending") /\ t = IteratePending(ms)
    <3> DEFINE x == First(ms, "free_pending")
    <3>1. AfterPending(ms, x, t)
      BY <2>2, PendingIs
    <3> HIDE DEF x, t
    <3>2. /\ x \in ms.live /\ OwnerOf(ms, x) = "free_pending" /\ x \notin ms.locked /\ ms.refcount[x] = 0
          /\ AfterFreeStep(ms, links_cb(x), x, t)
      BY <2>1, <3>1 DEF AfterPending
    <3>3. View(ms', seen') /\ Sets!FreeCell(x)
      BY <2>1, <3>2, SetsFree
    <3>4. seen[x] = "free_pending" /\ x \in Cell
      BY <1>b, <3>2, PlacesSeen
    <3>5. Sets!IterateFreePending(x)
      BY <1>2, <1>a, <3>2, <3>3, <3>4 DEF Sets!IterateFreePending
    <3> QED
      BY <3>3, <3>4, <3>5 DEF Sets!Iterate
  <2>3. CASE IsEmpty(ms, "free_pending") /\ ~IsEmpty(ms, "boundary") /\ t = IterateBoundary(ms)
    <3> DEFINE x == First(ms, "boundary")
    <3>1. AfterBoundary(ms, x, t)
      BY <2>3, BoundaryIs
    <3> HIDE DEF x, t
    <3>2. /\ x \in ms.live /\ OwnerOf(ms, x) = "boundary" /\ x \notin ms.locked /\ ms.refcount[x] # 0
          /\ AfterTraceStep(ms, links_cb(x), x, ms.reachable, t)
      BY <2>1, <3>1 DEF AfterBoundary
    <3>3. View(ms', seen') /\ Sets!TraceCell(x, ms.reachable)
      BY <2>1, <3>2, SetsTrace
    <3>4. seen[x] = "boundary" /\ x \in Cell
      BY <1>b, <3>2, PlacesSeen
    <3>5. Sets!On({"free_pending"}) = {}
      BY <1>b, <2>3, EmptySeen DEF Sets!On
    <3>6. Sets!IterateBoundary(x)
      BY <1>2, <1>a, <3>2, <3>3, <3>4, <3>5 DEF Sets!IterateBoundary
    <3> QED
      BY <3>3, <3>4, <3>6 DEF Sets!Iterate
  <2>4. CASE /\ IsEmpty(ms, "free_pending") /\ IsEmpty(ms, "boundary")
             /\ First(ms, "roots") # Sentinel /\ t = IterateRoot(ms)
    <3> DEFINE x == First(ms, "roots")
    <3>1. AfterRoot(ms, x, t)
      BY <2>4, RootIs
    <3> HIDE DEF x, t
    <3>2. /\ x \in ms.live /\ seen[x] = "roots_unproc"
          /\ AfterTraceStep(ms, links_cb(x), x, "roots_proc", t)
      BY <3>1 DEF AfterRoot
    <3>3. View(ms', seen') /\ Sets!TraceCell(x, "roots_proc")
      BY <2>1, <3>2, SetsTrace
    <3>4. Sets!On({"free_pending", "boundary"}) = {}
      BY <1>b, <2>4, EmptySeen DEF Sets!On
    <3>5. Sets!IterateRoot(x) /\ x \in Cell
      BY <1>2, <1>a, <1>b, <3>2, <3>3, <3>4 DEF Sets!IterateRoot
    <3> QED
      BY <3>3, <3>5 DEF Sets!Iterate
  <2>5. CASE /\ IsEmpty(ms, "free_pending") /\ IsEmpty(ms, "boundary") /\ First(ms, "roots") = Sentinel
             /\ ~IsEmpty(ms, Unproc(ms)) /\ t = IterateUnproc(ms)
    <3> DEFINE x == First(ms, Unproc(ms))
    <3>1. AfterUnproc(ms, x, t)
      BY <2>5, UnprocIs
    <3> HIDE DEF x, t
    <3>2. /\ x \in ms.live /\ OwnerOf(ms, x) = Unproc(ms) /\ x \notin ms.locked
          /\ AfterFreeStep(ms, links_cb(x), x, t)
      BY <2>1, <3>1 DEF AfterUnproc
    <3>3. View(ms', seen') /\ Sets!FreeCell(x)
      BY <2>1, <3>2, SetsFree
    <3>4. seen[x] = Sets!unproc_listref /\ x \in Cell
      BY <1>b, <1>c, <3>2, PlacesSeen
    <3>5. Sets!On({"free_pending", "boundary", "roots_unproc"}) = {}
      BY <1>b, <2>5, EmptySeen DEF Sets!On
    <3>6. Sets!IterateUnproc(x)
      BY <1>2, <1>a, <3>2, <3>3, <3>4, <3>5 DEF Sets!IterateUnproc
    <3> QED
      BY <3>3, <3>4, <3>6 DEF Sets!Iterate
  <2>6. CASE /\ IsEmpty(ms, "free_pending") /\ IsEmpty(ms, "boundary") /\ First(ms, "roots") = Sentinel
             /\ IsEmpty(ms, Unproc(ms)) /\ t = IterateReset(ms)
    <3>1. AfterReset(ms, t)
      BY <1>2, <2>6, ResetIs DEF Collecting
    <3>2. Ahead(seen) = {}
      BY <2>6, EmptySeen DEF Ahead
    <3> HIDE DEF t
    <3>3. /\ t \in Whole /\ View(t, Recolored(seen)) /\ t.reachable = OtherColor(ms.reachable)
          /\ t.clean_cycles = ms.clean_cycles + 1 /\ t.refcount = ms.refcount /\ t.locked = ms.locked
      BY <3>1, <3>2 DEF AfterReset
    <3>4. seen' = Recolored(seen) /\ View(ms', seen')
      BY <2>1, <3>3, SeenNext
    <3>5. Sets!On({"free_pending", "boundary", "roots_unproc", Sets!unproc_listref}) = {}
      BY <1>b, <1>c, <2>6, EmptySeen DEF Sets!On
    <3>6. t.reachable = Sets!unproc_listref
      BY <1>c, <3>3 DEF Unproc
    <3>7. Sets!IterateReset
      BY <1>2, <1>a, <2>1, <3>3, <3>4, <3>5, <3>6 DEF Sets!IterateReset, Recolored
    <3> QED
      BY <3>4, <3>7 DEF Sets!Iterate
  <2> QED
    BY OneOfFive, <2>2, <2>3, <2>4, <2>5, <2>6
<1> QED
  BY <1>1, <1>2

(* Memory that was never allocated is never counted, locked or linked.     *)
LEMMA UntouchedStep ==
    ASSUME Running(ms), View(ms, seen), Untouched, link \in Heap, Sets!Next
    PROVE  Untouched'
<1>1. /\ seen \in [Cell -> Places] /\ ms.refcount \in [Cell -> Nat] /\ NULL \notin Cell
      /\ \A e \in Link : e[1] \in Cell /\ link[e] \in Cell \cup {NULL}
      /\ Sets!unproc_listref \in {"white", "black"}
  BY PlacesSeen, SetsSeen, CellAssumption DEF Running, Whole, States, Heap, Link, Colors
<1>2. \A c \in Sets!Usable : c \in Cell /\ seen[c] # "unallocated"
  BY DEF Sets!Usable, Sets!Live, Sets!On
<1>3. ASSUME NEW c \in Cell, Sets!MemoryRequest(c) PROVE Untouched'
  BY <1>1, <1>3 DEF Untouched, Sets!MemoryRequest, Sets!Link, Link
<1>4. ASSUME NEW x \in Cell, NEW s \in Slot, NEW y \in Cell \cup {NULL}, Sets!PatchLink(x, s, y)
      PROVE  Untouched'
  <2> DEFINE lost == [c \in Cell |-> IF c = link[<<x, s>>] THEN 1 ELSE 0]
  <2>1. /\ link' = [link EXCEPT ![<<x, s>>] = y] /\ ms'.locked = ms.locked
        /\ seen' = Sets!Unlinked(Sets!Shaded(y), Sets!Retained(y), lost)
        /\ ms'.refcount = Sets!Released(Sets!Retained(y), lost)
        /\ y \in Sets!Usable \cup {NULL}
    BY <1>4 DEF Sets!PatchLink
  <2>2. lost \in [Cell -> Nat]
    OBVIOUS
  <2> HIDE DEF lost
  <2> SUFFICES ASSUME NEW c \in Cell, seen'[c] = "unallocated"
               PROVE  ms'.refcount[c] = 0 /\ c \notin ms'.locked /\ \A e \in Link : link'[e] # c
    BY DEF Untouched
  <2>3. seen[c] = "unallocated"
    BY <2>1 DEF Sets!Unlinked, Sets!Shaded
  <2>4. c # y
    BY <1>1, <1>2, <2>1, <2>3
  <2>5. ms.refcount[c] = 0 /\ c \notin ms.locked /\ \A e \in Link : link[e] # c
    BY <2>3 DEF Untouched
  <2>6. Sets!Retained(y)[c] = 0
    BY <2>4, <2>5 DEF Sets!Retained
  <2>7. ms'.refcount[c] = 0
    BY <2>1, <2>2, <2>6 DEF Sets!Released
  <2>8. \A e \in Link : link'[e] # c
    <3>1. \A e \in Link : link'[e] = IF e = <<x, s>> THEN y ELSE link[e]
      BY <2>1 DEF Heap
    <3> QED
      BY <2>4, <2>5, <3>1
  <2> QED
    BY <2>1, <2>5, <2>7, <2>8
<1>5. ASSUME NEW c \in Cell, Sets!GcLock(c) \/ Sets!GcUnlock(c) PROVE Untouched'
  BY <1>1, <1>2, <1>5 DEF Untouched, Sets!GcLock, Sets!GcUnlock
<1>6. ASSUME NEW x \in Cell, Sets!FreeCell(x) PROVE Untouched'
  <2> DEFINE lost == [c \in Cell |-> Sets!Cardinality(Sets!LinksBetween(link, x, c))]
  <2>1. /\ link' = link /\ ms'.locked = ms.locked
        /\ seen' = [Sets!Unlinked(seen, ms.refcount, lost) EXCEPT ![x] = "free"]
        /\ ms'.refcount = Sets!Released(ms.refcount, lost)
    BY <1>6 DEF Sets!FreeCell
  <2>2. lost \in [Cell -> Nat]
    <3>1. \A c \in Cell : Lost(links_cb(x), Len(links_cb(x)))[c] = Cardinality(Sets!LinksBetween(link, x, c))
      BY LinksAre
    <3>2. Lost(links_cb(x), Len(links_cb(x))) \in [Cell -> Nat]
      BY LinksType, LostType, SlotOrderAssumption
    <3>3. \A c \in Cell : lost[c] = Cardinality(Sets!LinksBetween(link, x, c))
      BY SameCount
    <3> QED
      BY <3>1, <3>2, <3>3
  <2> HIDE DEF lost
  <2> SUFFICES ASSUME NEW c \in Cell, seen'[c] = "unallocated"
               PROVE  ms'.refcount[c] = 0 /\ c \notin ms'.locked /\ \A e \in Link : link'[e] # c
    BY DEF Untouched
  <2>3. seen[c] = "unallocated"
    BY <2>1 DEF Sets!Unlinked
  <2>4. ms.refcount[c] = 0 /\ c \notin ms.locked /\ \A e \in Link : link[e] # c
    BY <2>3 DEF Untouched
  <2>5. ms'.refcount[c] = 0
    BY <2>1, <2>2, <2>4 DEF Sets!Released
  <2> QED
    BY <2>1, <2>4, <2>5
<1>7. ASSUME NEW x \in Cell, Sets!IterateFreePending(x) \/ Sets!IterateUnproc(x) PROVE Untouched'
  BY <1>6, <1>7 DEF Sets!IterateFreePending, Sets!IterateUnproc
<1>8. ASSUME NEW x \in Cell, Sets!IterateBoundary(x) \/ Sets!IterateRoot(x) PROVE Untouched'
  <2>1. ms.reachable \in {"white", "black"}
    BY DEF Running, Whole, States, Colors
  <2> QED
    BY <1>1, <1>8, <2>1 DEF Untouched, Sets!IterateBoundary, Sets!IterateRoot, Sets!TraceCell
<1>9. CASE Sets!IterateReset
  BY <1>9 DEF Untouched, Sets!IterateReset
<1>10. CASE Sets!IterateSkip
  BY <1>10 DEF Untouched, Sets!IterateSkip, Sets!vars
<1> QED
  BY <1>3, <1>4, <1>5, <1>7, <1>8, <1>9, <1>10 DEF Sets!Next, Sets!Client, Sets!Iterate

-----------------------------------------------------------------------------
(* The memory manager on its lists implements the one on sets.             *)
WorksInv == ListsInv /\ (phase = "running" => View(ms, seen) /\ Untouched)

LEMMA InitWorks == Init => Sets!Init /\ WorksInv
<1> SUFFICES ASSUME Init PROVE Sets!Init /\ WorksInv
  OBVIOUS
<1> DEFINE ow == [c \in Cell |-> "unallocated"]
<1> DEFINE h == dlist_insertlast(dlist_init, "roots", Sentinel)
<1>1. /\ ms = memory_state_init /\ ms.dl = h /\ Running(ms)
      /\ ms.reachable = "white" /\ ms.refcount = [c \in Cell |-> 0] /\ ms.locked = {} /\ ms.clean_cycles = 0
  BY InitRuns DEF Init, memory_state_init
<1>2. /\ h.owner = [n \in DlNode |-> IF n \in AllLists THEN n ELSE IF n = Sentinel THEN "roots" ELSE NULL]
      /\ h.next["roots"] = Sentinel /\ h.next[Sentinel] = "roots"
  BY FirstLists
<1> HIDE DEF h
<1>3. /\ \A c \in Cell : h.owner[c] = NULL
      /\ h.owner[Sentinel] = "roots" /\ NULL # "roots"
  BY <1>2, Names, NodesAssumption DEF Node, AllLists
<1>4. Ahead(ow) = {} /\ Behind(h, {}) = {}
  BY <1>3 DEF Ahead, Behind
<1>5. Cut(h, Ahead(ow))
  BY <1>2, <1>3, <1>4 DEF Cut
<1>6. View(ms, ow)
  BY <1>1, <1>3, <1>5 DEF View, Places, OwnerOf, ListOf
<1>7. seen = ow
  BY <1>1, <1>6, SeenIs DEF Init, Running
<1>8. link = [e \in Link |-> NULL]
  BY DEF Init
<1>9. Untouched
  BY <1>1, <1>8, CellAssumption DEF Untouched
<1>10. Sets!Init
  BY <1>1, <1>7, <1>8 DEF Sets!Init, Sets!Link, Link
<1>11. ListsInv
  BY InitIsSound
<1> QED
  BY <1>6, <1>7, <1>9, <1>10, <1>11 DEF WorksInv

LEMMA NextWorks == WorksInv /\ [Next]_vars => WorksInv' /\ [phase' # "running" \/ Sets!Next]_(Sets!vars)
<1> SUFFICES ASSUME WorksInv, [Next]_vars
             PROVE  WorksInv' /\ [phase' # "running" \/ Sets!Next]_(Sets!vars)
  OBVIOUS
<1>1. ListsInv /\ ListsInv'
  BY NextIsSound DEF WorksInv
<1>2. CASE phase' # "running"
  BY <1>1, <1>2 DEF WorksInv
<1>3. CASE phase' = "running" /\ (Client \/ Iterate)
  <2>1. phase = "running"
    BY <1>3 DEF Client, MemoryRequest, OutOfMemory, PatchLink, GcLock, GcUnlock, Iterate, Becomes
  <2>2. Running(ms) /\ View(ms, seen) /\ Untouched /\ link \in Heap
    BY <1>1, <2>1 DEF WorksInv, ListsInv
  <2>3. View(ms', seen') /\ Sets!Next
    <3>1. CASE \E blob \in BOOLEAN : MemoryRequest(blob)
      <4>1. PICK blob \in BOOLEAN : MemoryRequest(blob)
        BY <3>1
      <4>2. View(ms', seen') /\ \E c \in Cell : Sets!MemoryRequest(c)
        BY <1>3, <2>2, <4>1, SetsRequest
      <4> QED
        BY <4>2 DEF Sets!Next, Sets!Client
    <3>2. CASE OutOfMemory
      <4>1. ms \in States
        BY <2>2 DEF Running, Whole
      <4> QED
        BY <1>3, <3>2, <4>1 DEF OutOfMemory, Becomes, States
    <3>3. CASE \E x \in Cell, slot \in Slot, y \in Cell \cup {NULL} : PatchLink(x, slot, y)
      <4>1. PICK x \in Cell, slot \in Slot, y \in Cell \cup {NULL} : PatchLink(x, slot, y)
        BY <3>3
      <4>2. View(ms', seen') /\ Sets!PatchLink(x, slot, y)
        BY <1>3, <2>2, <4>1, SetsPatch
      <4> QED
        BY <4>2 DEF Sets!Next, Sets!Client
    <3>4. CASE \E c \in Cell : GcLock(c) \/ GcUnlock(c)
      <4>1. PICK c \in Cell : GcLock(c) \/ GcUnlock(c)
        BY <3>4
      <4>2. View(ms', seen') /\ (Sets!GcLock(c) \/ Sets!GcUnlock(c))
        BY <1>3, <2>2, <4>1, SetsLock, SetsUnlock
      <4> QED
        BY <4>2 DEF Sets!Next, Sets!Client
    <3>5. CASE Iterate
      <4>1. View(ms', seen') /\ Sets!Iterate
        BY <1>3, <2>2, <3>5, SetsIterate
      <4> QED
        BY <4>1 DEF Sets!Next
    <3> QED
      BY <1>3, <3>1, <3>2, <3>3, <3>4, <3>5 DEF Client
  <2>4. Untouched'
    BY <2>2, <2>3, UntouchedStep
  <2> QED
    BY <1>1, <2>3, <2>4 DEF WorksInv, View, OwnerOf, Cut, Behind, Ahead
<1>4. CASE UNCHANGED <<ms, link, seen, phase>>
  <2>1. UNCHANGED Sets!vars
    BY <1>4 DEF Sets!vars
  <2>2. WorksInv'
    BY <1>1, <1>4 DEF WorksInv, Untouched, View, OwnerOf, Cut, Behind, Ahead
  <2> QED
    BY <2>1, <2>2
<1> QED
  BY <1>2, <1>3, <1>4 DEF Next, StateReset, BecomeQuiet, Ended, vars

(* Every step of the memory manager on its lists is one of Memory, on what *)
(* it sees of them, or changes nothing there, until the program ends: what *)
(* is proved of Memory holds of memory.c with its lists.                   *)
THEOREM ListsImplementSets == Spec => WorksOnSets
<1>1. Init => Sets!Init /\ WorksInv
  BY InitWorks
<1>2. WorksInv /\ [Next]_vars => WorksInv' /\ [phase' # "running" \/ Sets!Next]_(Sets!vars)
  BY NextWorks
<1> QED
  BY <1>1, <1>2, PTL DEF Spec, WorksOnSets

-----------------------------------------------------------------------------
(* The theorems about Memory, for what is seen of the lists.  That they    *)
(* are about the same operators is said first, from the graph upwards.     *)
LOCAL MP == INSTANCE Memory_proofs WITH
                owner <- seen, reachable_listref <- ms.reachable, refcount <- ms.refcount,
                locked <- ms.locked, clean_cycles <- ms.clean_cycles

LEMMA SameGraph ==
    /\ MP!Link = Sets!Link /\ MP!Heap = Sets!Heap
    /\ \A S : MP!Cardinality(S) = Sets!Cardinality(S)
    /\ \A h, R : MP!Reachable(h, R) = Sets!Reachable(h, R)
    /\ \A h, c : MP!LinksOf(h, c) = Sets!LinksOf(h, c)
    /\ \A h, c : MP!Targets(h, c) = Sets!Targets(h, c)
    /\ \A h, S, c : MP!LinksTo(h, S, c) = Sets!LinksTo(h, S, c)
    /\ \A h, x, c : MP!LinksBetween(h, x, c) = Sets!LinksBetween(h, x, c)
<1>1. MP!Link = Sets!Link /\ MP!Heap = Sets!Heap
  BY DEF MP!Link, Sets!Link, MP!Heap, Sets!Heap
<1>2. \A S : MP!Cardinality(S) = Sets!Cardinality(S)
  BY DEF MP!Cardinality, Sets!Cardinality
<1>3. \A h, R : MP!Reachable(h, R) = Sets!Reachable(h, R)
  BY <1>1 DEF MP!Reachable, Sets!Reachable, MP!Closed, Sets!Closed
<1>4. \A h, c : MP!LinksOf(h, c) = Sets!LinksOf(h, c)
  BY <1>1 DEF MP!LinksOf, Sets!LinksOf
<1>5. \A h, c : MP!Targets(h, c) = Sets!Targets(h, c)
  BY <1>4 DEF MP!Targets, Sets!Targets
<1>6. \A h, S, c : MP!LinksTo(h, S, c) = Sets!LinksTo(h, S, c)
  BY <1>1 DEF MP!LinksTo, Sets!LinksTo
<1>7. \A h, x, c : MP!LinksBetween(h, x, c) = Sets!LinksBetween(h, x, c)
  BY <1>6 DEF MP!LinksBetween, Sets!LinksBetween
<1> QED
  BY <1>1, <1>2, <1>3, <1>4, <1>5, <1>6, <1>7

(* What those theorems assume of the constants.                            *)
LEMMA MemoryAssumptions ==
    /\ MP!IsFiniteSet(Cell) /\ NULL \notin Cell /\ MP!IsFiniteSet(Slot)
    /\ AssertReuse \in BOOLEAN
BY CellAssumption, SlotAssumption, AssertReuseAssumption DEF MP!IsFiniteSet, IsFiniteSet

LEMMA SameInvariants ==
    /\ MP!Init <=> Sets!Init
    /\ MP!vars = Sets!vars
    /\ MP!Bookkeeping <=> Sets!Bookkeeping
    /\ MP!AccessibleIsAlive <=> Sets!AccessibleIsAlive
<1>1. (MP!Init <=> Sets!Init) /\ MP!vars = Sets!vars
  BY SameGraph DEF MP!Init, Sets!Init, MP!vars, Sets!vars
<1>2. /\ \A l : MP!OtherList(l) = Sets!OtherList(l)
      /\ MP!unproc_listref = Sets!unproc_listref
      /\ \A l : MP!On(l) = Sets!On(l)
      /\ MP!Roots = Sets!Roots /\ MP!Live = Sets!Live /\ MP!Dying = Sets!Dying
      /\ MP!Held = Sets!Held /\ MP!Lists = Sets!Lists /\ MP!Reached = Sets!Reached
      /\ MP!Processed = Sets!Processed
  BY DEF MP!OtherList, Sets!OtherList, MP!unproc_listref, Sets!unproc_listref, MP!On, Sets!On,
         MP!Roots, Sets!Roots, MP!Live, Sets!Live, MP!Dying, Sets!Dying, MP!Held, Sets!Held,
         MP!Lists, Sets!Lists, MP!Reached, Sets!Reached, MP!Processed, Sets!Processed
<1>3. MP!Dangling = Sets!Dangling
  BY <1>2, SameGraph DEF MP!Dangling, Sets!Dangling
<1>4. /\ MP!TypeOK <=> Sets!TypeOK
      /\ MP!LockedAreRoots <=> Sets!LockedAreRoots
      /\ MP!TriColour <=> Sets!TriColour
      /\ MP!RefExact <=> Sets!RefExact
      /\ MP!UnlinkedIsDying <=> Sets!UnlinkedIsDying
  BY <1>2, SameGraph
     DEF MP!TypeOK, Sets!TypeOK, MP!LockedAreRoots, Sets!LockedAreRoots, MP!TriColour, Sets!TriColour,
         MP!RefExact, Sets!RefExact, MP!UnlinkedIsDying, Sets!UnlinkedIsDying
<1>5. MP!SweepInv <=> Sets!SweepInv
  BY <1>2, <1>3, SameGraph DEF MP!SweepInv, Sets!SweepInv
<1>6. MP!Bookkeeping <=> Sets!Bookkeeping
  BY <1>4, <1>5 DEF MP!Bookkeeping, Sets!Bookkeeping
<1>7. MP!Accessible = Sets!Accessible /\ MP!Usable = Sets!Usable
  BY <1>2, SameGraph DEF MP!Accessible, Sets!Accessible, MP!Usable, Sets!Usable
<1>8. MP!AccessibleIsAlive <=> Sets!AccessibleIsAlive
  BY <1>2, <1>7 DEF MP!AccessibleIsAlive, Sets!AccessibleIsAlive
<1> QED
  BY <1>1, <1>6, <1>8

LEMMA SameCalls ==
    /\ MP!Sweeping <=> Sets!Sweeping
    /\ \A rc, lost : MP!Released(rc, lost) = Sets!Released(rc, lost)
    /\ \A ow, rc, lost : MP!Unlinked(ow, rc, lost) = Sets!Unlinked(ow, rc, lost)
    /\ \A ow, rc, lost : MP!AssertStaleLink(ow, rc, lost) <=> Sets!AssertStaleLink(ow, rc, lost)
    /\ \A y : MP!Retained(y) = Sets!Retained(y) /\ MP!Shaded(y) = Sets!Shaded(y)
    /\ \A y : MP!AssertNewLink(y) <=> Sets!AssertNewLink(y)
    /\ \A x : MP!AssertLinked(x) <=> Sets!AssertLinked(x)
    /\ MP!Usable = Sets!Usable
<1>1. /\ \A l : MP!OtherList(l) = Sets!OtherList(l)
      /\ MP!unproc_listref = Sets!unproc_listref
      /\ \A l : MP!On(l) = Sets!On(l)
      /\ MP!Roots = Sets!Roots /\ MP!Live = Sets!Live /\ MP!Dying = Sets!Dying
      /\ MP!Held = Sets!Held
  BY DEF MP!OtherList, Sets!OtherList, MP!unproc_listref, Sets!unproc_listref, MP!On, Sets!On,
         MP!Roots, Sets!Roots, MP!Live, Sets!Live, MP!Dying, Sets!Dying, MP!Held, Sets!Held
<1>2. MP!Sweeping <=> Sets!Sweeping
  BY <1>1 DEF MP!Sweeping, Sets!Sweeping, MP!Collecting, Sets!Collecting
<1>3. \A rc, lost : MP!Released(rc, lost) = Sets!Released(rc, lost)
  BY DEF MP!Released, Sets!Released
<1>4. \A ow, rc, lost : MP!Unlinked(ow, rc, lost) = Sets!Unlinked(ow, rc, lost)
  BY DEF MP!Unlinked, Sets!Unlinked, MP!DropsToZero, Sets!DropsToZero
<1>5. \A ow, rc, lost : MP!AssertStaleLink(ow, rc, lost) <=> Sets!AssertStaleLink(ow, rc, lost)
  BY <1>4 DEF MP!AssertStaleLink, Sets!AssertStaleLink
<1>6. \A y : MP!Retained(y) = Sets!Retained(y) /\ MP!Shaded(y) = Sets!Shaded(y)
  BY <1>1 DEF MP!Retained, Sets!Retained, MP!Shaded, Sets!Shaded
<1>7. \A y : MP!AssertNewLink(y) <=> Sets!AssertNewLink(y)
  BY <1>1 DEF MP!AssertNewLink, Sets!AssertNewLink
<1>8. \A x : MP!AssertLinked(x) <=> Sets!AssertLinked(x)
  BY <1>1, SameGraph DEF MP!AssertLinked, Sets!AssertLinked
<1>9. MP!Usable = Sets!Usable
  BY <1>1, SameGraph DEF MP!Usable, Sets!Usable, MP!Accessible, Sets!Accessible
<1> QED
  BY <1>2, <1>3, <1>4, <1>5, <1>6, <1>7, <1>8, <1>9

LEMMA SameAssertions == MP!AssertionsHold <=> Sets!AssertionsHold
<1>1. /\ MP!unproc_listref = Sets!unproc_listref
      /\ \A l : MP!On(l) = Sets!On(l)
  BY DEF MP!OtherList, Sets!OtherList, MP!unproc_listref, Sets!unproc_listref, MP!On, Sets!On
<1>2. MP!UnreferencedIsNotLive <=> Sets!UnreferencedIsNotLive
  <2>1. \A x : MP!FreedNext(x) <=> Sets!FreedNext(x)
    BY <1>1, SameCalls DEF MP!FreedNext, Sets!FreedNext
  <2>2. \A x : [c \in Cell |-> MP!Cardinality(MP!LinksBetween(link, x, c))]
              = [c \in Cell |-> Sets!Cardinality(Sets!LinksBetween(link, x, c))]
    BY SameGraph
  <2> QED
    BY <2>1, <2>2, SameCalls DEF MP!UnreferencedIsNotLive, Sets!UnreferencedIsNotLive
<1> QED
  BY <1>1, <1>2, SameCalls DEF MP!AssertionsHold, Sets!AssertionsHold

LEMMA SameSteps == Sets!Next <=> MP!Next
<1>1. /\ MP!unproc_listref = Sets!unproc_listref
      /\ \A l : MP!On(l) = Sets!On(l)
      /\ MP!Roots = Sets!Roots /\ (MP!Collecting <=> Sets!Collecting)
      /\ MP!vars = Sets!vars
  BY DEF MP!OtherList, Sets!OtherList, MP!unproc_listref, Sets!unproc_listref, MP!On, Sets!On,
         MP!Roots, Sets!Roots, MP!Collecting, Sets!Collecting, MP!vars, Sets!vars
<1>2. \A c : MP!MemoryRequest(c) <=> Sets!MemoryRequest(c)
  BY <1>1, SameGraph DEF MP!MemoryRequest, Sets!MemoryRequest
<1>3. \A x, s, y : MP!PatchLink(x, s, y) <=> Sets!PatchLink(x, s, y)
  BY SameCalls DEF MP!PatchLink, Sets!PatchLink
<1>4. \A c : MP!GcLock(c) <=> Sets!GcLock(c)
  BY <1>1, SameCalls DEF MP!GcLock, Sets!GcLock
<1>5. \A c : MP!GcUnlock(c) <=> Sets!GcUnlock(c)
  BY <1>1, SameCalls DEF MP!GcUnlock, Sets!GcUnlock
<1>6. \A x : MP!FreeCell(x) <=> Sets!FreeCell(x)
  <2>1. \A x : [c \in Cell |-> MP!Cardinality(MP!LinksBetween(link, x, c))]
              = [c \in Cell |-> Sets!Cardinality(Sets!LinksBetween(link, x, c))]
    BY SameGraph
  <2> QED
    BY <2>1, SameCalls, SameGraph DEF MP!FreeCell, Sets!FreeCell
<1>7. \A x, l : MP!TraceCell(x, l) <=> Sets!TraceCell(x, l)
  BY <1>1, SameCalls, SameGraph DEF MP!TraceCell, Sets!TraceCell
<1>8. \A x : MP!IterateFreePending(x) <=> Sets!IterateFreePending(x)
  BY <1>1, <1>6 DEF MP!IterateFreePending, Sets!IterateFreePending
<1>9. \A x : MP!IterateBoundary(x) <=> Sets!IterateBoundary(x)
  BY <1>1, <1>7 DEF MP!IterateBoundary, Sets!IterateBoundary
<1>10. \A x : MP!IterateRoot(x) <=> Sets!IterateRoot(x)
  BY <1>1, <1>7 DEF MP!IterateRoot, Sets!IterateRoot
<1>11. \A x : MP!IterateUnproc(x) <=> Sets!IterateUnproc(x)
  BY <1>1, <1>6 DEF MP!IterateUnproc, Sets!IterateUnproc
<1>12. (MP!IterateReset <=> Sets!IterateReset) /\ (MP!IterateSkip <=> Sets!IterateSkip)
  BY <1>1 DEF MP!IterateReset, Sets!IterateReset, MP!IterateSkip, Sets!IterateSkip,
         MP!vars, Sets!vars
<1>13. MP!Iterate <=> Sets!Iterate
  BY <1>8, <1>9, <1>10, <1>11, <1>12 DEF MP!Iterate, Sets!Iterate
<1>14. MP!Client <=> Sets!Client
  BY <1>2, <1>3, <1>4, <1>5 DEF MP!Client, Sets!Client
<1> QED
  BY <1>13, <1>14 DEF MP!Next, Sets!Next

(* The bookkeeping of Memory, for what is seen of the lists.               *)
BooksInv == WorksInv /\ (phase = "running" => MP!Bookkeeping)

LEMMA InitBooks == Init => BooksInv
<1> SUFFICES ASSUME Init PROVE BooksInv
  OBVIOUS
<1>1. Sets!Init /\ WorksInv
  BY InitWorks
<1>2. MP!Init
  BY <1>1, SameInvariants
<1>3. MP!Bookkeeping
  BY <1>2, MP!BookkeepingInit, MemoryAssumptions
<1> QED
  BY <1>1, <1>3 DEF BooksInv

(* A step that does not end the program is one of Memory.                  *)
LEMMA NextOfSets ==
    ASSUME WorksInv, [Next]_vars, phase' = "running"
    PROVE  WorksInv' /\ phase = "running" /\ [MP!Next]_(MP!vars)
<1>1. WorksInv' /\ [phase' # "running" \/ Sets!Next]_(Sets!vars)
  BY NextWorks
<1>2. phase = "running"
  BY DEF Next, Client, MemoryRequest, OutOfMemory, PatchLink, GcLock, GcUnlock, Iterate, Becomes,
         StateReset, BecomeQuiet, Ended, vars
<1> QED
  BY <1>1, <1>2, SameSteps DEF Sets!vars, MP!vars

LEMMA NextBooks == ASSUME AssertReuse, BooksInv, [Next]_vars PROVE BooksInv'
<1>1. WorksInv'
  BY NextWorks DEF BooksInv
<1>2. CASE phase' = "running"
  <2>1. WorksInv /\ phase = "running" /\ [MP!Next]_(MP!vars)
    BY <1>2, NextOfSets DEF BooksInv
  <2>2. MP!TypeOK /\ MP!LockedAreRoots /\ MP!TriColour /\ MP!RefExact /\ MP!UnlinkedIsDying /\ MP!Bookkeeping
    BY <2>1 DEF BooksInv, MP!Bookkeeping
  <2>3. MP!TypeOK' /\ MP!LockedAreRoots' /\ MP!TriColour'
    BY <2>1, <2>2, MP!TypeStep, MP!LockStep, MP!TriStep, MemoryAssumptions
  <2>4. MP!RefExact'
    BY <2>1, <2>2, MP!RefStep, MemoryAssumptions
  <2>5. MP!UnlinkedIsDying' /\ MP!SweepInv'
    BY <2>1, <2>2, MP!UnlinkedStep, MP!SweepStep, MemoryAssumptions
  <2> QED
    BY <1>1, <2>3, <2>4, <2>5 DEF BooksInv, MP!Bookkeeping
<1> QED
  BY <1>1, <1>2 DEF BooksInv

(* With line 317 enabled the lists keep the books that Memory keeps: the   *)
(* counts are exact, locked memory is on the roots list, what has been     *)
(* processed links nothing that looks unreached, and nothing that is kept  *)
(* links to memory that was swept.                                         *)
BookkeepingOnLists == phase = "running" => Sets!Bookkeeping

THEOREM ListsKeepBooks == AssertReuse => (Spec => []BookkeepingOnLists)
<1> SUFFICES ASSUME AssertReuse PROVE Spec => []BookkeepingOnLists
  OBVIOUS
<1>1. BooksInv /\ [Next]_vars => BooksInv'
  BY NextBooks
<1>2. BooksInv => BookkeepingOnLists
  BY SameInvariants DEF BooksInv, BookkeepingOnLists
<1> QED
  BY InitBooks, <1>1, <1>2, PTL DEF Spec

(* What the client can get at is live and does not wait to be freed: the   *)
(* first cell of the free list, of free_pending, or of the list that is    *)
(* being swept is never memory that is still in use.                       *)
AccessibleIsLive ==
    phase = "running" =>
        \A c \in Reachable(link, Held) : c \in ms.live /\ OwnerOf(ms, c) # "free_pending"

LEMMA BooksAccessible == BooksInv => AccessibleIsLive
<1> SUFFICES ASSUME BooksInv, phase = "running",
                    NEW c \in Reachable(link, Held)
             PROVE  c \in ms.live /\ OwnerOf(ms, c) # "free_pending"
  BY DEF AccessibleIsLive
<1>1. Running(ms) /\ View(ms, seen) /\ MP!Bookkeeping
  BY DEF BooksInv, WorksInv, ListsInv
<1>2. MP!AccessibleIsAlive
  BY <1>1, MP!AccessibleReached, MemoryAssumptions
<1>3. Sets!Accessible \cap Sets!Dying = {}
  BY <1>2, SameInvariants DEF Sets!AccessibleIsAlive
<1>4. Sets!Accessible = Reachable(link, Held)
  <2>1. Sets!Held = Held
    BY <1>1, SetsSeen DEF Sets!Held, Held
  <2> QED
    BY <2>1 DEF Sets!Accessible, Sets!Reachable, Reachable, Sets!Closed, Closed, Sets!Link, Link
<1>5. c \in Cell
  BY DEF Reachable
<1>6. seen[c] \notin {"unallocated", "free", "free_pending"}
  BY <1>1, <1>3, <1>4, <1>5, SetsSeen
<1>7. {"free", "free_pending"} \subseteq AllLists \ {"roots"}
  BY DEF AllLists
<1>8. OwnerOf(ms, c) # "free_pending" /\ OwnerOf(ms, c) # "free" /\ OwnerOf(ms, c) # NULL
  BY <1>1, <1>5, <1>6, <1>7, PlacesSeen
<1> QED
  BY <1>1, <1>5, <1>8 DEF Running

THEOREM ListsKeepAccessible == AssertReuse => (Spec => []AccessibleIsLive)
<1> SUFFICES ASSUME AssertReuse PROVE Spec => []AccessibleIsLive
  OBVIOUS
<1>1. BooksInv /\ [Next]_vars => BooksInv'
  BY NextBooks
<1> QED
  BY InitBooks, <1>1, BooksAccessible, PTL DEF Spec

(* And the lists keep what ManagedHeap promises: no step of the program    *)
(* does more to the client's memory than what it asked for, or the freeing *)
(* of a cell it cannot get at, until the program ends.                     *)
Promise == INSTANCE ManagedHeap WITH used <- ms.live, held <- Held, locked <- ms.locked
KeepsPromise == Promise!Init /\ [][phase' # "running" \/ Promise!Next]_(Promise!vars)

HeldSeen == phase = "running" => MP!Live = ms.live /\ MP!Held = Held

LEMMA WorksHeld == WorksInv => HeldSeen
<1> SUFFICES ASSUME WorksInv, phase = "running" PROVE MP!Live = ms.live /\ MP!Held = Held
  BY DEF HeldSeen
<1>1. Running(ms) /\ View(ms, seen)
  BY DEF WorksInv, ListsInv
<1>2. MP!Live = Sets!Live /\ MP!Roots = Sets!Roots
  BY DEF MP!Live, Sets!Live, MP!Roots, Sets!Roots, MP!On, Sets!On
<1> QED
  BY <1>1, <1>2, SetsSeen DEF MP!Held, Held

LEMMA WorksHeldNext == WorksInv' => HeldSeen'
BY WorksHeld, PTL

LEMMA NextPromised ==
    ASSUME BooksInv, [Next]_vars
    PROVE  [phase' # "running" \/ Promise!Next]_(Promise!vars)
<1>1. CASE phase' = "running"
  <2>1. WorksInv /\ WorksInv' /\ phase = "running" /\ [MP!Next]_(MP!vars)
    BY <1>1, NextOfSets DEF BooksInv
  <2>2. MP!Bookkeeping
    BY <2>1 DEF BooksInv
  <2>3. [MP!Promise!Next]_(MP!Promise!vars)
    BY <2>1, <2>2, MP!PromiseStep, MemoryAssumptions
  <2>4. /\ MP!Live = ms.live /\ MP!Held = Held
        /\ MP!Live' = ms.live' /\ MP!Held' = Held'
    BY <1>1, <2>1, WorksHeld, WorksHeldNext DEF HeldSeen
  <2> USE DEF MP!Promise!Accessible, Promise!Accessible, MP!Promise!Reachable, Promise!Reachable,
              MP!Promise!Closed, Promise!Closed, MP!Promise!Link, Promise!Link
  <2>5. ASSUME NEW c \in Cell, MP!Promise!Allocate(c) PROVE Promise!Allocate(c)
    BY <2>4, <2>5 DEF MP!Promise!Allocate, Promise!Allocate
  <2>6. ASSUME NEW c \in Cell, MP!Promise!Lock(c) PROVE Promise!Lock(c)
    BY <2>4, <2>6 DEF MP!Promise!Lock, Promise!Lock
  <2>7. ASSUME NEW c \in Cell, MP!Promise!Unlock(c) PROVE Promise!Unlock(c)
    BY <2>4, <2>7 DEF MP!Promise!Unlock, Promise!Unlock
  <2>8. ASSUME NEW c \in Cell, MP!Promise!Reclaim(c) PROVE Promise!Reclaim(c)
    BY <2>4, <2>8 DEF MP!Promise!Reclaim, Promise!Reclaim
  <2>9. ASSUME NEW x \in Cell, NEW s \in Slot, NEW y \in Cell \cup {NULL}, MP!Promise!Patch(x, s, y)
        PROVE  Promise!Patch(x, s, y)
    BY <2>4, <2>9 DEF MP!Promise!Patch, Promise!Patch
  <2>10. MP!Promise!vars' = MP!Promise!vars => Promise!vars' = Promise!vars
    BY <2>4 DEF MP!Promise!vars, Promise!vars
  <2> QED
    BY <2>3, <2>5, <2>6, <2>7, <2>8, <2>9, <2>10 DEF MP!Promise!Next, Promise!Next
<1> QED
  BY <1>1

THEOREM ListsKeepPromise == AssertReuse => (Spec => KeepsPromise)
<1> SUFFICES ASSUME AssertReuse PROVE Spec => KeepsPromise
  OBVIOUS
<1>1. Init => Promise!Init
  <2> SUFFICES ASSUME Init PROVE Promise!Init
    OBVIOUS
  <2>1. ms.live = {} /\ ms.locked = {} /\ \A c \in Cell : OwnerOf(ms, c) # "roots"
    BY InitWorks, FirstLists, Names, NodesAssumption DEF Init, memory_state_init, OwnerOf, Node, AllLists
  <2> QED
    BY <2>1 DEF Init, Promise!Init, Promise!Link, Link, Held, RootCells
<1>2. BooksInv /\ [Next]_vars => BooksInv'
  BY NextBooks
<1>3. BooksInv /\ [Next]_vars => [phase' # "running" \/ Promise!Next]_(Promise!vars)
  BY NextPromised
<1> QED
  BY InitBooks, <1>1, <1>2, <1>3, PTL DEF Spec, KeepsPromise

-----------------------------------------------------------------------------
(* No assert fails.  A call leaves no fault when what its asserts say is   *)
(* so.                                                                     *)
LEMMA NewLinkHolds ==
    ASSUME NEW s \in Whole, s.fault = "none", NEW y \in Cell \cup {NULL},
           y # NULL => y \in s.live /\ OwnerOf(s, y) # "free_pending"
    PROVE  memory_gc_advise_new_link(s, y).fault = "none"
<1>1. CASE y = NULL
  BY <1>1 DEF memory_gc_advise_new_link
<1>2. CASE y # NULL
  <2> DEFINE u == [s EXCEPT !.refcount[y] = @ + 1]
  <2> DEFINE A == y \in s.live
  <2> DEFINE B == OwnerOf(s, y) # "free_pending"
  <2> DEFINE w == Check(Check(u, A, "memory.c:431"), B, "memory.c:432")
  <2>1. u \in Whole /\ u.dl = s.dl /\ u.fault = "none"
    BY <1>2 DEF Whole, States
  <2> HIDE DEF u
  <2>2. w = u /\ y \in Cell
    BY <1>2 DEF Check
  <2>3. CASE OwnerOf(s, y) # Unproc(s)
    <3>1. memory_gc_advise_new_link(s, y) = w
      BY <1>2, <2>3 DEF memory_gc_advise_new_link, u
    <3> QED
      BY <2>1, <2>2, <3>1
  <2>4. CASE OwnerOf(s, y) = Unproc(s)
    <3>1. memory_gc_advise_new_link(s, y) = InsertLast(Unlink(w, y), "boundary", y)
      BY <1>2, <2>4 DEF memory_gc_advise_new_link, memcell_to_boundary, u
    <3>2. OwnerOf(u, y) # NULL
      BY <2>1, <2>4, Names DEF OwnerOf, Unproc, OtherColor, AllLists, Colors
    <3> HIDE DEF w
    <3>3. Put(u, InsertLast(Unlink(u, y), "boundary", y), y, "boundary")
      BY <2>1, <2>2, <3>2, MoveLast DEF AllLists
    <3> QED
      BY <2>1, <2>2, <3>1, <3>3 DEF Put
  <2> QED
    BY <2>3, <2>4
<1> QED
  BY <1>1, <1>2

LEMMA StaleLinkHolds ==
    ASSUME NEW s \in Whole, s.fault = "none", NEW y \in Cell \cup {NULL},
           \A c \in s.live : OwnerOf(s, c) # NULL,
           y # NULL /\ s.refcount[y] = 0 => OwnerOf(s, y) = "free_pending" \/ y \notin s.live
    PROVE  memory_gc_advise_stale_link(s, y).fault = "none"
<1> DEFINE t == memory_gc_advise_stale_link(s, y)
<1>1. CASE y = NULL
  BY <1>1 DEF memory_gc_advise_stale_link
<1>2. CASE y # NULL
  <2> DEFINE u == [s EXCEPT !.clean_cycles = 0]
  <2> DEFINE v == [u EXCEPT !.refcount[y] = @ - 1]
  <2>1. y \in Cell /\ s.refcount \in [Cell -> Nat]
    BY <1>2 DEF Whole, States
  <2>2. u \in Whole /\ u.dl = s.dl /\ u.fault = "none" /\ u.refcount = s.refcount
    BY DEF Whole, States
  <2> HIDE DEF u
  <2>3. CASE s.refcount[y] = 0
    <3>1. t = Check(u, OwnerOf(s, y) = "free_pending" \/ y \notin s.live, "memory.c:465")
      BY <1>2, <2>3 DEF memory_gc_advise_stale_link, u
    <3>2. t = u
      BY <1>2, <2>3, <3>1 DEF Check
    <3> QED
      BY <2>2, <3>2
  <2>4. CASE s.refcount[y] # 0
    <3>1. s.refcount[y] - 1 \in Nat
      BY <2>1, <2>4
    <3>2. v = [u EXCEPT !.refcount = [u.refcount EXCEPT ![y] = s.refcount[y] - 1]]
      BY <2>2 DEF Whole, States
    <3>3. [u.refcount EXCEPT ![y] = s.refcount[y] - 1] \in [Cell -> Nat]
      BY <2>1, <2>2, <3>1
    <3>4. v \in Whole /\ v.dl = s.dl /\ v.fault = "none"
      BY <2>2, <3>2, <3>3 DEF Whole, States
    <3> DEFINE drops == v.refcount[y] = 0 /\ y \notin s.locked /\ y \in s.live
    <3>5. t = IF drops THEN InsertLast(Unlink(v, y), "free_pending", y) ELSE v
      BY <1>2, <2>4 DEF memory_gc_advise_stale_link, memcell_to_free_pending, u
    <3> HIDE DEF v, t
    <3>6. CASE ~drops
      BY <3>4, <3>5, <3>6 DEF t
    <3>7. CASE drops
      <4>1. OwnerOf(v, y) # NULL
        BY <3>4, <3>7 DEF OwnerOf
      <4>2. Put(v, InsertLast(Unlink(v, y), "free_pending", y), y, "free_pending")
        BY <2>1, <3>4, <4>1, MoveLast DEF AllLists
      <4> QED
        BY <3>4, <3>5, <3>7, <4>2 DEF Put, t
    <3> QED
      BY <3>6, <3>7
  <2> QED
    BY <2>3, <2>4
<1> QED
  BY <1>1, <1>2

LEMMA TraceHolds ==
    ASSUME NEW s \in Whole, s.fault = "none", NEW y \in Cell \cup {NULL},
           y # NULL => y \in s.live /\ OwnerOf(s, y) # "free_pending" /\ s.refcount[y] # 0
    PROVE  dl_cb_try_move_boundary(s, y).fault = "none"
<1>1. CASE y = NULL
  BY <1>1 DEF dl_cb_try_move_boundary
<1>2. CASE y # NULL
  <2> DEFINE A == y \in s.live
  <2> DEFINE B == OwnerOf(s, y) # "free_pending"
  <2> DEFINE C == s.refcount[y] # 0
  <2> DEFINE w == Check(Check(Check(s, A, "memory.c:519"), B, "memory.c:520"), C, "memory.c:522")
  <2>1. dl_cb_try_move_boundary(s, y) =
          IF TraceMoves(s, y) THEN InsertLast(Unlink(w, y), "boundary", y) ELSE w
    BY <1>2 DEF dl_cb_try_move_boundary, TraceMoves, memcell_to_boundary
  <2>2. w = s /\ y \in Cell
    BY <1>2 DEF Check
  <2> HIDE DEF w
  <2>3. CASE ~TraceMoves(s, y)
    BY <2>1, <2>2, <2>3
  <2>4. CASE TraceMoves(s, y)
    <3>1. OwnerOf(s, y) # NULL
      BY <2>4, Names DEF TraceMoves, Unproc, OtherColor, AllLists, Colors
    <3>2. Put(s, InsertLast(Unlink(s, y), "boundary", y), y, "boundary")
      BY <2>2, <3>1, MoveLast DEF AllLists
    <3> QED
      BY <2>1, <2>2, <2>4, <3>2 DEF Put
  <2> QED
    BY <2>3, <2>4
<1> QED
  BY <1>1, <1>2

(* More links are lost with every one that is looked at.                   *)
LEMMA LostGrows ==
    ASSUME NEW q, NEW n \in Nat, NEW i \in 0..n, NEW c \in Cell
    PROVE  Lost(q, i)[c] <= Lost(q, n)[c]
<1> DEFINE S == {j \in 1..i : q[j] = c}
<1> DEFINE T == {j \in 1..n : q[j] = c}
<1>1. IsFiniteSet(T)
  <2>1. IsFiniteSet(1..n)
    BY FS_Interval
  <2>2. T \in SUBSET (1..n)
    OBVIOUS
  <2> QED
    BY <2>1, <2>2, FS_Subset
<1>2. S \subseteq T
  OBVIOUS
<1>3. Lost(q, i)[c] = Cardinality(S) /\ Lost(q, n)[c] = Cardinality(T)
  BY DEF Lost
<1> HIDE DEF S, T
<1> QED
  BY <1>1, <1>2, <1>3, FS_Subset, FS_CardinalityType

(* The links of a cell that is freed: no cell in use loses more links than *)
(* are counted, unless it is on its way out in the end.                    *)
StaleLinksAllowed(s, q) ==
    \A c \in s.live : Lost(q, Len(q))[c] > s.refcount[c] =>
        OwnerOf(s, c) = "free_pending" \/ Drops(s, Lost(q, Len(q)), c)

LEMMA StaleLinksHold ==
    ASSUME NEW s, Running(s), NEW q \in Seq(Cell \cup {NULL}), NEW ow, View(s, ow),
           StaleLinksAllowed(s, q)
    PROVE  StaleAll(s, q).fault = "none"
<1> DEFINE n == Len(q)
<1> DEFINE sound == {x \in Whole : x.fault = "none"}
<1> DEFINE Z == [i \in 0..n |-> sound]
<1>1. PICK at : StaleRow(at, s, q) /\ \A i \in 0..n : AfterStaleLinks(s, q, i, at[i])
  BY StaleRowIs
<1>2. n \in Nat /\ \A i \in 1..n : q[i] \in Cell \cup {NULL}
  OBVIOUS
<1>3. at[0] \in Z[0]
  BY <1>1, <1>2 DEF StaleRow, Running
<1>4. ASSUME NEW i \in 1..n, at[i - 1] \in Z[i - 1] PROVE at[i] \in Z[i]
  <2> DEFINE x == at[i - 1]
  <2> DEFINE y == q[i]
  <2>1. i - 1 \in 0..n /\ i \in 0..n /\ n \in 0..n
    BY <1>2
  <2>2. x \in Whole /\ x.fault = "none" /\ AfterStaleLinks(s, q, i - 1, x) /\ y \in Cell \cup {NULL}
    BY <1>1, <1>2, <1>4, <2>1
  <2>3. at[i] = memory_gc_advise_stale_link(x, y) /\ at[i] \in Whole
    BY <1>1, <2>1 DEF StaleRow, AfterStaleLinks
  <2> HIDE DEF x, y, n, Z
  <2>4. Running(x) /\ View(x, Dropped(s, ow, Lost(q, i - 1)))
    BY <2>2 DEF AfterStaleLinks
  <2>5. \A c \in x.live : OwnerOf(x, c) # NULL
    BY <2>4 DEF Running
  <2>6. ASSUME y # NULL, x.refcount[y] = 0, y \in x.live PROVE OwnerOf(x, y) = "free_pending"
    <3>1. y \in Cell /\ x.live = s.live /\ x.refcount = Counted(s, Lost(q, i - 1))
      BY <2>2, <2>6 DEF AfterStaleLinks
    <3>2. /\ s.refcount \in [Cell -> Nat] /\ Lost(q, i - 1) \in [Cell -> Nat] /\ Lost(q, i) \in [Cell -> Nat]
          /\ Lost(q, n) \in [Cell -> Nat]
      BY <1>2, <2>1, LostType DEF Running, Whole, States
    <3>3. s.refcount[y] <= Lost(q, i - 1)[y]
      BY <2>6, <3>1, <3>2 DEF Counted
    <3>4. Lost(q, i)[y] = Lost(q, i - 1)[y] + 1
      BY <1>2, <3>1, LostNext DEF y
    <3>5. Lost(q, i)[y] <= Lost(q, n)[y]
      BY <1>2, <2>1, <3>1, LostGrows
    <3>6. Lost(q, n)[y] > s.refcount[y]
      BY <3>1, <3>2, <3>3, <3>4, <3>5
    <3>7. OwnerOf(s, y) = "free_pending" \/ Drops(s, Lost(q, n), y)
      BY <2>6, <3>1, <3>6 DEF StaleLinksAllowed, n
    <3>8. ow[y] = "free_pending" \/ Drops(s, Lost(q, i - 1), y)
      <4>1. CASE OwnerOf(s, y) = "free_pending"
        <5>1. ow[y] \in Places /\ ListOf(ow[y]) = "free_pending" /\ "free_pending" \in AllLists \ {"roots"}
          BY <3>1, <4>1 DEF View, AllLists
        <5> QED
          BY <5>1, OnePlace
      <4>2. CASE Drops(s, Lost(q, n), y)
        BY <3>3, <4>2 DEF Drops
      <4> QED
        BY <3>7, <4>1, <4>2
    <3>9. Dropped(s, ow, Lost(q, i - 1))[y] = "free_pending"
      BY <3>1, <3>8 DEF Dropped
    <3> QED
      BY <2>4, <3>1, <3>9 DEF View, ListOf
  <2>7. memory_gc_advise_stale_link(x, y).fault = "none"
    BY <2>2, <2>5, <2>6, StaleLinkHolds
  <2> QED
    BY <2>1, <2>3, <2>7 DEF Z
<1> HIDE DEF Z, n
<1>5. \A i \in 0..n : at[i] \in Z[i]
  BY <1>2, <1>3, <1>4, LastOfRow
<1>6. n \in 0..n
  BY <1>2
<1> QED
  BY <1>1, <1>5, <1>6 DEF StaleRow, Z, n

(* The links of a cell that is traced.                                     *)
TracesAllowed(s, q) ==
    \A c \in Met(q, Len(q)) \ {NULL} :
        c \in s.live /\ OwnerOf(s, c) # "free_pending" /\ s.refcount[c] # 0

LEMMA TracesHold ==
    ASSUME NEW s, Running(s), NEW q \in Seq(Cell \cup {NULL}), TracesAllowed(s, q)
    PROVE  TraceAll(s, q).fault = "none"
<1> DEFINE n == Len(q)
<1> DEFINE sound == {x \in Whole : x.fault = "none"}
<1> DEFINE Z == [i \in 0..n |-> sound]
<1>1. PICK at : TraceRow(at, s, q) /\ \A i \in 0..n : AfterTraces(s, q, i, at[i])
  BY TraceRowIs
<1>2. n \in Nat /\ \A i \in 1..n : q[i] \in Cell \cup {NULL}
  OBVIOUS
<1>3. at[0] \in Z[0]
  BY <1>1, <1>2 DEF TraceRow, Running
<1>4. ASSUME NEW i \in 1..n, at[i - 1] \in Z[i - 1] PROVE at[i] \in Z[i]
  <2> DEFINE x == at[i - 1]
  <2> DEFINE y == q[i]
  <2>1. i - 1 \in 0..n /\ i \in 0..n
    BY <1>2
  <2>2. x \in Whole /\ x.fault = "none" /\ AfterTraces(s, q, i - 1, x) /\ y \in Cell \cup {NULL}
    BY <1>1, <1>2, <1>4, <2>1
  <2>3. at[i] = dl_cb_try_move_boundary(x, y) /\ at[i] \in Whole
    BY <1>1, <2>1 DEF TraceRow, AfterTraces
  <2>4. y \in Met(q, Len(q))
    BY DEF Met
  <2> HIDE DEF x, y, n, Z
  <2>5. ASSUME y # NULL PROVE y \in x.live /\ OwnerOf(x, y) # "free_pending" /\ x.refcount[y] # 0
    <3>1. y \in Cell /\ y \in s.live /\ OwnerOf(s, y) # "free_pending" /\ s.refcount[y] # 0
      BY <2>2, <2>4, <2>5 DEF TracesAllowed
    <3>2. x.live = s.live /\ x.refcount = s.refcount
      BY <2>2 DEF AfterTraces, SameData
    <3>3. OwnerOf(x, y) \in {"boundary", OwnerOf(s, y)}
      BY <2>2, <3>1 DEF AfterTraces
    <3> QED
      BY <3>1, <3>2, <3>3
  <2>6. dl_cb_try_move_boundary(x, y).fault = "none"
    BY <2>2, <2>5, TraceHolds
  <2> QED
    BY <2>1, <2>3, <2>6 DEF Z
<1> HIDE DEF Z, n
<1>5. \A i \in 0..n : at[i] \in Z[i]
  BY <1>2, <1>3, <1>4, LastOfRow
<1>6. n \in 0..n
  BY <1>2
<1> QED
  BY <1>1, <1>5, <1>6 DEF TraceRow, Z, n

(* What Memory's invariants say of the first cell of a list.               *)
LEMMA BooksAssert ==
    ASSUME BooksInv, phase = "running"
    PROVE  Running(ms) /\ View(ms, seen) /\ link \in Heap /\ Sets!AssertionsHold
<1>1. MP!AssertionsHold
  BY MP!AssertionsFollow, MemoryAssumptions DEF BooksInv
<1> QED
  BY <1>1, SameAssertions DEF BooksInv, WorksInv, ListsInv

(* A cell that is freed next: the advice about its links is allowed.       *)
LEMMA FreedNextAllowed ==
    ASSUME Running(ms), View(ms, seen), link \in Heap, Sets!AssertionsHold,
           NEW x \in Cell, Sets!FreedNext(x)
    PROVE  StaleLinksAllowed(ms, links_cb(x))
<1> DEFINE q == links_cb(x)
<1> DEFINE lost == [c \in Cell |-> Sets!Cardinality(Sets!LinksBetween(link, x, c))]
<1>1. Sets!AssertStaleLink(seen, ms.refcount, lost)
  BY DEF Sets!AssertionsHold, Sets!UnreferencedIsNotLive
<1>2. \A c \in Cell : Lost(q, Len(q))[c] = lost[c]
  BY LinksAre, SameCount
<1> HIDE DEF q, lost
<1> SUFFICES ASSUME NEW c \in ms.live, Lost(q, Len(q))[c] > ms.refcount[c]
             PROVE  OwnerOf(ms, c) = "free_pending" \/ Drops(ms, Lost(q, Len(q)), c)
  BY DEF StaleLinksAllowed, q
<1>3. c \in Cell /\ OwnerOf(ms, c) # "free"
  BY DEF Running
<1>4. Sets!Unlinked(seen, ms.refcount, lost)[c] \in {"free_pending", "free"}
  BY <1>1, <1>2, <1>3 DEF Sets!AssertStaleLink
<1>5. \/ ms.refcount[c] # 0 /\ ms.refcount[c] <= lost[c] /\ c \notin ms.locked
      \/ seen[c] \in {"free_pending", "free"}
  BY <1>3, <1>4 DEF Sets!Unlinked, Sets!DropsToZero
<1>6. {"free_pending", "free"} \subseteq AllLists \ {"roots"}
  BY DEF AllLists
<1>7. seen[c] \in {"free_pending", "free"} => OwnerOf(ms, c) = "free_pending"
  BY <1>3, <1>6, PlacesSeen
<1> QED
  BY <1>2, <1>3, <1>5, <1>7 DEF Drops

(* A cell that is traced next: so are its links.                           *)
LEMMA TracedNextAllowed ==
    ASSUME Running(ms), View(ms, seen), link \in Heap, NEW x \in Cell, Sets!AssertLinked(x)
    PROVE  TracesAllowed(ms, links_cb(x))
<1> DEFINE q == links_cb(x)
<1>1. Met(q, Len(q)) \ {NULL} = Sets!Targets(link, x)
  BY LinksAre
<1>2. Sets!Targets(link, x) \subseteq Cell \cup {NULL}
  BY DEF Sets!Targets, Sets!LinksOf, Sets!Link, Heap, Link
<1> HIDE DEF q
<1> SUFFICES ASSUME NEW c \in Met(q, Len(q)) \ {NULL}
             PROVE  c \in ms.live /\ OwnerOf(ms, c) # "free_pending" /\ ms.refcount[c] # 0
  BY DEF TracesAllowed, q
<1>3. c \in Cell /\ c \notin Sets!Dying /\ ms.refcount[c] # 0
  BY <1>1, <1>2 DEF Sets!AssertLinked
<1>4. seen[c] \notin {"unallocated", "free", "free_pending"}
  BY <1>3, SetsSeen
<1>5. {"free_pending", "free"} \subseteq AllLists \ {"roots"}
  BY DEF AllLists
<1>6. OwnerOf(ms, c) # NULL /\ OwnerOf(ms, c) # "free" /\ OwnerOf(ms, c) # "free_pending"
  BY <1>3, <1>4, <1>5, PlacesSeen
<1> QED
  BY <1>3, <1>6 DEF Running

(* One iteration of the collector.                                         *)
LEMMA IterateHolds ==
    ASSUME Running(ms), View(ms, seen), link \in Heap, Sets!AssertionsHold, Collecting
    PROVE  memory_gc_iterate(ms).fault = "none"
<1> DEFINE t == memory_gc_iterate(ms)
<1>a. {"free_pending", "boundary"} \subseteq AllLists \ {"roots"}
  BY DEF AllLists
<1>b. Unproc(ms) \in AllLists \ {"roots"} /\ Sets!unproc_listref = Unproc(ms)
  BY SetsSeen DEF AllLists, Colors
<1>c. ms.live \subseteq Cell /\ Sets!Collecting
  BY DEF Running, Sets!Collecting, Collecting
<1>d. \A x \in Cell : links_cb(x) \in Seq(Cell \cup {NULL})
  BY LinksType
<1>e. \A x \in ms.live : Sets!FreedNext(x) => StaleAll(ms, links_cb(x)).fault = "none"
  BY <1>c, <1>d, FreedNextAllowed, StaleLinksHold
<1>f. \A x \in ms.live : Sets!AssertLinked(x) => TraceAll(ms, links_cb(x)).fault = "none"
  BY <1>c, <1>d, TracedNextAllowed, TracesHold
<1>1. CASE ~IsEmpty(ms, "free_pending") /\ t = IteratePending(ms)
  <2> DEFINE x == First(ms, "free_pending")
  <2>1. AfterPending(ms, x, t)
    BY <1>1, PendingIs
  <2> HIDE DEF x, t
  <2>2. x \in ms.live /\ OwnerOf(ms, x) = "free_pending"
    BY <2>1 DEF AfterPending
  <2>3. seen[x] = "free_pending"
    BY <1>a, <1>c, <2>2, PlacesSeen
  <2>4. x \notin ms.locked /\ ms.refcount[x] = 0 /\ Sets!FreedNext(x)
    BY <1>c, <2>2, <2>3 DEF Sets!AssertionsHold, Sets!On, Sets!FreedNext
  <2>5. t.fault = StaleAll(ms, links_cb(x)).fault
    BY <2>1, <2>4 DEF AfterPending, AfterFreeStep
  <2> QED
    BY <1>e, <2>2, <2>4, <2>5 DEF t
<1>2. CASE ~IsEmpty(ms, "boundary") /\ t = IterateBoundary(ms)
  <2> DEFINE x == First(ms, "boundary")
  <2>1. AfterBoundary(ms, x, t)
    BY <1>2, BoundaryIs
  <2> HIDE DEF x, t
  <2>2. x \in ms.live /\ OwnerOf(ms, x) = "boundary"
    BY <2>1 DEF AfterBoundary
  <2>3. seen[x] = "boundary"
    BY <1>a, <1>c, <2>2, PlacesSeen
  <2>4. x \notin ms.locked /\ ms.refcount[x] # 0 /\ Sets!AssertLinked(x)
    BY <1>c, <2>2, <2>3 DEF Sets!AssertionsHold, Sets!On
  <2>5. t.fault = TraceAll(ms, links_cb(x)).fault
    BY <2>1, <2>4 DEF AfterBoundary, AfterTraceStep
  <2> QED
    BY <1>f, <2>2, <2>4, <2>5 DEF t
<1>3. CASE First(ms, "roots") # Sentinel /\ t = IterateRoot(ms)
  <2> DEFINE x == First(ms, "roots")
  <2>1. AfterRoot(ms, x, t)
    BY <1>3, RootIs
  <2> HIDE DEF x, t
  <2>2. x \in ms.live /\ seen[x] = "roots_unproc"
    BY <2>1 DEF AfterRoot
  <2>3. Sets!AssertLinked(x)
    BY <1>c, <2>2 DEF Sets!AssertionsHold, Sets!On
  <2>4. t.fault = TraceAll(ms, links_cb(x)).fault
    BY <2>1 DEF AfterRoot, AfterTraceStep
  <2> QED
    BY <1>f, <2>2, <2>3, <2>4 DEF t
<1>4. CASE /\ IsEmpty(ms, "free_pending") /\ IsEmpty(ms, "boundary") /\ First(ms, "roots") = Sentinel
           /\ ~IsEmpty(ms, Unproc(ms)) /\ t = IterateUnproc(ms)
  <2> DEFINE x == First(ms, Unproc(ms))
  <2>1. AfterUnproc(ms, x, t)
    BY <1>4, UnprocIs
  <2> HIDE DEF x, t
  <2>2. x \in ms.live /\ OwnerOf(ms, x) = Unproc(ms)
    BY <2>1 DEF AfterUnproc
  <2>3. seen[x] = Sets!unproc_listref
    BY <1>b, <1>c, <2>2, PlacesSeen
  <2>4. Sets!Sweeping
    BY <1>a, <1>c, <1>4, EmptySeen DEF Sets!Sweeping, Sets!On
  <2>5. x \notin ms.locked /\ Sets!FreedNext(x)
    BY <1>c, <2>2, <2>3, <2>4 DEF Sets!AssertionsHold, Sets!On, Sets!FreedNext
  <2>6. t.fault = StaleAll(ms, links_cb(x)).fault
    BY <2>1, <2>5 DEF AfterUnproc, AfterFreeStep
  <2> QED
    BY <1>e, <2>2, <2>5, <2>6 DEF t
<1>5. CASE t = IterateReset(ms)
  <2>1. AfterReset(ms, t)
    BY <1>5, ResetIs DEF Collecting
  <2> QED
    BY <2>1 DEF AfterReset
<1> QED
  BY OneOfFive, <1>1, <1>2, <1>3, <1>4, <1>5

(* The client's calls.                                                     *)
LEMMA PatchHolds ==
    ASSUME Running(ms), View(ms, seen), link \in Heap, Sets!AssertionsHold,
           NEW x \in Usable, NEW slot \in Slot, NEW y \in Usable \cup {NULL}
    PROVE  Patched(ms, y, link[<<x, slot>>]).fault = "none"
<1> DEFINE z == link[<<x, slot>>]
<1> DEFINE t == memory_gc_advise_new_link(ms, y)
<1> DEFINE lost == [c \in Cell |-> IF c = z THEN 1 ELSE 0]
<1>1. x \in Cell /\ z \in Cell \cup {NULL} /\ y \in Cell \cup {NULL} /\ NULL \notin Cell
  BY UsableIsLive, CellAssumption DEF Heap, Link
<1>2. Sets!Usable = Usable /\ Sets!unproc_listref = Unproc(ms)
  BY SetsSeen
<1>3. Sets!AssertStaleLink(Sets!Shaded(y), Sets!Retained(y), lost)
  BY <1>2 DEF Sets!AssertionsHold
<1>4. {"free_pending", "free"} \subseteq AllLists \ {"roots"}
  BY DEF AllLists
<1>5. ASSUME y # NULL PROVE y \in ms.live /\ OwnerOf(ms, y) # "free_pending"
  <2>1. y \in Usable /\ y \in Cell /\ y \in ms.live
    BY <1>5, UsableIsLive
  <2>2. y \notin Sets!Dying
    BY <1>2, <1>5, <2>1 DEF Sets!AssertionsHold, Sets!AssertNewLink
  <2>3. seen[y] # "free_pending"
    BY <2>1, <2>2, SetsSeen
  <2> QED
    BY <1>4, <2>1, <2>3, PlacesSeen
<1>6. ms \in Whole /\ ms.fault = "none"
  BY DEF Running
<1> HIDE DEF z, lost
<1>7. t.fault = "none"
  BY <1>1, <1>5, <1>6, NewLinkHolds
<1>8. AfterNewLink(ms, y, t)
  BY <1>1, <1>6, NewLinkIs
<1> HIDE DEF t
<1>9. Running(t) /\ t \in Whole
  BY <1>1, <1>7, <1>8, NewLinkIsProper
<1>10. ASSUME z # NULL, t.refcount[z] = 0 PROVE OwnerOf(t, z) = "free_pending" \/ z \notin t.live
  <2>1. /\ z \in Cell /\ t.live = ms.live
        /\ t.refcount = IF y = NULL THEN ms.refcount ELSE [ms.refcount EXCEPT ![y] = @ + 1]
        /\ t.dl.owner = IF NewLinkMoves(ms, y) THEN [ms.dl.owner EXCEPT ![y] = "boundary"] ELSE ms.dl.owner
    BY <1>1, <1>7, <1>8, <1>10 DEF AfterNewLink
  <2>2. ms.refcount \in [Cell -> Nat]
    BY <1>6 DEF Whole, States
  <2>3. z # y /\ ms.refcount[z] = 0
    BY <1>1, <1>10, <2>1, <2>2
  <2>4. Sets!Retained(y)[z] = 0 /\ Sets!Shaded(y)[z] = seen[z] /\ lost[z] = 1
    BY <2>1, <2>3 DEF Sets!Retained, Sets!Shaded, lost
  <2>5. Sets!Unlinked(Sets!Shaded(y), Sets!Retained(y), lost)[z] \in {"free_pending", "free"}
    BY <1>3, <2>1, <2>4 DEF Sets!AssertStaleLink
  <2>6. seen[z] \in {"free_pending", "free"}
    BY <2>1, <2>4, <2>5 DEF Sets!Unlinked, Sets!DropsToZero
  <2>7. OwnerOf(ms, z) \in {"free_pending", "free"}
    BY <1>4, <2>1, <2>6, PlacesSeen
  <2>8. OwnerOf(t, z) = OwnerOf(ms, z)
    BY <1>6, <2>1, <2>3, OwnersOf DEF OwnerOf, Node
  <2> QED
    BY <2>1, <2>7, <2>8 DEF Running
<1>11. \A c \in t.live : OwnerOf(t, c) # NULL
  BY <1>9 DEF Running
<1>12. memory_gc_advise_stale_link(t, z).fault = "none"
  BY <1>1, <1>7, <1>9, <1>10, <1>11, StaleLinkHolds
<1> QED
  BY <1>12 DEF Patched, t, z

LEMMA RequestHolds ==
    ASSUME Running(ms), View(ms, seen), Sets!AssertionsHold, NEW blob \in BOOLEAN, MemoryRequest(blob)
    PROVE  ms'.fault \in {"none", "memory.c:317"}
<1>0. \A s \in Whole : \A c : WithFinalizer(s, c, blob).fault = s.fault
  BY DEF WithFinalizer, Whole, States
<1>1. CASE ~IsEmpty(ms, "free")
  <2> DEFINE c == First(ms, "free")
  <2> DEFINE t == Reused(ms)
  <2>1. /\ c \in Cell /\ OwnerOf(ms, c) = "free" /\ AfterRequest(ms, c, TRUE, t)
        /\ t.fault \in {"none", "memory.c:316", "memory.c:317"}
        /\ t.fault = "memory.c:316" => c \in ms.locked
    BY <1>1, ReusedIs
  <2>2. ms' = WithFinalizer(t, c, blob)
    BY <1>1 DEF MemoryRequest, Becomes
  <2> HIDE DEF c, t
  <2>3. seen[c] = "free"
    BY <2>1, PlacesSeen DEF AllLists
  <2>4. c \notin ms.locked
    BY <2>1, <2>3 DEF Sets!AssertionsHold, Sets!On
  <2>5. t \in Whole
    BY <2>1 DEF AfterRequest
  <2> QED
    BY <1>0, <2>1, <2>2, <2>4, <2>5
<1>2. CASE IsEmpty(ms, "free")
  <2>1. PICK c \in Cell : OwnerOf(ms, c) = NULL /\ ms' = WithFinalizer(Fresh(ms, c), c, blob)
    BY <1>2 DEF MemoryRequest, Becomes
  <2>2. Fresh(ms, c).fault = "none" /\ Fresh(ms, c) \in Whole
    BY <2>1, FreshIs DEF AfterRequest
  <2> QED
    BY <1>0, <2>1, <2>2
<1> QED
  BY <1>1, <1>2

(* With line 317 enabled, that assert is the only one that can end the     *)
(* program, through every sequence of calls: neither the other asserts of  *)
(* memory.c nor those of dlist.c ever fail.  But for it, only memory that  *)
(* runs out ends it.                                                       *)
OnlyReuseFails == ms.fault \in {"none", "memory.c:317", "memory.c:330"}

LEMMA NextHolds == ASSUME BooksInv, OnlyReuseFails, [Next]_vars PROVE OnlyReuseFails'
<1>1. CASE phase = "running" /\ Client
  <2>1. Running(ms) /\ View(ms, seen) /\ link \in Heap /\ Sets!AssertionsHold /\ ms \in Whole
    BY <1>1, BooksAssert DEF Running
  <2>2. ASSUME NEW blob \in BOOLEAN, MemoryRequest(blob) PROVE OnlyReuseFails'
    BY <2>1, <2>2, RequestHolds DEF OnlyReuseFails
  <2>3. CASE OutOfMemory
    BY <2>1, <2>3 DEF OutOfMemory, Becomes, OnlyReuseFails, Whole, States
  <2>4. ASSUME NEW x \in Cell, NEW slot \in Slot, NEW y \in Cell \cup {NULL}, PatchLink(x, slot, y)
        PROVE  OnlyReuseFails'
    <3>1. x \in Usable /\ y \in Usable \cup {NULL} /\ ms' = Patched(ms, y, link[<<x, slot>>])
      BY <2>4 DEF PatchLink, Becomes, Patched
    <3> QED
      BY <2>1, <3>1, PatchHolds DEF OnlyReuseFails
  <2>5. ASSUME NEW c \in Cell, GcLock(c) PROVE OnlyReuseFails'
    <3>1. ms' = memory_gc_lock(ms, c) /\ c \in ms.live
      BY <2>5, UsableIsLive DEF GcLock, Becomes
    <3>2. AfterLock(ms, c, memory_gc_lock(ms, c))
      BY <2>1, <3>1, LockIs
    <3>3. memory_gc_lock(ms, c).fault = "none"
      BY <3>2 DEF AfterLock
    <3> QED
      BY <3>1, <3>3 DEF OnlyReuseFails
  <2>6. ASSUME NEW c \in Cell, GcUnlock(c) PROVE OnlyReuseFails'
    <3>1. ms' = memory_gc_unlock(ms, c) /\ OwnerOf(ms, c) = "roots"
      BY <2>6 DEF GcUnlock, Becomes, RootCells
    <3>2. AfterUnlock(ms, c, memory_gc_unlock(ms, c))
      BY <2>1, <3>1, UnlockIs
    <3>3. memory_gc_unlock(ms, c).fault = "none"
      BY <3>2 DEF AfterUnlock
    <3> QED
      BY <3>1, <3>3 DEF OnlyReuseFails
  <2> QED
    BY <1>1, <2>2, <2>3, <2>4, <2>5, <2>6 DEF Client
<1>2. CASE phase = "running" /\ Iterate
  <2>1. Running(ms) /\ View(ms, seen) /\ link \in Heap /\ Sets!AssertionsHold
    BY <1>2, BooksAssert
  <2>2. ms' = IF Collecting THEN memory_gc_iterate(ms) ELSE ms
    BY <1>2 DEF Iterate, Becomes
  <2> QED
    BY <2>1, <2>2, IterateHolds DEF OnlyReuseFails
<1>3. CASE StateReset
  <2>1. Running(ms) /\ ms' = memory_state_reset(ms)
    BY <1>3 DEF StateReset, BooksInv, WorksInv, ListsInv
  <2> QED
    BY <2>1, ResetReturns DEF Returned, Returning, OnlyReuseFails
<1>4. CASE UNCHANGED ms
  BY <1>4 DEF OnlyReuseFails
<1> QED
  BY <1>1, <1>2, <1>3, <1>4
     DEF Next, Client, MemoryRequest, OutOfMemory, PatchLink, GcLock, GcUnlock, Becomes, Iterate,
         BecomeQuiet, Ended, vars

THEOREM ListsAssertionsHold == AssertReuse => (Spec => []OnlyReuseFails)
<1> SUFFICES ASSUME AssertReuse PROVE Spec => []OnlyReuseFails
  OBVIOUS
<1>1. Init => OnlyReuseFails
  BY InitRuns DEF Init, Running, OnlyReuseFails
<1>2. BooksInv /\ [Next]_vars => BooksInv'
  BY NextBooks
<1>3. BooksInv /\ OnlyReuseFails /\ [Next]_vars => OnlyReuseFails'
  BY NextHolds
<1> QED
  BY InitBooks, <1>1, <1>2, <1>3, PTL DEF Spec

-----------------------------------------------------------------------------
(* Progress, carried over from Memory.                                     *)
LEMMA SameWork ==
    /\ MP!Work = Sets!Work /\ MP!MostWork = Sets!MostWork
    /\ MP!Iterate <=> Sets!Iterate
<1>1. /\ MP!unproc_listref = Sets!unproc_listref
      /\ \A l : MP!On(l) = Sets!On(l)
      /\ MP!Live = Sets!Live
      /\ MP!Roots = Sets!Roots /\ (MP!Collecting <=> Sets!Collecting)
      /\ MP!vars = Sets!vars
  BY DEF MP!OtherList, Sets!OtherList, MP!unproc_listref, Sets!unproc_listref, MP!On, Sets!On,
         MP!Live, Sets!Live, MP!Roots, Sets!Roots, MP!Collecting, Sets!Collecting, MP!vars, Sets!vars
<1>2. MP!ToTrace = Sets!ToTrace /\ MP!Cycle = Sets!Cycle
  BY <1>1, SameGraph DEF MP!ToTrace, Sets!ToTrace, MP!Cycle, Sets!Cycle
<1>3. MP!Work = Sets!Work /\ MP!MostWork = Sets!MostWork
  BY <1>1, <1>2, SameGraph DEF MP!Work, Sets!Work, MP!MostWork, Sets!MostWork
<1>4. \A x : MP!FreeCell(x) <=> Sets!FreeCell(x)
  <2>1. \A x : [c \in Cell |-> MP!Cardinality(MP!LinksBetween(link, x, c))]
              = [c \in Cell |-> Sets!Cardinality(Sets!LinksBetween(link, x, c))]
    BY SameGraph
  <2> QED
    BY <2>1, SameCalls, SameGraph DEF MP!FreeCell, Sets!FreeCell
<1>5. \A x, l : MP!TraceCell(x, l) <=> Sets!TraceCell(x, l)
  BY <1>1, SameCalls, SameGraph DEF MP!TraceCell, Sets!TraceCell
<1>6. \A x : /\ MP!IterateFreePending(x) <=> Sets!IterateFreePending(x)
             /\ MP!IterateBoundary(x) <=> Sets!IterateBoundary(x)
  BY <1>1, <1>4, <1>5 DEF MP!IterateFreePending, Sets!IterateFreePending, MP!IterateBoundary, Sets!IterateBoundary
<1>7. \A x : /\ MP!IterateRoot(x) <=> Sets!IterateRoot(x)
             /\ MP!IterateUnproc(x) <=> Sets!IterateUnproc(x)
  BY <1>1, <1>4, <1>5 DEF MP!IterateRoot, Sets!IterateRoot, MP!IterateUnproc, Sets!IterateUnproc
<1>8. (MP!IterateReset <=> Sets!IterateReset) /\ (MP!IterateSkip <=> Sets!IterateSkip)
  BY <1>1 DEF MP!IterateReset, Sets!IterateReset, MP!IterateSkip, Sets!IterateSkip,
         MP!vars, Sets!vars
<1>9. MP!Iterate <=> Sets!Iterate
  BY <1>6, <1>7, <1>8 DEF MP!Iterate, Sets!Iterate
<1> QED
  BY <1>3, <1>9

(* What Memory shows of every state in both builds.                        *)
TypedInv == WorksInv /\ (phase = "running" => MP!TypeOK /\ MP!UnusedIsUncounted)

LEMMA InitTyped == Init => TypedInv
<1> SUFFICES ASSUME Init PROVE TypedInv
  OBVIOUS
<1>1. WorksInv /\ MP!Init
  BY InitWorks, SameInvariants
<1>2. MP!TypeOK
  BY <1>1, MP!TypeInit, MemoryAssumptions
<1>3. MP!UnusedIsUncounted
  BY <1>1 DEF MP!Init, MP!UnusedIsUncounted
<1> QED
  BY <1>1, <1>2, <1>3 DEF TypedInv

LEMMA NextTyped == ASSUME TypedInv, [Next]_vars PROVE TypedInv'
<1>1. WorksInv'
  BY NextWorks DEF TypedInv
<1>2. CASE phase' = "running"
  <2>1. WorksInv /\ phase = "running" /\ [MP!Next]_(MP!vars)
    BY <1>2, NextOfSets DEF TypedInv
  <2>2. MP!TypeOK /\ MP!UnusedIsUncounted
    BY <2>1 DEF TypedInv
  <2>3. MP!TypeOK' /\ MP!UnusedIsUncounted'
    BY <2>1, <2>2, MP!TypeStep, MP!UnusedStep, MemoryAssumptions
  <2> QED
    BY <1>1, <2>3 DEF TypedInv
<1> QED
  BY <1>1, <1>2 DEF TypedInv

(* Every call of memory_gc_iterate that does anything leaves less to do,   *)
(* as long as no assert ends the program (memory.c:552-685).               *)
IterationsAdvance == [][Iterate /\ phase' = "running" => Sets!Work' < Sets!Work]_vars

LEMMA IterationAdvances ==
    ASSUME TypedInv, TypedInv', Iterate, phase' = "running"
    PROVE  Sets!Work' < Sets!Work \/ UNCHANGED vars
<1>1. phase = "running" /\ UNCHANGED <<link, quiet>>
  BY DEF Iterate
<1>2. Running(ms) /\ View(ms, seen) /\ Untouched /\ link \in Heap
  BY <1>1 DEF TypedInv, WorksInv, ListsInv
<1>3. CASE ~Collecting
  <2>1. ms' = ms /\ seen' = OwnerSeen(ms)
    BY <1>3 DEF Iterate, Becomes
  <2>2. seen' = seen
    BY <1>2, <2>1, SeenIs DEF Running
  <2> QED
    BY <1>1, <2>1, <2>2 DEF vars
<1>4. CASE Collecting
  <2>1. Sets!Iterate
    BY <1>2, SetsIterate
  <2>2. MP!Iterate /\ MP!TypeOK /\ MP!TypeOK' /\ MP!UnusedIsUncounted
    BY <1>1, <2>1, SameWork DEF TypedInv
  <2>a. MP!Collecting
    BY <1>4 DEF MP!Collecting, Collecting
  <2>3. MP!Work' < MP!Work
    BY <2>2, <2>a, MP!IterateAdvances, MemoryAssumptions
  <2>4. (MP!Work = Sets!Work)'
    BY SameWork, PTL
  <2> QED
    BY <1>1, <2>3, <2>4, SameWork
<1> QED
  BY <1>3, <1>4

(* memory.c's lists make the progress that the sets of Memory do: while no *)
(* assert ends the program, every memory_gc_iterate that does anything     *)
(* leaves strictly less work, and the work is bounded by the heap's size.  *)
THEOREM ListsCollectorAdvances ==
    Spec => [](phase = "running" => Sets!Work \in 0..Sets!MostWork) /\ IterationsAdvance
<1>1. TypedInv => (phase = "running" => Sets!Work \in 0..Sets!MostWork)
  <2> SUFFICES ASSUME TypedInv, phase = "running"
               PROVE  Sets!Work \in 0..Sets!MostWork
    OBVIOUS
  <2>1. MP!Work \in 0..MP!MostWork
    BY MP!WorkFits, MemoryAssumptions DEF TypedInv
  <2> QED
    BY <2>1, SameWork
<1>2. TypedInv /\ TypedInv' /\ [Next]_vars
         => [Iterate /\ phase' = "running" => Sets!Work' < Sets!Work]_vars
  BY IterationAdvances
<1> QED
  BY <1>1, <1>2, InitTyped, NextTyped, PTL DEF Spec, IterationsAdvance

=============================================================================
