--------------------------- MODULE Memory_proofs ---------------------------
(***************************************************************************)
(* The safety of the memory manager, for every number of cells and slots.  *)
(***************************************************************************)
EXTENDS Memory, HeapGraph_proofs

(* Every step keeps the types.                                             *)
LEMMA TypeStep == TypeOK /\ [Next]_vars => TypeOK'
<1> SUFFICES ASSUME TypeOK, [Next]_vars PROVE TypeOK'
  OBVIOUS
<1> USE CellAssumption
<1>1. ASSUME NEW c \in Cell, MemoryRequest(c) PROVE TypeOK'
  <2>1. link' \in Heap
    BY <1>1 DEF TypeOK, MemoryRequest, Heap
  <2> QED
    BY <1>1, <2>1 DEF TypeOK, MemoryRequest, Lists
<1>2. ASSUME NEW x \in Cell, NEW s \in Slot, NEW y \in Cell \cup {NULL}, PatchLink(x, s, y)
      PROVE  TypeOK'
  <2>1. link' \in Heap
    BY <1>2 DEF TypeOK, PatchLink, Heap, Link
  <2>2. refcount' \in [Cell -> Nat]
    BY <1>2 DEF TypeOK, PatchLink, Retained, Released
  <2>3. owner' \in [Cell -> Lists]
    BY <1>2 DEF TypeOK, PatchLink, Shaded, Unlinked, Lists
  <2> QED
    BY <1>2, <2>1, <2>2, <2>3 DEF TypeOK, PatchLink
<1>3. ASSUME NEW c \in Cell, GcLock(c) PROVE TypeOK'
  BY <1>3 DEF TypeOK, GcLock, Lists
<1>4. ASSUME NEW c \in Cell, GcUnlock(c) PROVE TypeOK'
  BY <1>4 DEF TypeOK, GcUnlock, Lists
<1>5. ASSUME NEW x \in Cell, FreeCell(x) PROVE TypeOK'
  <2> DEFINE lost == [c \in Cell |-> Cardinality(LinksBetween(link, x, c))]
  <2>1. lost \in [Cell -> Nat]
    BY CountIsNat DEF LinksBetween
  <2>2. refcount' = Released(refcount, lost) /\ owner' = [Unlinked(owner, refcount, lost) EXCEPT ![x] = "free"]
    BY <1>5 DEF FreeCell
  <2> HIDE DEF lost
  <2>3. refcount' \in [Cell -> Nat]
    BY <2>1, <2>2 DEF TypeOK, Released
  <2>4. owner' \in [Cell -> Lists]
    BY <2>2 DEF TypeOK, Unlinked, Lists
  <2> QED
    BY <1>5, <2>3, <2>4 DEF TypeOK, FreeCell
<1>6. ASSUME NEW x \in Cell, IterateFreePending(x) \/ IterateUnproc(x) PROVE TypeOK'
  BY <1>5, <1>6 DEF IterateFreePending, IterateUnproc
<1>7. ASSUME NEW x \in Cell, IterateBoundary(x) \/ IterateRoot(x) PROVE TypeOK'
  BY <1>7 DEF TypeOK, IterateBoundary, IterateRoot, TraceCell, Lists
<1>8. CASE IterateReset
  BY <1>8 DEF TypeOK, IterateReset, Collecting, Lists, unproc_listref, OtherList
<1>9. CASE UNCHANGED vars
  BY <1>9 DEF TypeOK, vars
<1> QED
  BY <1>1, <1>2, <1>3, <1>4, <1>6, <1>7, <1>8, <1>9 DEF Next, Client, Iterate, IterateSkip

LEMMA TypeInit == Init => TypeOK
BY DEF Init, TypeOK, Lists, Heap

(* Type correctness of the memory manager, with line 317 as it is or not.  *)
THEOREM TypeCorrect == Spec => []TypeOK
BY TypeInit, TypeStep, PTL DEF Spec

-----------------------------------------------------------------------------
(* The steps of the collector that free, and those that trace.             *)

(* Freeing moves nothing but the freed cell and cells it linked, the       *)
(* latter to free_pending and only when nobody locked them.                *)
LEMMA FreeCellMoves ==
    ASSUME TypeOK, NEW x \in Cell, FreeCell(x)
    PROVE  /\ owner'[x] = "free"
           /\ \A c \in Cell \ {x} :
                \/ owner'[c] = owner[c]
                \/ /\ owner'[c] = "free_pending"
                   /\ c \notin locked
                   /\ owner[c] # "free"
                   /\ refcount[c] # 0
                   /\ refcount'[c] = 0
           /\ \A c \in Cell : refcount[c] = 0 => refcount'[c] = 0
           /\ UNCHANGED <<reachable_listref, locked, link>>
<1> DEFINE lost == [c \in Cell |-> Cardinality(LinksBetween(link, x, c))]
<1>1. lost \in [Cell -> Nat]
  BY CountIsNat DEF LinksBetween
<1>2. /\ refcount' = Released(refcount, lost)
      /\ owner' = [Unlinked(owner, refcount, lost) EXCEPT ![x] = "free"]
      /\ UNCHANGED <<reachable_listref, locked, link>>
  BY DEF FreeCell
<1> HIDE DEF lost
<1> QED
  BY <1>1, <1>2 DEF TypeOK, Released, Unlinked, DropsToZero

(* A new link and a stale one move the new target out of the unprocessed   *)
(* list and the old one to free_pending, and nothing else.                 *)
LEMMA PatchOwner ==
    ASSUME TypeOK, NEW x \in Cell, NEW s \in Slot, NEW y \in Cell \cup {NULL},
           PatchLink(x, s, y), NEW c \in Cell
    PROVE  \/ owner'[c] = owner[c] /\ (c = y => owner[c] # unproc_listref)
           \/ c = y /\ owner[c] = unproc_listref /\ owner'[c] = "boundary"
           \/ /\ c = link[<<x, s>>]
              /\ owner'[c] = "free_pending"
              /\ c \notin locked
              /\ owner[c] # "free"
              /\ c # y => refcount[c] # 0
              /\ refcount'[c] = 0
<1> DEFINE lost == [d \in Cell |-> IF d = link[<<x, s>>] THEN 1 ELSE 0]
<1>1. refcount' = Released(Retained(y), lost) /\ owner' = Unlinked(Shaded(y), Retained(y), lost)
  BY DEF PatchLink
<1>2. refcount[c] \in Nat
  BY DEF TypeOK
<1>3. Retained(y)[c] = (IF c = y THEN refcount[c] + 1 ELSE refcount[c])
  BY DEF Retained
<1>4. refcount'[c] = (IF Retained(y)[c] > lost[c] THEN Retained(y)[c] - lost[c] ELSE 0)
  BY <1>1 DEF Released
<1>5. owner'[c] = (IF Retained(y)[c] # 0 /\ Retained(y)[c] <= lost[c]
                      /\ c \notin locked /\ Shaded(y)[c] # "free"
                   THEN "free_pending" ELSE Shaded(y)[c])
  BY <1>1 DEF Unlinked, DropsToZero
<1>6. Shaded(y)[c] = (IF c = y /\ owner[c] = unproc_listref THEN "boundary" ELSE owner[c])
  BY DEF Shaded
<1>7. owner[c] = unproc_listref => owner[c] # "free"
  BY DEF unproc_listref, OtherList
<1> QED
  BY <1>2, <1>3, <1>4, <1>5, <1>6, <1>7

LEMMA PatchRest ==
    ASSUME TypeOK, NEW x \in Cell, NEW s \in Slot, NEW y \in Cell \cup {NULL},
           PatchLink(x, s, y)
    PROVE  /\ link' = [link EXCEPT ![<<x, s>>] = y]
           /\ y \notin Dying /\ x \in Live
           /\ UNCHANGED <<reachable_listref, locked>>
BY CellAssumption DEF PatchLink, AssertNewLink, Usable, Live, Dying, On

(* Only freeing takes memory out of use.                                   *)
LEMMA FreeCellLive ==
    ASSUME TypeOK, UnlinkedIsDying, NEW x \in Cell, FreeCell(x)
    PROVE  Live' = Live \ {x}
<1>1. ASSUME NEW c \in Cell PROVE c \in Live' <=> c \in Live \ {x}
  <2>1. CASE c = x
    <3>1. owner'[x] = "free"
      BY FreeCellMoves
    <3> QED
      BY <2>1, <3>1 DEF Live, On
  <2>2. CASE c # x
    <3>1. \/ owner'[c] = owner[c]
          \/ owner'[c] = "free_pending" /\ owner[c] # "free" /\ refcount[c] # 0
      BY <2>2, FreeCellMoves
    <3> QED
      BY <2>2, <3>1 DEF UnlinkedIsDying, Live, On
  <2> QED
    BY <2>1, <2>2
<1> QED
  BY <1>1 DEF Live

LEMMA PatchLive ==
    ASSUME TypeOK, UnlinkedIsDying, NEW x \in Cell, NEW s \in Slot, NEW y \in Cell \cup {NULL},
           PatchLink(x, s, y)
    PROVE  Live' = Live
<1>1. ASSUME NEW c \in Cell PROVE c \in Live' <=> c \in Live
  <2>1. \/ owner'[c] = owner[c]
        \/ c = y /\ owner'[c] = "boundary"
        \/ /\ c = link[<<x, s>>] /\ owner'[c] = "free_pending" /\ owner[c] # "free"
           /\ c # y => refcount[c] # 0
    BY PatchOwner
  <2>2. y \notin Dying
    BY PatchRest
  <2> QED
    BY <2>1, <2>2 DEF UnlinkedIsDying, Live, On, Dying
<1> QED
  BY <1>1 DEF Live

-----------------------------------------------------------------------------
(* Locked memory stays on the roots list.                                  *)
LEMMA LockStep == TypeOK /\ LockedAreRoots /\ [Next]_vars => LockedAreRoots'
<1> SUFFICES ASSUME TypeOK, LockedAreRoots, [Next]_vars PROVE LockedAreRoots'
  OBVIOUS
<1> USE DEF LockedAreRoots, Roots, On
<1>1. ASSUME NEW c \in Cell, MemoryRequest(c) PROVE LockedAreRoots'
  BY <1>1 DEF TypeOK, MemoryRequest
<1>2. ASSUME NEW x \in Cell, NEW s \in Slot, NEW y \in Cell \cup {NULL}, PatchLink(x, s, y)
      PROVE  LockedAreRoots'
  <2>1. UNCHANGED locked
    BY <1>2, PatchRest
  <2>2. ASSUME NEW c \in locked PROVE owner'[c] \in {"roots_unproc", "roots_proc"}
    <3>1. c \in Cell /\ owner[c] \in {"roots_unproc", "roots_proc"}
      BY DEF TypeOK
    <3>2. \/ owner'[c] = owner[c]
          \/ owner[c] = unproc_listref
      BY <1>2, <3>1, PatchOwner
    <3> QED
      BY <3>1, <3>2 DEF unproc_listref, OtherList
  <2> QED
    BY <2>1, <2>2 DEF TypeOK
<1>3. ASSUME NEW c \in Cell, GcLock(c) \/ GcUnlock(c) PROVE LockedAreRoots'
  BY <1>3 DEF TypeOK, GcLock, GcUnlock
<1>4. ASSUME NEW x \in Cell, IterateFreePending(x) \/ IterateUnproc(x) PROVE LockedAreRoots'
  BY <1>4, FreeCellMoves DEF TypeOK, IterateFreePending, IterateUnproc
<1>5. ASSUME NEW x \in Cell, IterateBoundary(x) \/ IterateRoot(x) PROVE LockedAreRoots'
  BY <1>5 DEF TypeOK, IterateBoundary, IterateRoot, TraceCell, unproc_listref, OtherList
<1>6. CASE IterateReset
  BY <1>6 DEF TypeOK, IterateReset
<1>7. CASE UNCHANGED vars
  BY <1>7 DEF vars
<1> QED
  BY <1>1, <1>2, <1>3, <1>4, <1>5, <1>6, <1>7 DEF Next, Client, Iterate, IterateSkip

(* What is processed keeps linking only to what has been reached.          *)
LEMMA TriStep == TypeOK /\ TriColour /\ [Next]_vars => TriColour'
<1> SUFFICES ASSUME TypeOK, TriColour, [Next]_vars PROVE TriColour'
  OBVIOUS
<1> USE CellAssumption
<1> USE DEF TriColour, Processed, On
<1>a. \A e \in Link : e[1] \in Cell /\ link[e] \in Cell \cup {NULL}
  BY DEF TypeOK, Heap, Link
<1>b. unproc_listref # reachable_listref /\ unproc_listref \in {"white", "black"}
  BY DEF TypeOK, unproc_listref, OtherList
<1>1. ASSUME NEW c \in Cell, MemoryRequest(c) PROVE TriColour'
  BY <1>1, <1>a, <1>b DEF TypeOK, MemoryRequest, unproc_listref, OtherList
<1>2. ASSUME NEW x \in Cell, NEW s \in Slot, NEW y \in Cell \cup {NULL}, PatchLink(x, s, y)
      PROVE  TriColour'
  <2>1. UNCHANGED reachable_listref /\ UNCHANGED unproc_listref
    BY <1>2, PatchRest DEF unproc_listref
  <2>a. \A e \in Link : link'[e] = IF e = <<x, s>> THEN y ELSE link[e]
    <3>1. link' = [link EXCEPT ![<<x, s>>] = y]
      BY <1>2, PatchRest
    <3> QED
      BY <3>1 DEF TypeOK, Heap
  <2>2. ASSUME NEW e \in Link, owner'[e[1]] \in {"roots_proc", reachable_listref}, link'[e] # NULL
        PROVE  owner'[link'[e]] # unproc_listref
    <3>1. owner[e[1]] \in {"roots_proc", reachable_listref}
      <4>1. owner'[e[1]] \in {owner[e[1]], "boundary", "free_pending"}
        BY <1>2, <1>a, PatchOwner
      <4> QED
        BY <2>2, <4>1 DEF TypeOK
    <3>2. CASE e = <<x, s>>
      BY <1>2, <1>b, <2>a, <2>2, <3>2, PatchOwner
    <3>3. CASE e # <<x, s>>
      <4>1. link'[e] = link[e] /\ link[e] \in Cell
        BY <1>a, <2>a, <2>2, <3>3
      <4>2. owner[link[e]] # unproc_listref
        BY <1>a, <2>2, <3>1, <4>1
      <4>3. owner'[link[e]] \in {owner[link[e]], "boundary", "free_pending"}
        BY <1>2, <4>1, PatchOwner
      <4> QED
        BY <1>b, <4>1, <4>2, <4>3
    <3> QED
      BY <3>2, <3>3
  <2> QED
    BY <2>1, <2>2, <1>a
<1>3. ASSUME NEW c \in Cell, GcLock(c) \/ GcUnlock(c) PROVE TriColour'
  BY <1>3, <1>a, <1>b DEF TypeOK, GcLock, GcUnlock, Roots, unproc_listref, OtherList
<1>4. ASSUME NEW x \in Cell, IterateFreePending(x) \/ IterateUnproc(x) PROVE TriColour'
  BY <1>4, <1>a, <1>b, FreeCellMoves
     DEF TypeOK, IterateFreePending, IterateUnproc, unproc_listref, OtherList
<1>5. ASSUME NEW x \in Cell, IterateBoundary(x) \/ IterateRoot(x) PROVE TriColour'
  BY <1>5, <1>a, <1>b
     DEF TypeOK, IterateBoundary, IterateRoot, TraceCell, Targets, LinksOf, unproc_listref, OtherList
<1>6. CASE IterateReset
  BY <1>6, <1>a, <1>b DEF TypeOK, IterateReset, unproc_listref, OtherList
<1>7. CASE UNCHANGED vars
  BY <1>7 DEF vars, unproc_listref, OtherList
<1> QED
  BY <1>1, <1>2, <1>3, <1>4, <1>5, <1>6, <1>7 DEF Next, Client, Iterate, IterateSkip

-----------------------------------------------------------------------------
(* The counts.  Only this step and the next need the assertion of line     *)
(* 317: a cell that is reused while swept memory still links to it would   *)
(* start with a count that is too low.                                     *)

(* Live memory that holds a link gives its target a count.                 *)
LEMMA LinkedIsCounted ==
    ASSUME TypeOK, RefExact, NEW e \in Link, owner[e[1]] \notin {"unallocated", "free"},
           link[e] # NULL
    PROVE  e[1] \in Cell /\ link[e] \in Cell /\ refcount[link[e]] # 0
<1>1. e[1] \in Cell /\ link[e] \in Cell
  BY DEF TypeOK, Heap, Link
<1>2. e[1] \in Live
  BY <1>1 DEF Live, On
<1>3. Cardinality(LinksTo(link, Live, link[e])) # 0
  BY <1>2, CountPositive
<1> QED
  BY <1>1, <1>3 DEF RefExact

LEMMA RefStep ==
    ASSUME AssertReuse, TypeOK, RefExact, UnlinkedIsDying, [Next]_vars
    PROVE  RefExact'
<1> USE CellAssumption
<1>a. \A e \in Link : e[1] \in Cell /\ link[e] \in Cell \cup {NULL}
  BY DEF TypeOK, Heap, Link
<1>b. \A c \in Cell : Cardinality(LinksTo(link, Live, c)) \in Nat /\ refcount[c] = Cardinality(LinksTo(link, Live, c))
  BY CountIsNat DEF RefExact
<1>1. ASSUME NEW c \in Cell, MemoryRequest(c) PROVE RefExact'
  <2>1. refcount[c] = 0
    BY <1>1 DEF MemoryRequest, UnlinkedIsDying
  <2>2. owner[c] \in {"unallocated", "free"} /\ owner' = [owner EXCEPT ![c] = "roots_unproc"]
    BY <1>1 DEF MemoryRequest
  <2>3. Live' = Live \cup {c} /\ c \notin Live
    BY <2>2 DEF TypeOK, Live, On
  <2>4. \A e \in Link : link'[e] = IF e[1] = c THEN NULL ELSE link[e]
    BY <1>1 DEF MemoryRequest
  <2>5. ASSUME NEW d \in Cell PROVE LinksTo(link', Live', d) = LinksTo(link, Live, d)
    BY <2>3, <2>4 DEF LinksTo
  <2>6. refcount' = refcount
    BY <1>1, <2>1 DEF TypeOK, MemoryRequest
  <2> QED
    BY <2>5, <2>6 DEF RefExact
<1>2. ASSUME NEW x \in Cell, NEW s \in Slot, NEW y \in Cell \cup {NULL}, PatchLink(x, s, y)
      PROVE  RefExact'
  <2> DEFINE f == <<x, s>>
             old == link[f]
             lost == [c \in Cell |-> IF c = old THEN 1 ELSE 0]
  <2>1. f \in Link /\ f[1] \in Live /\ link \in Heap
    BY <1>2, PatchRest DEF Link, TypeOK
  <2>2. link' = [link EXCEPT ![f] = y]
    BY <1>2, PatchRest
  <2>3. Live' = Live
    BY <1>2, PatchLive
  <2>4. ASSUME NEW c \in Cell
        PROVE  refcount'[c] = IF Retained(y)[c] > lost[c] THEN Retained(y)[c] - lost[c] ELSE 0
    BY <1>2 DEF PatchLink, Released
  <2>5. ASSUME NEW c \in Cell
        PROVE  Retained(y)[c] = IF c = y THEN refcount[c] + 1 ELSE refcount[c]
    BY DEF Retained
  <2>6. CASE y = old
    <3>1. link' = link
      BY <2>1, <2>2, <2>6 DEF Heap
    <3>2. ASSUME NEW c \in Cell PROVE refcount'[c] = refcount[c]
      BY <1>b, <2>4, <2>5, <2>6
    <3> QED
      BY <1>b, <2>3, <3>1, <3>2 DEF RefExact
  <2>7. CASE y # old
    <3>1. ASSUME NEW c \in Cell
          PROVE  Cardinality(LinksTo(link', Live, c)) =
                   IF c = y THEN refcount[c] + 1
                   ELSE IF c = old THEN refcount[c] - 1 ELSE refcount[c]
      <4>1. Cardinality(LinksTo([link EXCEPT ![f] = y], Live, c)) =
               IF c = y THEN Cardinality(LinksTo(link, Live, c)) + 1
               ELSE IF c = link[f] THEN Cardinality(LinksTo(link, Live, c)) - 1
               ELSE Cardinality(LinksTo(link, Live, c))
        BY <2>1, <2>7, CountPatch
      <4> QED
        BY <1>b, <2>2, <4>1
    <3>2. old \in Cell => refcount[old] # 0
      BY <2>1, <1>b, CountPositive
    <3>3. ASSUME NEW c \in Cell PROVE refcount'[c] = Cardinality(LinksTo(link', Live, c))
      BY <1>b, <2>4, <2>5, <2>7, <3>1, <3>2
    <3> QED
      BY <2>3, <3>3 DEF RefExact
  <2> QED
    BY <2>6, <2>7
<1>3. ASSUME NEW x \in Cell, x \in Live, FreeCell(x) PROVE RefExact'
  <2> DEFINE lost == [c \in Cell |-> Cardinality(LinksBetween(link, x, c))]
  <2>1. Live' = Live \ {x} /\ link' = link
    BY <1>3, FreeCellLive, FreeCellMoves
  <2>2. ASSUME NEW c \in Cell
        PROVE  refcount'[c] = IF refcount[c] > lost[c] THEN refcount[c] - lost[c] ELSE 0
    BY <1>3 DEF FreeCell, Released
  <2>3. ASSUME NEW c \in Cell
        PROVE  /\ lost[c] = Cardinality(LinksBetween(link, x, c)) /\ lost[c] \in Nat
               /\ Cardinality(LinksTo(link, Live \ {x}, c)) = refcount[c] - lost[c]
               /\ lost[c] <= refcount[c]
    BY <1>3, <1>b, CountWithout, CountIsNat DEF LinksBetween
  <2> HIDE DEF lost
  <2>4. ASSUME NEW c \in Cell PROVE refcount'[c] = Cardinality(LinksTo(link, Live \ {x}, c))
    <3>1. refcount[c] \in Nat
      BY DEF TypeOK
    <3> QED
      BY <2>2, <2>3, <3>1
  <2> QED
    BY <2>1, <2>4 DEF RefExact
<1>4. ASSUME NEW x \in Cell, IterateFreePending(x) \/ IterateUnproc(x) PROVE RefExact'
  <2>1. x \in Live
    BY <1>4 DEF IterateFreePending, IterateUnproc, Live, On, unproc_listref, OtherList
  <2> QED
    BY <1>3, <1>4, <2>1 DEF IterateFreePending, IterateUnproc
<1>5. ASSUME UNCHANGED <<refcount, link>>, Live' = Live PROVE RefExact'
  BY <1>5 DEF RefExact
<1>6. ASSUME NEW c \in Cell, GcLock(c) \/ GcUnlock(c) PROVE RefExact'
  BY <1>5, <1>6 DEF TypeOK, GcLock, GcUnlock, Usable, Live, On
<1>7. ASSUME NEW x \in Cell, IterateBoundary(x) \/ IterateRoot(x) PROVE RefExact'
  <2>1. ASSUME NEW c \in Cell PROVE c \in Live <=> c \in Live'
    BY <1>7 DEF TypeOK, IterateBoundary, IterateRoot, TraceCell, Live, On, Roots, unproc_listref, OtherList
  <2>2. Live' = Live
    BY <2>1 DEF Live
  <2> QED
    BY <1>5, <1>7, <2>2 DEF IterateBoundary, IterateRoot, TraceCell
<1>8. CASE IterateReset
  BY <1>5, <1>8 DEF TypeOK, IterateReset, Live, On
<1>9. CASE UNCHANGED vars
  BY <1>5, <1>9 DEF vars, Live, On
<1> QED
  BY <1>1, <1>2, <1>4, <1>6, <1>7, <1>8, <1>9 DEF Next, Client, Iterate, IterateSkip

(* Memory that is neither linked nor a root is on its way out.             *)
LEMMA UnlinkedStep ==
    ASSUME TypeOK, LockedAreRoots, RefExact, UnlinkedIsDying, [Next]_vars
    PROVE  UnlinkedIsDying'
<1> USE CellAssumption
<1> DEFINE Fine(c) ==
      /\ refcount[c] = 0 =>
           owner[c] \in {"roots_unproc", "roots_proc", "unallocated", "free", "free_pending"}
      /\ owner[c] \in {"unallocated", "free_pending"} => refcount[c] = 0
<1>a. ASSUME NEW c \in Cell PROVE Fine(c) /\ owner[c] \in Lists
  BY DEF TypeOK, UnlinkedIsDying, Roots, Dying, On
<1>b. (\A c \in Cell : Fine(c)') => UnlinkedIsDying'
  BY DEF UnlinkedIsDying, Roots, Dying, On
<1>c. unproc_listref \in {"white", "black"} /\ reachable_listref \in {"white", "black"}
  BY DEF TypeOK, unproc_listref, OtherList
<1>1. ASSUME NEW c \in Cell, MemoryRequest(c) PROVE UnlinkedIsDying'
  BY <1>1, <1>a, <1>b DEF TypeOK, MemoryRequest
<1>2. ASSUME NEW x \in Cell, NEW s \in Slot, NEW y \in Cell \cup {NULL}, PatchLink(x, s, y),
             NEW c \in Cell
      PROVE  Fine(c)'
  <2> DEFINE lost == [d \in Cell |-> IF d = link[<<x, s>>] THEN 1 ELSE 0]
  <2>1. refcount'[c] = IF Retained(y)[c] > lost[c] THEN Retained(y)[c] - lost[c] ELSE 0
    BY <1>2 DEF PatchLink, Released
  <2>2. Retained(y)[c] = IF c = y THEN refcount[c] + 1 ELSE refcount[c]
    BY DEF Retained
  <2>3. owner'[c] = (IF Retained(y)[c] # 0 /\ Retained(y)[c] <= lost[c]
                        /\ c \notin locked /\ Shaded(y)[c] # "free"
                     THEN "free_pending" ELSE Shaded(y)[c])
    BY <1>2 DEF PatchLink, Unlinked, DropsToZero
  <2>4. Shaded(y)[c] = IF c = y /\ owner[c] = unproc_listref THEN "boundary" ELSE owner[c]
    BY DEF Shaded
  <2>5. y \notin Dying /\ x \in Live
    BY <1>2, PatchRest
  <2>6. c = y => owner[c] \notin {"unallocated", "free_pending", "free"}
    BY <2>5 DEF Dying, On
  <2>7. c \in locked => owner[c] \in {"roots_unproc", "roots_proc"}
    BY DEF LockedAreRoots, Roots, On
  <2>8. refcount[c] \in Nat
    BY DEF TypeOK
  <2>9. c = link[<<x, s>>] => refcount[c] # 0
    <3>1. <<x, s>> \in Link /\ <<x, s>>[1] = x
      BY DEF Link
    <3>2. owner[x] \notin {"unallocated", "free"}
      BY <2>5 DEF Live, On
    <3> QED
      BY <3>1, <3>2, LinkedIsCounted
  <2>10. lost[c] = IF c = link[<<x, s>>] THEN 1 ELSE 0
    OBVIOUS
  <2> HIDE DEF lost
  <2> QED
    BY <1>a, <1>c, <2>1, <2>2, <2>3, <2>4, <2>6, <2>7, <2>8, <2>9, <2>10
<1>3. ASSUME NEW c \in Cell, GcLock(c) \/ GcUnlock(c) PROVE UnlinkedIsDying'
  <2>1. c \in Live
    BY <1>3 DEF GcLock, GcUnlock, Usable
  <2>2. ASSUME NEW d \in Cell PROVE Fine(d)'
    BY <1>3, <1>a, <2>1 DEF TypeOK, GcLock, GcUnlock, Roots, Live, On
  <2> QED
    BY <1>b, <2>2
<1>4. ASSUME NEW x \in Cell, FreeCell(x), NEW c \in Cell PROVE Fine(c)'
  <2> DEFINE lost == [d \in Cell |-> Cardinality(LinksBetween(link, x, d))]
  <2>1. /\ lost[c] \in Nat
        /\ refcount'[c] = IF refcount[c] > lost[c] THEN refcount[c] - lost[c] ELSE 0
        /\ owner'[c] = IF c = x THEN "free"
                       ELSE IF refcount[c] # 0 /\ refcount[c] <= lost[c]
                               /\ c \notin locked /\ owner[c] # "free"
                       THEN "free_pending" ELSE owner[c]
    BY <1>4, CountIsNat DEF FreeCell, Released, Unlinked, DropsToZero, LinksBetween
  <2>2. c \in locked => owner[c] \in {"roots_unproc", "roots_proc"}
    BY DEF LockedAreRoots, Roots, On
  <2>3. refcount[c] \in Nat
    BY DEF TypeOK
  <2> HIDE DEF lost
  <2> QED
    BY <1>a, <2>1, <2>2, <2>3
<1>5. ASSUME NEW x \in Cell, IterateBoundary(x) \/ IterateRoot(x), NEW c \in Cell PROVE Fine(c)'
  BY <1>5, <1>a, <1>c
     DEF TypeOK, IterateBoundary, IterateRoot, TraceCell, AssertLinked, Roots, Dying, On, Lists
<1>6. CASE IterateReset
  BY <1>6, <1>a, <1>b DEF TypeOK, IterateReset
<1>7. CASE UNCHANGED vars
  BY <1>7, <1>a, <1>b DEF vars
<1> QED
  BY <1>1, <1>2, <1>3, <1>4, <1>5, <1>6, <1>7, <1>b
     DEF Next, Client, Iterate, IterateSkip, IterateFreePending, IterateUnproc

-----------------------------------------------------------------------------
(* What the client can get at is in use; and while swept memory is still   *)
(* linked, it is memory that this cycle has reached or will reach.         *)
LEMMA AccessibleReached ==
    ASSUME Bookkeeping
    PROVE  AccessibleIsAlive /\ (Dangling # {} => Accessible \subseteq Reached)
<1> USE CellAssumption
<1>1. TypeOK /\ LockedAreRoots /\ RefExact /\ UnlinkedIsDying /\ SweepInv
  BY DEF Bookkeeping
<1>2. Held \subseteq Roots /\ Held \in SUBSET Cell
  BY <1>1 DEF Held, LockedAreRoots, Roots, On
<1>3. ASSUME NEW e \in Link, e[1] \in Cell \ Dying, link[e] # NULL
      PROVE  link[e] \in Cell /\ owner[link[e]] # "free_pending"
  <2>1. owner[e[1]] \notin {"unallocated", "free"}
    BY <1>3 DEF Dying, On
  <2> QED
    BY <1>1, <1>3, <2>1, LinkedIsCounted DEF UnlinkedIsDying
<1>4. CASE Dangling = {}
  <2>1. Closed(link, Cell \ Dying)
    <3>1. ASSUME NEW e \in Link, e[1] \in Cell \ Dying, link[e] # NULL
          PROVE  link[e] \in Cell \ Dying
      BY <1>3, <1>4, <3>1 DEF Dangling, Live, Dying, On
    <3> QED
      BY <3>1 DEF Closed
  <2>2. Held \subseteq Cell \ Dying
    BY <1>2 DEF Roots, Dying, On
  <2>3. Accessible \subseteq Cell \ Dying
    BY <2>1, <2>2, ReachableLeast DEF Accessible
  <2> QED
    BY <1>4, <2>3 DEF AccessibleIsAlive
<1>5. CASE Dangling # {}
  <2>1. Closed(link, Reached)
    <3>1. ASSUME NEW e \in Link, e[1] \in Reached, link[e] # NULL
          PROVE  link[e] \in Reached
      <4>1. /\ e[1] \in Cell
            /\ owner[e[1]] \in {"roots_unproc", "roots_proc", "boundary", reachable_listref}
        BY <3>1 DEF Reached, On
      <4>2. e[1] \in Cell \ Dying
        BY <1>1, <4>1 DEF Dying, On, TypeOK
      <4>3. link[e] \in Cell /\ owner[link[e]] # "free_pending"
        BY <1>3, <3>1, <4>2
      <4>4. owner[link[e]] # unproc_listref
        BY <1>1, <1>5, <3>1 DEF SweepInv
      <4>5. owner[e[1]] \notin {unproc_listref, "free_pending"}
        BY <1>1, <4>1 DEF TypeOK, unproc_listref, OtherList
      <4>6. e \notin Dangling
        BY <1>1, <4>5 DEF SweepInv
      <4>7. link[e] \in Live
        BY <3>1, <4>2, <4>6 DEF Dangling, Live, Dying, On
      <4> QED
        BY <1>1, <4>3, <4>4, <4>7 DEF TypeOK, Lists, Live, Reached, On, unproc_listref, OtherList
    <3> QED
      BY <3>1 DEF Closed
  <2>2. Held \subseteq Reached /\ Reached \in SUBSET Cell
    BY <1>2 DEF Roots, Reached, On
  <2>3. Accessible \subseteq Reached
    BY <2>1, <2>2, ReachableLeast DEF Accessible
  <2>4. Reached \cap Dying = {}
    BY <1>1 DEF TypeOK, Reached, Dying, On
  <2> QED
    BY <2>3, <2>4 DEF AccessibleIsAlive
<1> QED
  BY <1>4, <1>5

(* The sweep invariant.  The client's steps rest on AccessibleReached:     *)
(* while swept memory is still linked, the client has no unprocessed cell  *)
(* in its hands.                                                           *)
LEMMA SweepStep == Bookkeeping /\ [Next]_vars => SweepInv'
<1> SUFFICES ASSUME Bookkeeping, [Next]_vars PROVE SweepInv'
  OBVIOUS
<1> USE CellAssumption
<1> DEFINE Gone == {"unallocated", "free"}
           Here == {"roots_unproc", "roots_proc", "boundary", reachable_listref}
           Dangles(e) == owner[e[1]] \notin Gone /\ link[e] # NULL /\ owner[link[e]] \in Gone
<1>a. TypeOK /\ LockedAreRoots /\ TriColour /\ RefExact /\ UnlinkedIsDying /\ SweepInv
  BY DEF Bookkeeping
<1>b. \A e \in Link : e[1] \in Cell /\ link[e] \in Cell \cup {NULL}
  BY <1>a DEF TypeOK, Heap, Link
<1>c. \A c \in Cell : owner[c] \in Lists
  BY <1>a DEF TypeOK
<1>d. /\ unproc_listref \in {"white", "black"} /\ reachable_listref \in {"white", "black"}
      /\ unproc_listref # reachable_listref
  BY <1>a DEF TypeOK, unproc_listref, OtherList
<1>e. \A e \in Link : Dangles(e) => owner[e[1]] \in {unproc_listref, "free_pending"}
  BY <1>a, <1>b DEF SweepInv, Dangling, Live, On
<1>f. ASSUME NEW f \in Link, Dangles(f)
      PROVE  /\ \A e \in Link : owner[e[1]] \in Here /\ link[e] # NULL
                                   => owner[link[e]] # unproc_listref
             /\ \A c \in Usable : owner[c] \in Here
  <2>1. Dangling # {}
    BY <1>b, <1>f DEF Dangling, Live, On
  <2> QED
    BY <1>a, <1>b, <2>1, AccessibleReached DEF SweepInv, Reached, On, Usable
(* What has to be shown of every step that keeps the colours.              *)
<1>g. ASSUME UNCHANGED reachable_listref, link' \in Heap,
             ASSUME NEW f \in Link, Dangles(f)'
             PROVE  /\ owner'[f[1]] \in {unproc_listref, "free_pending"}
                    /\ \A e \in Link : owner'[e[1]] \in Here /\ link'[e] # NULL
                                          => owner'[link'[e]] # unproc_listref
      PROVE  SweepInv'
  <2>1. \A e \in Link : e[1] \in Cell /\ link'[e] \in Cell \cup {NULL}
    BY <1>g DEF Heap, Link
  <2>2. UNCHANGED unproc_listref
    BY <1>g DEF unproc_listref
  <2>3. ASSUME NEW f \in Dangling'
        PROVE  f \in Link /\ Dangles(f)'
    BY <2>1 DEF Dangling, Live, On
  <2>4. \A e \in Dangling' : owner'[e[1]] \in {unproc_listref, "free_pending"}
    BY <1>g, <2>3
  <2>5. ASSUME NEW f \in Dangling', NEW e \in Link, e[1] \in Reached', link'[e] # NULL
        PROVE  owner'[link'[e]] # unproc_listref
    BY <1>g, <2>3, <2>5 DEF Reached, On
  <2> QED
    BY <2>2, <2>4, <2>5 DEF SweepInv
<1>1. ASSUME NEW c \in Cell, MemoryRequest(c) PROVE SweepInv'
  <2>1. link' \in Heap /\ UNCHANGED reachable_listref
    BY <1>1, <1>a, TypeStep DEF MemoryRequest, TypeOK
  <2>2. \A e \in Link : link'[e] = IF e[1] = c THEN NULL ELSE link[e]
    BY <1>1 DEF MemoryRequest
  <2>3. \A d \in Cell : owner'[d] = IF d = c THEN "roots_unproc" ELSE owner[d]
    BY <1>1, <1>a DEF MemoryRequest, TypeOK
  <2>4. owner[c] \in Gone
    BY <1>1 DEF MemoryRequest
  <2>5. ASSUME NEW f \in Link, Dangles(f)' PROVE Dangles(f) /\ f[1] # c
    BY <1>b, <2>2, <2>3, <2>5
  <2>6. ASSUME NEW f \in Link, Dangles(f)'
        PROVE  owner'[f[1]] \in {unproc_listref, "free_pending"}
    BY <1>b, <1>e, <2>3, <2>5, <2>6
  <2>7. ASSUME NEW f \in Link, Dangles(f)', NEW e \in Link, owner'[e[1]] \in Here, link'[e] # NULL
        PROVE  owner'[link'[e]] # unproc_listref
    BY <1>b, <1>d, <1>f, <2>2, <2>3, <2>5, <2>7
  <2> QED
    BY <1>g, <2>1, <2>6, <2>7
<1>2. ASSUME NEW x \in Cell, NEW s \in Slot, NEW y \in Cell \cup {NULL}, PatchLink(x, s, y)
      PROVE  SweepInv'
  <2>1. /\ link' \in Heap /\ UNCHANGED reachable_listref
        /\ link' = [link EXCEPT ![<<x, s>>] = y]
        /\ y \notin Dying
    BY <1>2, <1>a, PatchRest, TypeStep DEF TypeOK
  <2>2. \A e \in Link : link'[e] = IF e = <<x, s>> THEN y ELSE link[e]
    BY <1>a, <2>1 DEF TypeOK, Heap
  <2>3. ASSUME NEW c \in Cell
        PROVE  \/ owner'[c] = owner[c] /\ (c = y => owner[c] # unproc_listref)
               \/ c = y /\ owner[c] = unproc_listref /\ owner'[c] = "boundary"
               \/ c = link[<<x, s>>] /\ owner'[c] = "free_pending" /\ owner[c] \notin Gone
    BY <1>2, <1>a, <2>1, PatchOwner DEF UnlinkedIsDying, Dying, On
  <2>4. y \in Cell => y \in Usable /\ owner[y] \notin Gone
    BY <1>2 DEF PatchLink, Usable, Live, On
  <2>5. ASSUME NEW f \in Link, Dangles(f)' PROVE Dangles(f)
    BY <1>b, <2>2, <2>3, <2>4, <2>5
  <2>6. ASSUME NEW f \in Link, Dangles(f)'
        PROVE  owner'[f[1]] \in {unproc_listref, "free_pending"}
    BY <1>b, <1>d, <1>e, <1>f, <2>3, <2>4, <2>5, <2>6
  <2>7. ASSUME NEW f \in Link, Dangles(f)', NEW e \in Link, owner'[e[1]] \in Here, link'[e] # NULL
        PROVE  owner'[link'[e]] # unproc_listref
    <3>1. owner[e[1]] \in Here /\ owner'[e[1]] = owner[e[1]]
      BY <1>b, <1>d, <1>f, <2>3, <2>4, <2>5, <2>7
    <3>2. link'[e] \in Cell /\ owner[link'[e]] # unproc_listref
      BY <1>b, <1>d, <1>f, <2>2, <2>4, <2>5, <2>7, <3>1
    <3> QED
      BY <1>d, <2>3, <3>2
  <2> QED
    BY <1>g, <2>1, <2>6, <2>7
<1>3. ASSUME NEW c \in Cell, GcLock(c) \/ GcUnlock(c) PROVE SweepInv'
  <2>1. c \in Usable /\ owner[c] \notin Gone /\ UNCHANGED <<link, reachable_listref>>
    BY <1>3 DEF GcLock, GcUnlock, Usable, Live, On
  <2>2. \A d \in Cell \ {c} : owner'[d] = owner[d]
    BY <1>3, <1>a DEF GcLock, GcUnlock, TypeOK
  <2>3. owner'[c] \in {"roots_unproc", "roots_proc", "boundary", "free_pending"}
    BY <1>3, <1>a DEF GcLock, GcUnlock, TypeOK, Roots, On
  <2>4. ASSUME NEW f \in Link, Dangles(f)' PROVE Dangles(f)
    BY <1>b, <2>1, <2>2, <2>3, <2>4
  <2>5. ASSUME NEW f \in Link, Dangles(f)'
        PROVE  owner'[f[1]] \in {unproc_listref, "free_pending"}
    BY <1>b, <1>d, <1>e, <1>f, <2>1, <2>2, <2>4, <2>5
  <2>6. ASSUME NEW f \in Link, Dangles(f)', NEW e \in Link, owner'[e[1]] \in Here, link'[e] # NULL
        PROVE  owner'[link'[e]] # unproc_listref
    BY <1>b, <1>d, <1>f, <2>1, <2>2, <2>3, <2>4, <2>6
  <2> QED
    BY <1>a, <1>g, <2>1, <2>5, <2>6 DEF TypeOK
<1>4. ASSUME NEW x \in Cell, IterateFreePending(x) \/ IterateUnproc(x) PROVE SweepInv'
  <2>1. FreeCell(x) /\ owner[x] \in {unproc_listref, "free_pending"}
    BY <1>4 DEF IterateFreePending, IterateUnproc
  <2>2. UNCHANGED <<link, reachable_listref>>
    BY <1>a, <2>1, FreeCellMoves
  <2>3. owner'[x] = "free"
    BY <1>a, <2>1, FreeCellMoves
  <2>4. ASSUME NEW c \in Cell \ {x}
        PROVE  owner'[c] = owner[c] \/ (owner'[c] = "free_pending" /\ owner[c] \notin Gone)
    BY <1>a, <2>1, FreeCellMoves DEF UnlinkedIsDying
  (* A link that dangles now dangled before, or led to what is freed now.  *)
  <2>5. ASSUME NEW f \in Link, Dangles(f)' PROVE f[1] # x /\ (Dangles(f) \/ link[f] = x)
    BY <1>b, <2>2, <2>3, <2>4, <2>5
  (* What is swept was linked from unprocessed or pending memory only.     *)
  <2>6. ASSUME NEW e \in Link, owner[e[1]] \in Here, link[e] # NULL, owner[x] = unproc_listref
        PROVE  owner[link[e]] # unproc_listref
    <3>1. owner[e[1]] \in {"roots_proc", reachable_listref}
      BY <1>4, <1>b, <1>d, <2>6 DEF IterateUnproc, IterateFreePending, On
    <3> QED
      BY <1>a, <1>b, <2>6, <3>1 DEF TriColour, Processed, On
  <2>7. ASSUME NEW f \in Link, link[f] = x, owner[f[1]] \notin Gone
        PROVE  owner[x] = unproc_listref /\ owner[f[1]] \in {unproc_listref, "free_pending"}
    <3>1. owner[x] # "free_pending"
      BY <1>a, <2>7, LinkedIsCounted DEF UnlinkedIsDying
    <3>2. owner[x] = unproc_listref
      BY <2>1, <3>1
    <3>3. owner[f[1]] \notin Here
      BY <1>b, <2>6, <2>7, <3>2
    <3> QED
      BY <1>b, <1>c, <1>d, <2>7, <3>2, <3>3 DEF Lists
  <2>8. ASSUME NEW f \in Link, Dangles(f)'
        PROVE  owner'[f[1]] \in {unproc_listref, "free_pending"}
    BY <1>b, <1>e, <2>3, <2>4, <2>5, <2>7, <2>8
  <2>9. ASSUME NEW f \in Link, Dangles(f)', NEW e \in Link, owner'[e[1]] \in Here, link'[e] # NULL
        PROVE  owner'[link'[e]] # unproc_listref
    <3>1. owner[e[1]] \in Here
      BY <1>b, <1>d, <2>3, <2>4, <2>9
    <3>2. owner[link[e]] # unproc_listref
      <4>1. CASE Dangles(f)
        BY <1>f, <2>2, <2>9, <3>1, <4>1
      <4>2. CASE ~Dangles(f)
        <5>1. link[f] = x /\ owner[f[1]] \notin Gone
          BY <1>b, <2>2, <2>4, <2>5, <2>9, <4>2
        <5> QED
          BY <2>2, <2>6, <2>7, <2>9, <3>1, <5>1
      <4> QED
        BY <4>1, <4>2
    <3> QED
      BY <1>b, <1>d, <2>2, <2>3, <2>4, <2>9, <3>2
  <2> QED
    BY <1>a, <1>g, <2>2, <2>8, <2>9 DEF TypeOK
<1>5. ASSUME NEW x \in Cell, IterateBoundary(x) \/ IterateRoot(x) PROVE SweepInv'
  <2>1. UNCHANGED <<link, reachable_listref>>
    BY <1>5 DEF IterateBoundary, IterateRoot, TraceCell
  <2>2. owner[x] \in Here /\ owner'[x] \in Here
    BY <1>5, <1>a DEF IterateBoundary, IterateRoot, TraceCell, TypeOK
  <2>3. ASSUME NEW c \in Cell \ {x}
        PROVE  \/ owner'[c] = owner[c]
               \/ /\ owner'[c] = "boundary"
                  /\ \/ owner[c] \in Here
                     \/ (owner[c] = unproc_listref /\ \E e \in Link : e[1] = x /\ link[e] = c)
    BY <1>5, <1>a
       DEF IterateBoundary, IterateRoot, TraceCell, TypeOK, Targets, LinksOf, Roots, On
  <2>4. ASSUME NEW f \in Link, Dangles(f)' PROVE Dangles(f)
    BY <1>b, <1>d, <2>1, <2>2, <2>3, <2>4
  <2>5. ASSUME NEW f \in Link, Dangles(f), NEW c \in Cell \ {x}, owner[c] \notin Here
        PROVE  owner'[c] = owner[c]
    BY <1>b, <1>f, <2>2, <2>3, <2>5
  <2>6. ASSUME NEW f \in Link, Dangles(f)'
        PROVE  owner'[f[1]] \in {unproc_listref, "free_pending"}
    BY <1>b, <1>d, <1>e, <2>2, <2>4, <2>5, <2>6
  <2>7. ASSUME NEW f \in Link, Dangles(f)', NEW e \in Link, owner'[e[1]] \in Here, link'[e] # NULL
        PROVE  owner'[link'[e]] # unproc_listref
    <3>1. owner[e[1]] \in Here
      BY <1>b, <2>2, <2>4, <2>5, <2>7
    <3>2. owner[link[e]] # unproc_listref
      BY <1>f, <2>1, <2>4, <2>7, <3>1
    <3> QED
      BY <1>b, <1>d, <2>1, <2>2, <2>3, <2>7, <3>2
  <2> QED
    BY <1>a, <1>g, <2>1, <2>6, <2>7 DEF TypeOK
<1>6. CASE IterateReset
  <2>1. ASSUME NEW e \in Dangling' PROVE FALSE
    <3>1. e \in Link /\ link' = link
      BY <1>6 DEF IterateReset, Dangling
    <3>2. \A c \in Cell : owner'[c] = owner[c] \/ (owner[c] = "roots_proc" /\ owner'[c] = "roots_unproc")
      BY <1>6 DEF IterateReset
    <3>3. Dangles(e)
      BY <1>b, <3>1, <3>2 DEF Dangling, Live, On
    <3>4. owner[e[1]] \notin {unproc_listref, "free_pending"}
      BY <1>6, <1>b, <3>1 DEF IterateReset, On
    <3> QED
      BY <1>e, <3>1, <3>3, <3>4
  <2> QED
    BY <2>1 DEF SweepInv
<1>7. CASE UNCHANGED vars
  BY <1>7, <1>a DEF vars, SweepInv, Dangling, Reached, Live, On, unproc_listref
<1> QED
  BY <1>1, <1>2, <1>3, <1>4, <1>5, <1>6, <1>7 DEF Next, Client, Iterate, IterateSkip

-----------------------------------------------------------------------------
(* The theorems.                                                           *)

LEMMA BookkeepingInit == Init => Bookkeeping
<1> SUFFICES ASSUME Init PROVE Bookkeeping
  OBVIOUS
<1>1. TypeOK
  BY TypeInit
<1>2. RefExact
  BY CellAssumption, CountZero DEF Init, RefExact
<1>3. LockedAreRoots /\ TriColour /\ UnlinkedIsDying /\ SweepInv
  BY DEF Init, LockedAreRoots, TriColour, UnlinkedIsDying, SweepInv, Dangling, Dying, On
<1> QED
  BY <1>1, <1>2, <1>3 DEF Bookkeeping

(* The invariant that the safety of the manager rests on.                  *)
THEOREM BookkeepingCorrect == AssertReuse => (Spec => []Bookkeeping)
<1> SUFFICES ASSUME AssertReuse PROVE Spec => []Bookkeeping
  OBVIOUS
<1>1. Bookkeeping /\ [Next]_vars => Bookkeeping'
  BY TypeStep, LockStep, TriStep, RefStep, UnlinkedStep, SweepStep DEF Bookkeeping
<1> QED
  BY BookkeepingInit, <1>1, PTL DEF Spec

(* The part of it that does not depend on line 317: no locked memory       *)
(* leaves the roots, no processed memory links unreached memory.           *)
THEOREM TracingCorrect == Spec => [](LockedAreRoots /\ TriColour)
<1>1. Init => LockedAreRoots /\ TriColour
  BY BookkeepingInit DEF Bookkeeping
<1>2. TypeOK /\ LockedAreRoots /\ TriColour /\ [Next]_vars => (LockedAreRoots /\ TriColour)'
  BY LockStep, TriStep
<1> QED
  BY <1>1, <1>2, TypeCorrect, PTL DEF Spec

(* Locked memory is on the roots list, in both builds.                     *)
THEOREM LockedCorrect == Spec => []LockedAreRoots
BY TracingCorrect, PTL

(* With line 317 enabled every count is exact: no advice is lost, and none *)
(* is given twice.                                                         *)
THEOREM RefExactCorrect == AssertReuse => (Spec => []RefExact)
<1>1. Bookkeeping => RefExact
  BY DEF Bookkeeping
<1> QED
  BY <1>1, BookkeepingCorrect, PTL

(* No memory waits on free_pending while the collector is idle.            *)
THEOREM PendingCorrect == Spec => []PendingWakesCollector
<1> USE CellAssumption
<1> USE DEF PendingWakesCollector, Collecting, On
<1>1. Init => PendingWakesCollector
  BY DEF Init
<1>2. ASSUME TypeOK, PendingWakesCollector, [Next]_vars
      PROVE  PendingWakesCollector'
  <2>1. ASSUME NEW c \in Cell, MemoryRequest(c) PROVE PendingWakesCollector'
    BY <1>2, <2>1 DEF MemoryRequest, TypeOK
  <2>2. ASSUME NEW x \in Cell, NEW s \in Slot, NEW y \in Cell \cup {NULL}, PatchLink(x, s, y),
               NEW c \in Cell, owner'[c] = "free_pending"
        PROVE  clean_cycles' # 2
    <3>1. \/ owner'[c] = owner[c]
          \/ c = y /\ owner'[c] = "boundary"
          \/ c = link[<<x, s>>] /\ owner'[c] = "free_pending"
      BY <1>2, <2>2, PatchOwner
    <3> QED
      BY <1>2, <2>2, <3>1 DEF PatchLink
  <2>3. ASSUME NEW c \in Cell, GcLock(c) \/ GcUnlock(c) PROVE PendingWakesCollector'
    BY <1>2, <2>3 DEF GcLock, GcUnlock, TypeOK
  <2>4. ASSUME NEW x \in Cell, FreeCell(x), clean_cycles # 2 PROVE clean_cycles' # 2
    BY <2>4 DEF FreeCell
  <2>5. ASSUME NEW x \in Cell, IterateFreePending(x) \/ IterateUnproc(x)
        PROVE  PendingWakesCollector'
    BY <2>4, <2>5 DEF IterateFreePending, IterateUnproc
  <2>6. ASSUME NEW x \in Cell, IterateBoundary(x) \/ IterateRoot(x) PROVE PendingWakesCollector'
    BY <2>6 DEF IterateBoundary, IterateRoot, TraceCell
  <2>7. CASE IterateReset
    BY <2>7 DEF IterateReset
  <2>8. CASE UNCHANGED vars
    BY <1>2, <2>8 DEF vars
  <2> QED
    BY <1>2, <2>1, <2>2, <2>3, <2>5, <2>6, <2>7, <2>8 DEF Next, Client, Iterate, IterateSkip
<1> QED
  BY <1>1, <1>2, TypeCorrect, PTL DEF Spec

(* Memory that the client can get at is never free nor about to be freed.  *)
THEOREM AccessibleCorrect == AssertReuse => (Spec => []AccessibleIsAlive)
<1> SUFFICES ASSUME AssertReuse PROVE Spec => []AccessibleIsAlive
  OBVIOUS
<1>1. Bookkeeping => AccessibleIsAlive
  BY AccessibleReached
<1> QED
  BY <1>1, BookkeepingCorrect, PTL

(* What the sweep frees is not reachable from any root, locked or not: the *)
(* assertion of the build with GC_REACHABILITY_VERIFICATION never fails    *)
(* there.                                                                  *)
LEMMA SweepIsUnreachable == Bookkeeping => SweepsUnreachable
<1> USE CellAssumption
<1> SUFFICES ASSUME Bookkeeping, Sweeping
             PROVE  Reachable(link, Roots) \cap On({unproc_listref}) = {}
  BY DEF SweepsUnreachable
<1>1. TypeOK /\ TriColour /\ RefExact /\ UnlinkedIsDying /\ SweepInv
  BY DEF Bookkeeping
<1>2. ASSUME NEW e \in Link, e[1] \in Processed, link[e] # NULL
      PROVE  link[e] \in Processed
  <2>1. e[1] \in Cell /\ owner[e[1]] \in {"roots_proc", reachable_listref}
    BY <1>2 DEF Processed, On
  <2>2. owner[e[1]] \notin {"unallocated", "free", "free_pending", unproc_listref}
    BY <1>1, <2>1 DEF TypeOK, unproc_listref, OtherList
  <2>3. link[e] \in Cell /\ refcount[link[e]] # 0
    BY <1>1, <1>2, <2>2, LinkedIsCounted
  <2>4. owner[link[e]] \notin {"free_pending", "unallocated"}
    BY <1>1, <2>3 DEF UnlinkedIsDying
  <2>5. owner[link[e]] # unproc_listref
    BY <1>1, <1>2 DEF TriColour
  <2>6. e \notin Dangling
    BY <1>1, <2>2 DEF SweepInv
  <2>7. owner[link[e]] # "free"
    BY <1>2, <2>1, <2>2, <2>3, <2>6 DEF Dangling, Live, On
  <2>8. owner[link[e]] \notin {"boundary", "roots_unproc"}
    BY <2>3 DEF Sweeping, On
  <2> QED
    BY <1>1, <2>3, <2>4, <2>5, <2>7, <2>8
       DEF TypeOK, Lists, Processed, On, unproc_listref, OtherList
<1>3. Closed(link, Processed)
  BY <1>2 DEF Closed
<1>4. Roots \subseteq Processed /\ Processed \in SUBSET Cell
  BY DEF Sweeping, Roots, Processed, On
<1>5. Reachable(link, Roots) \subseteq Processed
  BY <1>3, <1>4, ReachableLeast
<1>6. Processed \cap On({unproc_listref}) = {}
  BY <1>1 DEF TypeOK, Processed, On, unproc_listref, OtherList
<1> QED
  BY <1>5, <1>6

(* When the trace is over, what is left unprocessed is not reachable from  *)
(* any root: GC_REACHABILITY_VERIFICATION finds nothing.                   *)
THEOREM SweepCorrect == AssertReuse => (Spec => []SweepsUnreachable)
BY SweepIsUnreachable, BookkeepingCorrect, PTL

-----------------------------------------------------------------------------
(* The manager implements what it promises.                                *)

LEMMA SweptIsInaccessible ==
    ASSUME Bookkeeping, NEW x \in Cell, IterateFreePending(x) \/ IterateUnproc(x)
    PROVE  x \in Live \ Accessible
<1> USE CellAssumption
<1>1. TypeOK /\ LockedAreRoots
  BY DEF Bookkeeping
<1>2. x \in Live
  BY DEF IterateFreePending, IterateUnproc, Live, On, unproc_listref, OtherList
<1>3. CASE IterateFreePending(x)
  BY <1>2, <1>3, AccessibleReached DEF IterateFreePending, AccessibleIsAlive, Dying, On
<1>4. CASE IterateUnproc(x)
  <2>1. Sweeping /\ x \in On({unproc_listref})
    BY <1>4 DEF IterateUnproc, Sweeping, On
  <2>2. x \notin Reachable(link, Roots)
    BY <2>1, SweepIsUnreachable DEF SweepsUnreachable
  <2>3. Held \subseteq Roots
    BY <1>1 DEF Held, LockedAreRoots
  <2>4. Accessible \subseteq Reachable(link, Roots)
    BY <2>3 DEF Accessible, Reachable
  <2> QED
    BY <1>2, <2>2, <2>4
<1> QED
  BY <1>3, <1>4

LEMMA FreeKeepsHeld ==
    ASSUME Bookkeeping, NEW x \in Cell, x \notin Roots, FreeCell(x)
    PROVE  Held' = Held
<1>1. TypeOK /\ LockedAreRoots
  BY DEF Bookkeeping
<1>2. UNCHANGED locked /\ owner'[x] = "free"
  BY <1>1, FreeCellMoves
<1>3. ASSUME NEW d \in Cell \ {x}
      PROVE  /\ \/ owner'[d] = owner[d]
                \/ owner'[d] = "free_pending" /\ refcount[d] # 0
             /\ refcount[d] = 0 => refcount'[d] = 0
  BY <1>1, FreeCellMoves
<1>4. ASSUME NEW d \in Cell \ {x}, d \notin locked, refcount[d] # 0, refcount'[d] = 0,
             owner[d] # "free"
      PROVE  owner'[d] = "free_pending"
  <2> DEFINE lost == [c \in Cell |-> Cardinality(LinksBetween(link, x, c))]
  <2>1. /\ lost[d] \in Nat /\ refcount[d] \in Nat
        /\ refcount'[d] = IF refcount[d] > lost[d] THEN refcount[d] - lost[d] ELSE 0
        /\ owner'[d] = IF refcount[d] # 0 /\ refcount[d] <= lost[d]
                          /\ d \notin locked /\ owner[d] # "free"
                       THEN "free_pending" ELSE owner[d]
    BY <1>1, CountIsNat
       DEF TypeOK, FreeCell, Released, Unlinked, DropsToZero, LinksBetween
  <2> HIDE DEF lost
  <2> QED
    BY <1>4, <2>1
<1>5. ASSUME NEW d \in Cell PROVE d \in Held' <=> d \in Held
  <2>1. CASE d = x
    BY <1>1, <1>2, <2>1 DEF Held, Roots, On, LockedAreRoots
  <2>2. CASE d # x
    BY <1>2, <1>3, <1>4, <2>2 DEF Held, Roots, On
  <2> QED
    BY <2>1, <2>2
<1>6. Held \in SUBSET Cell /\ Held' \in SUBSET Cell
  BY <1>1, <1>2 DEF Held, Roots, On, TypeOK
<1> QED
  BY <1>5, <1>6

LEMMA PatchKeepsHeld ==
    ASSUME Bookkeeping, NEW x \in Cell, NEW s \in Slot, NEW y \in Cell \cup {NULL},
           PatchLink(x, s, y)
    PROVE  Held' = Held \ ({y} \ locked)
<1> USE CellAssumption
<1> DEFINE lost == [d \in Cell |-> IF d = link[<<x, s>>] THEN 1 ELSE 0]
<1>1. TypeOK /\ RefExact
  BY DEF Bookkeeping
<1>2. UNCHANGED locked /\ x \in Live
  BY <1>1, PatchRest
<1>3. ASSUME NEW c \in Cell, c = link[<<x, s>>] PROVE refcount[c] # 0
  <2>1. <<x, s>> \in Link /\ <<x, s>>[1] = x
    BY DEF Link
  <2>2. owner[x] \notin {"unallocated", "free"}
    BY <1>2 DEF Live, On
  <2> QED
    BY <1>1, <1>3, <2>1, <2>2, LinkedIsCounted
<1>4. ASSUME NEW c \in Cell
      PROVE  c \in Held' <=> c \in Held \ ({y} \ locked)
  <2>1. /\ refcount'[c] = (IF Retained(y)[c] > lost[c] THEN Retained(y)[c] - lost[c] ELSE 0)
        /\ owner'[c] = (IF Retained(y)[c] # 0 /\ Retained(y)[c] <= lost[c]
                           /\ c \notin locked /\ Shaded(y)[c] # "free"
                        THEN "free_pending" ELSE Shaded(y)[c])
    BY DEF PatchLink, Released, Unlinked, DropsToZero
  <2>2. /\ Retained(y)[c] = (IF c = y THEN refcount[c] + 1 ELSE refcount[c])
        /\ lost[c] = IF c = link[<<x, s>>] THEN 1 ELSE 0
    BY DEF Retained
  <2>3. Shaded(y)[c] = (IF c = y /\ owner[c] = unproc_listref THEN "boundary" ELSE owner[c])
    BY DEF Shaded
  <2>4. refcount[c] \in Nat /\ unproc_listref \in {"white", "black"}
    BY <1>1 DEF TypeOK, unproc_listref, OtherList
  <2> HIDE DEF lost
  <2>5. CASE c \in locked
    BY <1>2, <2>5 DEF Held
  <2>6. CASE c \notin locked
    <3>1. c \in Held' <=> owner'[c] \in {"roots_unproc", "roots_proc"} /\ refcount'[c] = 0
      BY <1>2, <2>6 DEF Held, Roots, On
    <3>2. c \in Held <=> owner[c] \in {"roots_unproc", "roots_proc"} /\ refcount[c] = 0
      BY <2>6 DEF Held, Roots, On
    <3>3. CASE c = y
      BY <1>3, <2>1, <2>2, <2>4, <2>6, <3>1, <3>3
    <3>4. CASE c # y
      BY <1>3, <2>1, <2>2, <2>3, <2>4, <2>6, <3>1, <3>2, <3>4
    <3> QED
      BY <3>3, <3>4
  <2> QED
    BY <2>5, <2>6
<1>5. locked \in SUBSET Cell
  BY <1>1 DEF TypeOK
<1> QED
  BY <1>2, <1>4, <1>5 DEF Held, Roots, On

(* Every step of the manager is a step of its promise or changes nothing   *)
(* the promise speaks of.                                                  *)
LEMMA PromiseStep ==
    ASSUME Bookkeeping, [Next]_vars
    PROVE  [Promise!Next]_(Promise!vars)
<1> USE CellAssumption
<1> USE DEF Promise!Next
<1>a. TypeOK /\ LockedAreRoots /\ UnlinkedIsDying
  BY DEF Bookkeeping
<1>b. Promise!Accessible = Accessible /\ Promise!Link = Link
  BY DEF Promise!Accessible, Promise!Reachable, Promise!Closed, Promise!Link,
         Accessible, Reachable, Closed, Link
<1>c. ASSUME UNCHANGED <<locked, link>>, Held' = Held, Live' = Live
      PROVE  UNCHANGED Promise!vars
  BY <1>c DEF Promise!vars
<1>1. ASSUME NEW c \in Cell, MemoryRequest(c) PROVE Promise!Allocate(c)
  <2>1. c \notin Live /\ c \notin locked
    BY <1>1 DEF MemoryRequest, Live, On
  <2>2. UNCHANGED locked
    BY <1>1 DEF MemoryRequest
  <2>3. \A d \in Cell : /\ owner'[d] = IF d = c THEN "roots_unproc" ELSE owner[d]
                        /\ refcount'[d] = IF d = c THEN 0 ELSE refcount[d]
    BY <1>1, <1>a DEF MemoryRequest, TypeOK
  <2>4. Live' = Live \cup {c}
    BY <2>3 DEF Live, On
  <2>5. Held' = Held \cup {c}
    BY <2>2, <2>3 DEF Held, Roots, On
  <2> QED
    BY <1>1, <1>b, <2>1, <2>2, <2>4, <2>5 DEF Promise!Allocate, MemoryRequest
<1>2. ASSUME NEW x \in Cell, NEW s \in Slot, NEW y \in Cell \cup {NULL}, PatchLink(x, s, y)
      PROVE  Promise!Patch(x, s, y)
  <2>1. Live' = Live
    BY <1>2, <1>a, PatchLive
  <2>2. Held' = Held \ ({y} \ locked)
    BY <1>2, PatchKeepsHeld
  <2> QED
    BY <1>2, <1>b, <2>1, <2>2 DEF Promise!Patch, PatchLink, Usable
<1>3. ASSUME NEW c \in Cell, GcLock(c) PROVE Promise!Lock(c)
  <2>1. \A d \in Cell : owner'[d] = IF d = c /\ d \notin Roots THEN "roots_unproc" ELSE owner[d]
    BY <1>3, <1>a DEF GcLock, TypeOK
  <2>2. locked' = locked \cup {c} /\ UNCHANGED <<refcount, link>> /\ c \in Accessible /\ c \in Live
    BY <1>3 DEF GcLock, Usable
  <2>3. Live' = Live
    BY <2>1, <2>2 DEF Live, On
  <2>4. Held' = Held \cup {c}
    BY <2>1, <2>2 DEF Held, Roots, On
  <2> QED
    BY <1>b, <2>2, <2>3, <2>4 DEF Promise!Lock
<1>4. ASSUME NEW c \in Cell, GcUnlock(c) PROVE Promise!Unlock(c)
  <2>1. \A d \in Cell : owner'[d] = IF d = c THEN (IF refcount[c] # 0 THEN "boundary" ELSE "free_pending")
                                    ELSE owner[d]
    BY <1>4, <1>a DEF GcUnlock, TypeOK
  <2>2. locked' = locked \ {c} /\ UNCHANGED <<refcount, link>> /\ c \in Accessible /\ c \in Live
    BY <1>4 DEF GcUnlock, Usable
  <2>3. Live' = Live
    BY <2>1, <2>2 DEF Live, On
  <2>4. Held' = Held \ {c}
    BY <2>1, <2>2 DEF Held, Roots, On
  <2> QED
    BY <1>b, <2>2, <2>3, <2>4 DEF Promise!Unlock
<1>5. ASSUME NEW x \in Cell, IterateFreePending(x) \/ IterateUnproc(x) PROVE Promise!Reclaim(x)
  <2>1. FreeCell(x) /\ x \notin Roots
    BY <1>5 DEF IterateFreePending, IterateUnproc, Roots, On, unproc_listref, OtherList
  <2>2. x \in Live \ Accessible
    BY <1>5, SweptIsInaccessible
  <2>3. Live' = Live \ {x}
    BY <1>a, <2>1, FreeCellLive
  <2>4. Held' = Held
    BY <2>1, FreeKeepsHeld
  <2>5. UNCHANGED <<locked, link>>
    BY <1>a, <2>1, FreeCellMoves
  <2> QED
    BY <1>b, <2>2, <2>3, <2>4, <2>5 DEF Promise!Reclaim
<1>6. ASSUME NEW x \in Cell, IterateBoundary(x) \/ IterateRoot(x) PROVE UNCHANGED Promise!vars
  <2>1. UNCHANGED <<locked, refcount, link>>
    BY <1>6 DEF IterateBoundary, IterateRoot, TraceCell
  <2>2. ASSUME NEW d \in Cell
        PROVE  /\ d \in Live' <=> d \in Live
               /\ d \notin locked /\ refcount[d] = 0 => (d \in Roots' <=> d \in Roots)
    BY <1>6, <1>a
       DEF TypeOK, IterateBoundary, IterateRoot, TraceCell, AssertLinked, Live, Roots, On,
           unproc_listref, OtherList
  <2>3. Live' = Live
    BY <2>2 DEF Live
  <2>4. Held' = Held
    BY <2>1, <2>2 DEF Held, Roots, On
  <2> QED
    BY <1>c, <2>1, <2>3, <2>4
<1>7. CASE IterateReset
  <2>1. UNCHANGED <<locked, refcount, link>>
    BY <1>7 DEF IterateReset
  <2>2. ASSUME NEW d \in Cell
        PROVE  (d \in Live' <=> d \in Live) /\ (d \in Roots' <=> d \in Roots)
    BY <1>7 DEF IterateReset, Live, Roots, On
  <2>3. Live' = Live /\ Roots' = Roots
    BY <2>2 DEF Live, Roots, On
  <2> QED
    BY <1>c, <2>1, <2>3 DEF Held
<1>8. CASE UNCHANGED vars
  BY <1>c, <1>8 DEF vars, Held, Roots, Live, On
<1> QED
  BY <1>1, <1>2, <1>3, <1>4, <1>5, <1>6, <1>7, <1>8 DEF Next, Client, Iterate, IterateSkip

(* Memory implements ManagedHeap: no step does more to the client's memory *)
(* than the operation it asked for, or the freeing of what it gave up.     *)
THEOREM PromiseCorrect == AssertReuse => (Spec => KeepsPromise)
<1> SUFFICES ASSUME AssertReuse PROVE Spec => KeepsPromise
  OBVIOUS
<1>1. Init => Promise!Init
  BY DEF Init, Promise!Init, Promise!Link, Link, Live, Held, Roots, On
<1>2. Bookkeeping /\ [Next]_vars => [Promise!Next]_(Promise!vars)
  BY PromiseStep
<1> QED
  BY <1>1, <1>2, BookkeepingCorrect, PTL DEF Spec, KeepsPromise, Promise!Spec

-----------------------------------------------------------------------------
(* No assertion of memory.c fails once line 317 is one of them.            *)
LEMMA AssertionsFollow == Bookkeeping => AssertionsHold
<1> USE CellAssumption
<1> SUFFICES ASSUME Bookkeeping PROVE AssertionsHold
  OBVIOUS
<1>1. TypeOK /\ LockedAreRoots /\ TriColour /\ RefExact /\ UnlinkedIsDying /\ SweepInv
  BY DEF Bookkeeping
<1>2. unproc_listref \in {"white", "black"}
  BY DEF unproc_listref, OtherList
<1>3. \A c \in Cell : owner[c] \notin {"roots_unproc", "roots_proc"} => c \notin locked
  BY <1>1 DEF LockedAreRoots, Roots, On
<1>4. ASSUME NEW c \in Usable PROVE AssertNewLink(c)
  BY AccessibleReached DEF AccessibleIsAlive, AssertNewLink, Usable
<1>5. ASSUME NEW x \in Usable, NEW s \in Slot, NEW y \in Usable \cup {NULL}
      PROVE  AssertStaleLink(Shaded(y), Retained(y),
                             [c \in Cell |-> IF c = link[<<x, s>>] THEN 1 ELSE 0])
  <2>1. ASSUME NEW c \in Cell, c = link[<<x, s>>] PROVE refcount[c] # 0
    <3>1. <<x, s>> \in Link /\ <<x, s>>[1] = x /\ owner[x] \notin {"unallocated", "free"}
      BY DEF Link, Usable, Live, On
    <3> QED
      BY <1>1, <2>1, <3>1, LinkedIsCounted
  <2>2. ASSUME NEW c \in Cell
        PROVE  (IF c = link[<<x, s>>] THEN 1 ELSE 0) <= Retained(y)[c]
    BY <1>1, <2>1 DEF TypeOK, Retained
  <2>3. ASSUME NEW c \in Cell PROVE Retained(y)[c] \in Nat
    BY <1>1 DEF TypeOK, Retained
  <2> QED
    BY <2>2, <2>3 DEF AssertStaleLink
<1>6. ASSUME NEW x \in Cell, x \in Live
      PROVE  AssertStaleLink(owner, refcount, [c \in Cell |-> Cardinality(LinksBetween(link, x, c))])
  <2>1. ASSUME NEW c \in Cell
        PROVE  /\ Cardinality(LinksBetween(link, x, c)) <= refcount[c]
               /\ Cardinality(LinksBetween(link, x, c)) \in Nat
               /\ refcount[c] \in Nat
    <3>1. Cardinality(LinksBetween(link, x, c)) <= Cardinality(LinksTo(link, Live, c))
      BY <1>6, CountWithout
    <3>2. Cardinality(LinksBetween(link, x, c)) \in Nat
      BY CountIsNat DEF LinksBetween
    <3> QED
      BY <1>1, <3>1, <3>2 DEF TypeOK, RefExact
  <2> QED
    BY <2>1 DEF AssertStaleLink
<1>7. UnreferencedIsNotLive
  <2>1. ASSUME NEW x \in Cell, FreedNext(x) PROVE x \in Live
    BY <1>2, <2>1 DEF FreedNext, Live, On
  <2> QED
    BY <1>6, <2>1 DEF UnreferencedIsNotLive
<1>8. ASSUME NEW x \in On({"free_pending"}) PROVE x \notin locked /\ refcount[x] = 0
  BY <1>1, <1>3 DEF On, UnlinkedIsDying
<1>9. ASSUME NEW x \in On({"boundary"}) PROVE x \notin locked /\ refcount[x] # 0
  BY <1>1, <1>3 DEF On, UnlinkedIsDying, Roots, Dying
<1>10. ASSUME NEW x \in On({"boundary", "roots_unproc"}) PROVE AssertLinked(x)
  <2>1. ASSUME NEW e \in Link, e[1] = x, link[e] # NULL
        PROVE  link[e] \notin Dying /\ refcount[link[e]] # 0
    <3>1. x \in Cell /\ owner[x] \in {"boundary", "roots_unproc"}
      BY DEF On
    <3>2. link[e] \in Cell /\ refcount[link[e]] # 0
      BY <1>1, <2>1, <3>1, LinkedIsCounted
    <3>3. e \notin Dangling
      BY <1>1, <1>2, <2>1, <3>1 DEF SweepInv
    <3>4. link[e] \in Live
      BY <2>1, <3>1, <3>2, <3>3 DEF Dangling, Live, On
    <3> QED
      BY <1>1, <3>2, <3>4 DEF UnlinkedIsDying, Live, Dying, On
  <2> QED
    BY <2>1 DEF AssertLinked, Targets, LinksOf
<1>11. \A c \in On({"free"}) : c \notin locked
  BY <1>3 DEF On
<1>12. \A x \in On({unproc_listref}) : x \notin locked
  BY <1>2, <1>3 DEF On
<1> QED
  BY <1>4, <1>5, <1>7, <1>8, <1>9, <1>10, <1>11, <1>12 DEF AssertionsHold

(* No assertion of memory.c fails, and no operation meets freed memory.    *)
THEOREM AssertionsCorrect == AssertReuse => (Spec => []AssertionsHold)
<1> SUFFICES ASSUME AssertReuse PROVE Spec => []AssertionsHold
  OBVIOUS
<1> QED
  BY AssertionsFollow, BookkeepingCorrect, PTL

-----------------------------------------------------------------------------
(* The life cycle.  While the colours stay, a cell's name moves with the   *)
(* list that it is on.                                                     *)
LEMMA Arrows ==
    ASSUME TypeOK, NEW c \in Cell, owner'[c] \in Lists,
           reachable_listref' = reachable_listref,
           \/ owner'[c] = owner[c]
           \/ /\ owner'[c] = "boundary"
              /\ owner[c] \in {"roots_unproc", "roots_proc", unproc_listref}
           \/ /\ owner'[c] = "free_pending"
              /\ owner[c] \notin {"unallocated", "free"}
           \/ /\ owner'[c] = "free"
              /\ owner[c] \in {"free_pending", unproc_listref}
           \/ owner'[c] = reachable_listref /\ owner[c] = "boundary"
           \/ owner'[c] = "roots_proc" /\ owner[c] = "roots_unproc"
           \/ owner'[c] = "roots_unproc" /\ owner[c] \in {"unallocated", "free"}
    PROVE  Follows(DocumentedArrows, c)
<1>1. owner[c] \in Lists /\ reachable_listref \in {"white", "black"}
  BY DEF TypeOK
<1>2. NameBefore(c) = StateName(owner[c], reachable_listref)
  BY DEF NameBefore
<1>3. NameAfter(c) = StateName(owner'[c], reachable_listref')
  BY DEF NameAfter, StateName, OtherList
<1> QED
  BY <1>1, <1>2, <1>3
     DEF Follows, DocumentedArrows, StateName, OtherList, unproc_listref, Lists

LEMMA FreeArrows ==
    ASSUME Bookkeeping, TypeOK', NEW x \in Cell, FreeCell(x),
           owner[x] \in {"free_pending", unproc_listref}, NEW c \in Cell
    PROVE  Follows(DocumentedArrows, c)
<1>1. TypeOK /\ UnlinkedIsDying /\ owner'[c] \in Lists
  BY DEF Bookkeeping, TypeOK
<1>2. reachable_listref' = reachable_listref /\ owner'[x] = "free"
  BY <1>1, FreeCellMoves
<1>3. c # x => \/ owner'[c] = owner[c]
               \/ owner'[c] = "free_pending" /\ owner[c] # "free" /\ refcount[c] # 0
  BY <1>1, FreeCellMoves
<1>4. refcount[c] # 0 => owner[c] # "unallocated"
  BY <1>1 DEF UnlinkedIsDying
<1> QED
  BY <1>1, <1>2, <1>3, <1>4, Arrows

(* Memory moves along the arrows of the README only, or onto the roots     *)
(* when it is locked.                                                      *)
THEOREM LifeCycleCorrect == AssertReuse => (Spec => LifeCycle)
<1> SUFFICES ASSUME AssertReuse PROVE Spec => LifeCycle
  OBVIOUS
<1> DEFINE Moves(c) == \/ Follows(DocumentedArrows, c)
                       \/ c \in locked' \ locked /\ NameAfter(c) = "root"
<1>1. ASSUME Bookkeeping, [Next]_vars, NEW c \in Cell PROVE Moves(c)
  <2>1. TypeOK /\ UnlinkedIsDying /\ LockedAreRoots
    BY <1>1 DEF Bookkeeping
  <2>2. TypeOK'
    BY <1>1, <2>1, TypeStep
  <2>3. owner[c] \in Lists /\ owner'[c] \in Lists /\ owner \in [Cell -> Lists]
    BY <2>1, <2>2 DEF TypeOK
  <2>4. ASSUME NEW x \in Cell, MemoryRequest(x) PROVE Moves(c)
    <3>1. reachable_listref' = reachable_listref
      BY <2>4 DEF MemoryRequest
    <3>2. \/ owner'[c] = owner[c]
          \/ owner'[c] = "roots_unproc" /\ owner[c] \in {"unallocated", "free"}
      BY <2>3, <2>4 DEF MemoryRequest
    <3> QED
      BY <2>1, <2>3, <3>1, <3>2, Arrows
  <2>5. ASSUME NEW x \in Cell, NEW s \in Slot, NEW y \in Cell \cup {NULL}, PatchLink(x, s, y)
        PROVE  Moves(c)
    <3>1. reachable_listref' = reachable_listref /\ y \notin Dying
      BY <2>1, <2>5, PatchRest
    <3>2. \/ owner'[c] = owner[c] /\ (c = y => owner[c] # unproc_listref)
          \/ c = y /\ owner[c] = unproc_listref /\ owner'[c] = "boundary"
          \/ /\ c = link[<<x, s>>]
             /\ owner'[c] = "free_pending"
             /\ c \notin locked
             /\ owner[c] # "free"
             /\ c # y => refcount[c] # 0
             /\ refcount'[c] = 0
      BY <2>1, <2>5, PatchOwner
    <3>3. c = y => owner[c] # "unallocated"
      BY <3>1 DEF Dying, On
    <3>4. refcount[c] # 0 => owner[c] # "unallocated"
      BY <2>1 DEF UnlinkedIsDying
    <3> QED
      BY <2>1, <2>3, <3>1, <3>2, <3>3, <3>4, Arrows
  <2>6. ASSUME NEW x \in Cell, GcLock(x) PROVE Moves(c)
    <3>1. CASE owner'[c] = owner[c]
      <4>1. reachable_listref' = reachable_listref
        BY <2>6 DEF GcLock
      <4> QED
        BY <2>1, <2>3, <3>1, <4>1, Arrows
    <3>2. CASE owner'[c] # owner[c]
      <4>1. c = x /\ c \notin Roots /\ owner'[c] = "roots_unproc" /\ c \in locked'
        BY <2>3, <2>6, <3>2 DEF GcLock
      <4>2. c \notin locked
        BY <2>1, <4>1 DEF LockedAreRoots
      <4>3. NameAfter(c) = StateName(owner'[c], reachable_listref')
        BY DEF NameAfter, StateName, OtherList
      <4>4. reachable_listref' \in {"white", "black"}
        BY <2>2 DEF TypeOK
      <4>5. NameAfter(c) = "root"
        BY <4>1, <4>3, <4>4 DEF StateName, OtherList
      <4> QED
        BY <4>1, <4>2, <4>5
    <3> QED
      BY <3>1, <3>2
  <2>7. ASSUME NEW x \in Cell, GcUnlock(x) PROVE Moves(c)
    <3>1. reachable_listref' = reachable_listref
      BY <2>7 DEF GcUnlock
    <3>2. \/ owner'[c] = owner[c]
          \/ owner'[c] \in {"boundary", "free_pending"} /\ owner[c] \in {"roots_unproc", "roots_proc"}
      BY <2>3, <2>7 DEF GcUnlock, Roots, On
    <3> QED
      BY <2>1, <2>3, <3>1, <3>2, Arrows
  <2>8. ASSUME NEW x \in Cell, IterateFreePending(x) \/ IterateUnproc(x) PROVE Moves(c)
    <3>1. FreeCell(x) /\ owner[x] \in {"free_pending", unproc_listref}
      BY <2>8 DEF IterateFreePending, IterateUnproc
    <3> QED
      BY <1>1, <2>2, <3>1, FreeArrows
  <2>9. ASSUME NEW x \in Cell, IterateBoundary(x) \/ IterateRoot(x) PROVE Moves(c)
    <3>1. reachable_listref' = reachable_listref
      BY <2>9 DEF IterateBoundary, IterateRoot, TraceCell
    <3>2. \/ owner'[c] = owner[c]
          \/ /\ owner'[c] = "boundary"
             /\ owner[c] \in {"roots_unproc", "roots_proc", unproc_listref}
          \/ owner'[c] = reachable_listref /\ owner[c] = "boundary"
          \/ owner'[c] = "roots_proc" /\ owner[c] = "roots_unproc"
      BY <2>9 DEF IterateBoundary, IterateRoot, TraceCell, Roots, On
    <3> QED
      BY <2>1, <2>3, <3>1, <3>2, Arrows
  <2>10. CASE IterateReset
    <3>1. reachable_listref' = unproc_listref /\ owner[c] # unproc_listref
      BY <2>10 DEF IterateReset, On
    <3>2. owner'[c] = IF owner[c] = "roots_proc" THEN "roots_unproc" ELSE owner[c]
      BY <2>10 DEF IterateReset
    <3>3. reachable_listref \in {"white", "black"}
      BY <2>1 DEF TypeOK
    <3>4. NameBefore(c) = StateName(owner[c], reachable_listref)
      BY DEF NameBefore
    <3>5. NameAfter(c) = StateName(owner'[c], reachable_listref')
      BY DEF NameAfter, StateName, OtherList
    <3> QED
      BY <2>3, <3>1, <3>2, <3>3, <3>4, <3>5
         DEF Follows, DocumentedArrows, StateName, OtherList, unproc_listref, Lists
  <2>11. CASE UNCHANGED vars
    <3>1. owner'[c] = owner[c] /\ reachable_listref' = reachable_listref
      BY <2>11 DEF vars
    <3> QED
      BY <2>1, <2>3, <3>1, Arrows
  <2> QED
    BY <1>1, <2>4, <2>5, <2>6, <2>7, <2>8, <2>9, <2>10, <2>11
       DEF Next, Client, Iterate, IterateSkip
<1>2. Bookkeeping /\ [Next]_vars => [\A c \in Cell : Moves(c)]_vars
  BY <1>1
<1> HIDE DEF Moves
<1>3. Spec => [][\A c \in Cell : Moves(c)]_vars
  BY <1>2, BookkeepingCorrect, PTL DEF Spec
<1> QED
  BY <1>3 DEF LifeCycle, Moves

-----------------------------------------------------------------------------
(* The collector makes progress.                                           *)

(* Memory that was never allocated is not counted, in both builds.         *)
UnusedIsUncounted == \A c \in Cell : owner[c] = "unallocated" => refcount[c] = 0

LEMMA UnusedStep == TypeOK /\ UnusedIsUncounted /\ [Next]_vars => UnusedIsUncounted'
<1> SUFFICES ASSUME TypeOK, UnusedIsUncounted, [Next]_vars PROVE UnusedIsUncounted'
  OBVIOUS
<1> USE DEF UnusedIsUncounted, On
<1>1. ASSUME NEW c \in Cell, MemoryRequest(c) PROVE UnusedIsUncounted'
  BY <1>1 DEF MemoryRequest, TypeOK
<1>2. ASSUME NEW c \in Cell, GcLock(c) \/ GcUnlock(c) PROVE UnusedIsUncounted'
  BY <1>2 DEF GcLock, GcUnlock, TypeOK
<1>3. ASSUME NEW x \in Cell, NEW s \in Slot, NEW y \in Cell \cup {NULL}, PatchLink(x, s, y)
      PROVE  UnusedIsUncounted'
  <2> SUFFICES ASSUME NEW c \in Cell, owner'[c] = "unallocated" PROVE refcount'[c] = 0
    OBVIOUS
  <2> DEFINE lost == [d \in Cell |-> IF d = link[<<x, s>>] THEN 1 ELSE 0]
  <2>1. owner[c] = "unallocated" /\ refcount[c] = 0
    BY <1>3, PatchOwner
  <2>2. c # y
    BY <1>3, <2>1, PatchRest DEF Dying
  <2>3. refcount' = Released(Retained(y), lost)
    BY <1>3 DEF PatchLink
  <2>4. Retained(y)[c] = 0
    BY <2>1, <2>2 DEF Retained
  <2>5. lost[c] \in {0, 1}
    OBVIOUS
  <2> HIDE DEF lost
  <2> QED
    BY <2>3, <2>4, <2>5 DEF Released
<1>4. ASSUME NEW x \in Cell, FreeCell(x) PROVE UnusedIsUncounted'
  BY <1>4, FreeCellMoves
<1>5. ASSUME NEW x \in Cell, NEW l \in {reachable_listref, "roots_proc"}, TraceCell(x, l)
      PROVE  UnusedIsUncounted'
  BY <1>5 DEF TraceCell, TypeOK
<1>6. CASE IterateReset \/ UNCHANGED vars
  BY <1>6 DEF IterateReset, vars
<1> QED
  BY <1>1, <1>2, <1>3, <1>4, <1>5, <1>6
     DEF Next, Client, Iterate, IterateFreePending, IterateBoundary, IterateRoot, IterateUnproc, IterateSkip

(* Freeing takes the cell that is freed out of use, and nothing else.      *)
LEMMA FreeingFrees ==
    ASSUME TypeOK, UnusedIsUncounted, NEW x \in Cell, FreeCell(x)
    PROVE  Live' = Live \ {x}
<1>1. ASSUME NEW c \in Cell PROVE c \in Live' <=> c \in Live \ {x}
  <2>1. CASE c = x
    <3>1. owner'[x] = "free"
      BY FreeCellMoves
    <3> QED
      BY <2>1, <3>1 DEF Live, On
  <2>2. CASE c # x
    <3>1. \/ owner'[c] = owner[c]
          \/ owner'[c] = "free_pending" /\ owner[c] # "free" /\ refcount[c] # 0
      BY <2>2, FreeCellMoves
    <3> QED
      BY <2>2, <3>1 DEF UnusedIsUncounted, Live, On
  <2> QED
    BY <2>1, <2>2
<1> QED
  BY <1>1 DEF Live

(* What is put off until the next cycle weighs less than a cycle.          *)
LEMMA CyclesWeighMore ==
    ASSUME NEW k \in Nat, NEW a \in Int, NEW b \in Int, NEW t \in 0..k - 1, NEW u \in Nat, a < b
    PROVE  k * a + t < k * b + u
<1>1. k * (b - a) >= k
  BY b - a >= 1
<1>2. k * (b - a) = k * b - k * a
  OBVIOUS
<1>3. k * a \in Int /\ k * b \in Int
  OBVIOUS
<1> QED
  BY <1>1, <1>2, <1>3

LEMMA OnCounts ==
    ASSUME NEW l
    PROVE  IsFiniteSet(On(l)) /\ Cardinality(On(l)) \in 0..Cardinality(Cell)
<1>1. On(l) \in SUBSET Cell
  BY DEF On
<1>2. IsFiniteSet(On(l)) /\ Cardinality(On(l)) <= Cardinality(Cell)
  BY <1>1, CellAssumption, FS_Subset
<1> QED
  BY <1>2, CellAssumption, FS_CardinalityType

LEMMA LiveCounts == IsFiniteSet(Live) /\ Cardinality(Live) \in 0..Cardinality(Cell)
<1>1. Live \in SUBSET Cell
  BY DEF Live
<1>2. IsFiniteSet(Live) /\ Cardinality(Live) <= Cardinality(Cell)
  BY <1>1, CellAssumption, FS_Subset
<1> QED
  BY <1>2, CellAssumption, FS_CardinalityType

LEMMA ToTraceFits == ToTrace \in 0..Cycle - 1
<1>1. Cardinality(Cell) \in Nat
  BY CellAssumption, FS_CardinalityType
<1>2. /\ Cardinality(On({"roots_unproc"})) \in 0..Cardinality(Cell)
      /\ Cardinality(On({"roots_unproc", "roots_proc", unproc_listref})) \in 0..Cardinality(Cell)
      /\ Cardinality(On({"roots_unproc", "roots_proc", unproc_listref, "boundary"})) \in 0..Cardinality(Cell)
  BY OnCounts
<1> QED
  BY <1>1, <1>2 DEF ToTrace, Cycle

(* What is left to do is a number, and never more than this.               *)
LEMMA WorkFits == TypeOK => Work \in 0..MostWork
<1> SUFFICES ASSUME TypeOK PROVE Work \in 0..MostWork
  OBVIOUS
<1> DEFINE n == Cardinality(Cell)
           k == Cycle
           m == 3 * Cardinality(Live) + 2 - clean_cycles
<1>1. n \in Nat
  BY CellAssumption, FS_CardinalityType
<1>2. k \in Nat /\ ToTrace \in 0..k - 1
  BY <1>1, ToTraceFits DEF Cycle
<1>3. m \in 0..3 * n + 2
  BY <1>1, LiveCounts DEF TypeOK
<1>4. Work = k * m + ToTrace /\ MostWork = k * (3 * n + 3)
  BY DEF Work, MostWork
<1> HIDE DEF n, k, m
<1>5. k * m + ToTrace < k * (3 * n + 3) + 0
  BY <1>1, <1>2, <1>3, CyclesWeighMore
<1>6. k * m >= 0 /\ k * m \in Int /\ k * (3 * n + 3) \in Int
  BY <1>1, <1>2, <1>3
<1> QED
  BY <1>2, <1>4, <1>5, <1>6

(* Fewer are to trace when no cell is moved back and one has moved on.     *)
LEMMA TracingAdvances ==
    ASSUME NEW A, NEW B, IsFiniteSet(A), B \subseteq A
    PROVE  /\ Cardinality(A) \in Nat /\ Cardinality(B) \in Nat
           /\ Cardinality(B) <= Cardinality(A)
           /\ B # A => Cardinality(B) < Cardinality(A)
<1>1. IsFiniteSet(B) /\ Cardinality(B) <= Cardinality(A) /\ (Cardinality(A) = Cardinality(B) => A = B)
  BY FS_Subset
<1> QED
  BY <1>1, FS_CardinalityType

LEMMA CountsNext ==
    /\ Cardinality(Live)' \in 0..Cardinality(Cell)
    /\ ToTrace' \in 0..Cycle - 1
<1>1. (IsFiniteSet(Live) /\ Cardinality(Live) \in 0..Cardinality(Cell))'
  BY LiveCounts, PTL
<1>2. (ToTrace \in 0..Cycle - 1)'
  BY ToTraceFits, PTL
<1> QED
  BY <1>1, <1>2

LEMMA SumsCompare ==
    ASSUME NEW m \in Int, NEW t \in Int, NEW u \in Int, u < t
    PROVE  m + u < m + t
OBVIOUS

LEMMA TraceAdvances ==
    ASSUME TypeOK, NEW x \in Cell, NEW l, TraceCell(x, l),
           \/ owner[x] = "boundary" /\ l = reachable_listref
           \/ owner[x] = "roots_unproc" /\ l = "roots_proc"
    PROVE  Work' < Work
<1> DEFINE A == On({"roots_unproc"})
           B == On({"roots_unproc", "roots_proc", unproc_listref})
           C == On({"roots_unproc", "roots_proc", unproc_listref, "boundary"})
<1>1. /\ unproc_listref' = unproc_listref
      /\ reachable_listref # unproc_listref
      /\ {reachable_listref, unproc_listref} = {"white", "black"}
  BY DEF TraceCell, TypeOK, unproc_listref, OtherList
<1>2. /\ owner'[x] = l
      /\ \A c \in Cell \ {x} : \/ owner'[c] = owner[c]
                               \/ owner'[c] = "boundary" /\ c \in C
  BY DEF TraceCell, Roots, On
<1>3. A' \subseteq A /\ B' \subseteq B /\ C' \subseteq C
  BY <1>1, <1>2 DEF On
<1>4. A' # A \/ C' # C
  BY <1>1, <1>2 DEF On
<1>5. Live' = Live /\ clean_cycles' = clean_cycles
  BY <1>1, <1>2 DEF Live, On, TraceCell
<1>6. ToTrace' < ToTrace
  <2>1. IsFiniteSet(A) /\ IsFiniteSet(B) /\ IsFiniteSet(C)
    BY OnCounts
  <2>2. /\ ToTrace = Cardinality(A) + Cardinality(B) + Cardinality(C)
        /\ ToTrace' = Cardinality(A') + Cardinality(B') + Cardinality(C')
    BY DEF ToTrace
  <2>3. /\ Cardinality(A) \in Nat /\ Cardinality(A') \in Nat /\ Cardinality(A') <= Cardinality(A)
        /\ A' # A => Cardinality(A') < Cardinality(A)
    BY <1>3, <2>1, TracingAdvances
  <2>4. Cardinality(B) \in Nat /\ Cardinality(B') \in Nat /\ Cardinality(B') <= Cardinality(B)
    BY <1>3, <2>1, TracingAdvances
  <2>5. /\ Cardinality(C) \in Nat /\ Cardinality(C') \in Nat /\ Cardinality(C') <= Cardinality(C)
        /\ C' # C => Cardinality(C') < Cardinality(C)
    BY <1>3, <2>1, TracingAdvances
  <2> HIDE DEF A, B, C
  <2> QED
    BY <1>4, <2>2, <2>3, <2>4, <2>5
<1> DEFINE m == Cycle * (3 * Cardinality(Live) + 2 - clean_cycles)
<1>7. Work = m + ToTrace /\ Work' = m + ToTrace'
  BY <1>5 DEF Work
<1>8. m \in Int
  <2>1. Cycle \in Int
    BY CellAssumption, FS_CardinalityType DEF Cycle
  <2>2. 3 * Cardinality(Live) + 2 - clean_cycles \in Int
    BY LiveCounts, CellAssumption, FS_CardinalityType DEF TypeOK
  <2> QED
    BY <2>1, <2>2
<1>9. ToTrace \in Int /\ ToTrace' \in Int
  <2>1. ToTrace \in Int
    BY ToTraceFits, CellAssumption, FS_CardinalityType DEF Cycle
  <2>2. ToTrace' \in Int
    BY CountsNext, CellAssumption, FS_CardinalityType DEF Cycle
  <2> QED
    BY <2>1, <2>2
<1> HIDE DEF m
<1>10. m + ToTrace' < m + ToTrace
  BY <1>6, <1>8, <1>9, SumsCompare
<1> QED
  BY <1>7, <1>10

(* A cell that goes, or a cycle that ends, outweighs all the tracing that  *)
(* is due again.                                                           *)
LEMMA CycleAdvances ==
    ASSUME TypeOK, TypeOK',
           3 * Cardinality(Live)' - clean_cycles' < 3 * Cardinality(Live) - clean_cycles
    PROVE  Work' < Work
<1> DEFINE k == Cycle
           a == 3 * Cardinality(Live)' + 2 - clean_cycles'
           b == 3 * Cardinality(Live) + 2 - clean_cycles
<1>1. k \in Nat
  BY CellAssumption, FS_CardinalityType DEF Cycle
<1>2. a \in Int /\ b \in Int /\ a < b
  <2>1. Cardinality(Live) \in Nat /\ Cardinality(Live)' \in Nat
    <3>1. Cardinality(Live) \in Nat
      BY LiveCounts, CellAssumption, FS_CardinalityType
    <3>2. Cardinality(Live)' \in Nat
      BY CountsNext, CellAssumption, FS_CardinalityType
    <3> QED
      BY <3>1, <3>2
  <2> QED
    BY <2>1 DEF TypeOK
<1>3. ToTrace' \in 0..k - 1 /\ ToTrace \in Nat
  <2>1. ToTrace' \in 0..k - 1
    BY CountsNext
  <2>2. ToTrace \in Nat
    BY ToTraceFits, <1>1
  <2> QED
    BY <2>1, <2>2
<1>4. Work = k * b + ToTrace /\ Work' = k * a + ToTrace'
  BY DEF Work
<1> HIDE DEF k, a, b
<1> QED
  BY <1>1, <1>2, <1>3, <1>4, CyclesWeighMore

LEMMA FreeAdvances ==
    ASSUME TypeOK, TypeOK', UnusedIsUncounted, NEW x \in Live, FreeCell(x)
    PROVE  Work' < Work
<1>1. Live' = Live \ {x} /\ x \in Cell
  BY FreeingFrees DEF Live
<1>2. Cardinality(Live)' = Cardinality(Live) - 1 /\ Cardinality(Live) \in Nat
  BY <1>1, LiveCounts, CellAssumption, FS_CardinalityType, FS_RemoveElement
<1> QED
  BY <1>2, CycleAdvances DEF TypeOK

LEMMA IterateAdvances ==
    ASSUME TypeOK, TypeOK', UnusedIsUncounted, Iterate
    PROVE  Work' < Work \/ (~Collecting /\ UNCHANGED vars)
<1>0. unproc_listref \in {"white", "black"} /\ reachable_listref \in {"white", "black"}
  BY DEF TypeOK, unproc_listref, OtherList
<1>1. ASSUME NEW x \in Cell, IterateFreePending(x) \/ IterateUnproc(x) PROVE Work' < Work
  <2>1. FreeCell(x) /\ x \in Live
    BY <1>0, <1>1 DEF IterateFreePending, IterateUnproc, Live, On
  <2> QED
    BY <2>1, FreeAdvances
<1>2. ASSUME NEW x \in Cell, IterateBoundary(x) \/ IterateRoot(x) PROVE Work' < Work
  BY <1>2, TraceAdvances DEF IterateBoundary, IterateRoot
<1>3. CASE IterateReset
  <2>1. Live' = Live /\ clean_cycles' = clean_cycles + 1
    BY <1>3 DEF IterateReset, Live, On
  <2>2. Cardinality(Live)' = Cardinality(Live) /\ Cardinality(Live) \in Nat
    BY <2>1, LiveCounts, CellAssumption, FS_CardinalityType
  <2> QED
    BY <2>1, <2>2, CycleAdvances DEF TypeOK
<1> QED
  BY <1>1, <1>2, <1>3 DEF Iterate, IterateSkip

(* What the collector has to do is never more than so much, and less with  *)
(* every iteration that does anything: if the client leaves it alone it    *)
(* comes to rest, after at most as many iterations (memory.c:552-685).     *)
THEOREM CollectorCorrect == Spec => [](Work \in 0..MostWork) /\ CollectorAdvances
<1>1. Init => UnusedIsUncounted
  BY DEF Init, UnusedIsUncounted
<1>2. TypeOK /\ UnusedIsUncounted /\ [Next]_vars => UnusedIsUncounted'
  BY UnusedStep
<1>3. TypeOK /\ TypeOK' /\ UnusedIsUncounted /\ [Next]_vars => [Iterate => Work' < Work]_vars
  BY IterateAdvances
<1> QED
  BY <1>1, <1>2, <1>3, TypeCorrect, WorkFits, PTL DEF Spec, CollectorAdvances
=============================================================================
