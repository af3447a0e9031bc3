------------------------------- MODULE Memory -------------------------------
(***************************************************************************)
(* The memory manager of paren (memory.c, memory.h): reference counts free *)
(* most memory at once, an incremental trace frees the rest.               *)
(*                                                                         *)
(* A cell is on one list at a time; `owner` is the list its header names   *)
(* (dlnode_owner).  The list heads' order is left out: where the code      *)
(* takes the first cell of a list, an action takes any cell of it.         *)
(* roots_list is one list cut in two by root_sentinel: the cells before it *)
(* are still to be processed in this cycle ("roots_unproc"), those after   *)
(* it have been ("roots_proc").                                            *)
(*                                                                         *)
(* The program is built with assertions on, so a step in which an assert   *)
(* of the code would fail is a step it does not take: the conditions named *)
(* Assert... are conjuncts of the actions, and that they always hold is an *)
(* invariant stated at the end.                                            *)
(***************************************************************************)
EXTENDS HeapGraph, Integers

CONSTANT AssertReuse   \* is the assertion commented out at memory.c:317 enabled?

ASSUME AssertReuseAssumption == AssertReuse \in BOOLEAN

VARIABLES
    owner,              \* the list every cell is on
    reachable_listref,  \* which of white_list and black_list collects the
                        \* cells reached in this cycle
    refcount,           \* memcell_t.refcount
    locked,             \* the cells with mc_flags.locked
    link,               \* the client's data: what every slot holds
    clean_cycles        \* full cycles since a link or a lock last went away

vars == <<owner, reachable_listref, refcount, locked, link, clean_cycles>>

Lists == {"unallocated", "free", "free_pending", "roots_unproc", "roots_proc",
          "boundary", "white", "black"}

OtherList(l) == IF l = "white" THEN "black" ELSE "white"
unproc_listref == OtherList(reachable_listref)

On(lists) == {c \in Cell : owner[c] \in lists}

Roots == On({"roots_unproc", "roots_proc"})
Live  == Cell \ On({"unallocated", "free"})             \* mc_flags.live
Dying == On({"unallocated", "free", "free_pending"})

(* What the client may use: the cells it has locked, the cells it was just *)
(* given and has not linked yet, and everything these reach.               *)
Held == locked \cup {c \in Roots : refcount[c] = 0}
Accessible == Reachable(link, Held)
Usable == Accessible \cap Live

TypeOK ==
    /\ owner \in [Cell -> Lists]
    /\ reachable_listref \in {"white", "black"}
    /\ refcount \in [Cell -> Nat]
    /\ locked \in SUBSET Cell
    /\ link \in Heap
    /\ clean_cycles \in 0..2

Init ==
    /\ owner = [c \in Cell |-> "unallocated"]
    /\ reachable_listref = "white"
    /\ refcount = [c \in Cell |-> 0]
    /\ locked = {}
    /\ link = [e \in Link |-> NULL]
    /\ clean_cycles = 0

-----------------------------------------------------------------------------
(* Advice about links.  memory_gc_advise_new_link counts a link and pulls  *)
(* its target out of the unprocessed list; memory_gc_advise_stale_link     *)
(* drops a count and hands a cell that has none left to free_pending.      *)

AssertNewLink(y) == y # NULL => y \notin Dying

Retained(y) == [c \in Cell |-> IF c = y THEN refcount[c] + 1 ELSE refcount[c]]
Shaded_EvenReached(y) ==                                 \* mutant: colours reached cells too
    [c \in Cell |-> IF c = y /\ c \notin Roots THEN "boundary" ELSE owner[c]]
Shaded(y) ==
    [c \in Cell |-> IF c = y /\ owner[c] = unproc_listref THEN "boundary" ELSE owner[c]]

(* lost[c] calls of memory_gc_advise_stale_link for every c, in a state    *)
(* with the counts rc and the owners ow.                                   *)
Released(rc, lost) ==
    [c \in Cell |-> IF rc[c] > lost[c] THEN rc[c] - lost[c] ELSE 0]

DropsToZero(rc, lost, c) == rc[c] # 0 /\ rc[c] <= lost[c]

Unlinked_EvenLocked(ow, rc, lost) ==                     \* mutant: the lock is not looked at
    [c \in Cell |-> IF DropsToZero(rc, lost, c) /\ ow[c] # "free" THEN "free_pending" ELSE ow[c]]
Unlinked(ow, rc, lost) ==
    [c \in Cell |-> IF DropsToZero(rc, lost, c) /\ c \notin locked /\ ow[c] # "free"
                    THEN "free_pending" ELSE ow[c]]

(* "unreferenced nodes shouldn't be live": a call that finds the count at  *)
(* zero must find the cell on its way out.                                 *)
AssertStaleLink(ow, rc, lost) ==
    \A c \in Cell : lost[c] > rc[c] =>
        Unlinked(ow, rc, lost)[c] \in {"free_pending", "free"}

-----------------------------------------------------------------------------
(* The client's operations.                                                *)

(* A cell of the free list is reused before new memory is asked for; its   *)
(* slots are cleared by the init callback, its count is set to zero, and   *)
(* it becomes an unlocked root.                                            *)
MemoryRequest(c) ==
    /\ owner[c] = IF On({"free"}) # {} THEN "free" ELSE "unallocated"
    /\ c \notin locked
    /\ AssertReuse /\ owner[c] = "free" => refcount[c] = 0
    /\ owner' = [owner EXCEPT ![c] = "roots_unproc"]
    /\ refcount' = [refcount EXCEPT ![c] = 0]
    /\ link' = [e \in Link |-> IF e[1] = c THEN NULL ELSE link[e]]
    /\ UNCHANGED <<reachable_listref, locked, clean_cycles>>

PatchLink_ReleaseFirst(x, s, y) ==                       \* mutant: stale before new
    LET old == link[<<x, s>>]
        lost == [c \in Cell |-> IF c = old THEN 1 ELSE 0]
    IN  /\ x \in Usable
        /\ y \in Usable \cup {NULL}
        /\ link' = [link EXCEPT ![<<x, s>>] = y]
        /\ refcount' = [c \in Cell |-> Released(refcount, lost)[c] + (IF c = y THEN 1 ELSE 0)]
        /\ owner' = Unlinked(owner, refcount, lost)
        /\ clean_cycles' = IF old = NULL THEN clean_cycles ELSE 0
        /\ UNCHANGED <<reachable_listref, locked>>

(* The client sets slot s of x to y, which may be NULL: the new link is    *)
(* advised, stored, and then the old one is advised to be stale.           *)
PatchLink(x, s, y) ==
    LET old == link[<<x, s>>]
        lost == [c \in Cell |-> IF c = old THEN 1 ELSE 0]
    IN  /\ x \in Usable
        /\ y \in Usable \cup {NULL}
        /\ AssertNewLink(y)
        /\ AssertStaleLink(Shaded(y), Retained(y), lost)
        /\ link' = [link EXCEPT ![<<x, s>>] = y]
        /\ refcount' = Released(Retained(y), lost)
        /\ owner' = Unlinked(Shaded(y), Retained(y), lost)
        /\ clean_cycles' = IF old = NULL THEN clean_cycles ELSE 0
        /\ UNCHANGED <<reachable_listref, locked>>

(* A locked cell is a root until it is unlocked.                           *)
GcLock(c) ==
    /\ c \in Usable
    /\ locked' = locked \cup {c}
    /\ owner' = [owner EXCEPT ![c] = IF c \in Roots THEN @ ELSE "roots_unproc"]
    /\ UNCHANGED <<reachable_listref, refcount, link, clean_cycles>>

GcUnlock_KeepsClean(c) ==                                \* mutant: the collector stays idle
    /\ c \in Usable \cap Roots
    /\ locked' = locked \ {c}
    /\ owner' = [owner EXCEPT ![c] = IF refcount[c] # 0 THEN "boundary" ELSE "free_pending"]
    /\ UNCHANGED <<reachable_listref, refcount, link, clean_cycles>>

(* Unlocking a root, locked or not: what is linked is a boundary cell from *)
(* now on, what is not linked waits to be freed.                           *)
GcUnlock(c) ==
    /\ c \in Usable \cap Roots
    /\ locked' = locked \ {c}
    /\ owner' = [owner EXCEPT ![c] = IF refcount[c] # 0 THEN "boundary" ELSE "free_pending"]
    /\ clean_cycles' = 0
    /\ UNCHANGED <<reachable_listref, refcount, link>>

-----------------------------------------------------------------------------
(* memory_gc_iterate: one cell per call, the first list that is not empty. *)
(* With clean_cycles = 2 the call does nothing.                            *)

Collecting == clean_cycles # 2

(* Free x: the links it holds are advised to be stale, the cell goes to    *)
(* the free list.  Its slots keep what they hold until it is reused.       *)
FreeCell_Targets(x) ==                                   \* mutant: one advice per linked cell
    LET lost == [c \in Cell |-> IF c \in Targets(link, x) THEN 1 ELSE 0]
    IN  /\ AssertStaleLink(owner, refcount, lost)
        /\ refcount' = Released(refcount, lost)
        /\ owner' = [Unlinked(owner, refcount, lost) EXCEPT ![x] = "free"]
        /\ clean_cycles' = IF LinksOf(link, x) = {} THEN clean_cycles ELSE 0
        /\ UNCHANGED <<reachable_listref, locked, link>>
FreeCell(x) ==
    LET lost == [c \in Cell |-> Cardinality(LinksBetween(link, x, c))]
    IN  /\ AssertStaleLink(owner, refcount, lost)
        /\ refcount' = Released(refcount, lost)
        /\ owner' = [Unlinked(owner, refcount, lost) EXCEPT ![x] = "free"]
        /\ clean_cycles' = IF LinksOf(link, x) = {} THEN clean_cycles ELSE 0
        /\ UNCHANGED <<reachable_listref, locked, link>>

(* Move to the boundary what x links to, if it is unprocessed or a root    *)
(* that nobody locked, and put x itself on list l.                         *)
AssertLinked(x) == \A c \in Targets(link, x) : c \notin Dying /\ refcount[c] # 0

TraceCell_AnyColour(x, l) ==                             \* mutant: takes back what was reached
    /\ AssertLinked(x)
    /\ owner' = [c \in Cell |->
                    IF c = x THEN l
                    ELSE IF c \in Targets(link, x) \ locked THEN "boundary" ELSE owner[c]]
    /\ UNCHANGED <<reachable_listref, refcount, locked, link, clean_cycles>>
TraceCell(x, l) ==
    /\ AssertLinked(x)
    /\ owner' = [c \in Cell |->
                    IF c = x THEN l
                    ELSE IF /\ c \in Targets(link, x)
                            /\ owner[c] = unproc_listref \/ c \in Roots \ locked
                         THEN "boundary"
                         ELSE owner[c]]
    /\ UNCHANGED <<reachable_listref, refcount, locked, link, clean_cycles>>

IterateFreePending(x) ==
    /\ Collecting
    /\ owner[x] = "free_pending"
    /\ x \notin locked /\ refcount[x] = 0
    /\ FreeCell(x)

IterateBoundary(x) ==
    /\ Collecting
    /\ On({"free_pending"}) = {}
    /\ owner[x] = "boundary"
    /\ x \notin locked /\ refcount[x] # 0
    /\ TraceCell(x, reachable_listref)

IterateRoot(x) ==
    /\ Collecting
    /\ On({"free_pending", "boundary"}) = {}
    /\ owner[x] = "roots_unproc"
    /\ TraceCell(x, "roots_proc")

IterateUnproc_BeforeRoots(x) ==                          \* mutant: sweeps before the roots are traced
    /\ Collecting
    /\ On({"free_pending", "boundary"}) = {}
    /\ owner[x] = unproc_listref
    /\ x \notin locked
    /\ FreeCell(x)

(* Nothing is left to trace: what was not reached is freed.                *)
IterateUnproc(x) ==
    /\ Collecting
    /\ On({"free_pending", "boundary", "roots_unproc"}) = {}
    /\ owner[x] = unproc_listref
    /\ x \notin locked
    /\ FreeCell(x)

IterateReset_KeepsRoots ==                               \* mutant: the sentinel stays where it is
    /\ Collecting
    /\ On({"free_pending", "boundary", "roots_unproc", unproc_listref}) = {}
    /\ reachable_listref' = unproc_listref
    /\ clean_cycles' = clean_cycles + 1
    /\ UNCHANGED <<owner, refcount, locked, link>>

(* The end of a cycle: the sentinel goes behind the processed roots and    *)
(* the two colours change places.                                          *)
IterateReset ==
    /\ Collecting
    /\ On({"free_pending", "boundary", "roots_unproc", unproc_listref}) = {}
    /\ owner' = [c \in Cell |-> IF owner[c] = "roots_proc" THEN "roots_unproc" ELSE owner[c]]
    /\ reachable_listref' = unproc_listref
    /\ clean_cycles' = clean_cycles + 1
    /\ UNCHANGED <<refcount, locked, link>>

(* After two cycles in which nothing went away the call returns at once.   *)
IterateSkip == ~Collecting /\ UNCHANGED vars

Iterate ==
    \/ \E x \in Cell : \/ IterateFreePending(x)
                       \/ IterateBoundary(x)
                       \/ IterateRoot(x)
                       \/ IterateUnproc(x)
    \/ IterateReset
    \/ IterateSkip

Client ==
    \/ \E c \in Cell : MemoryRequest(c) \/ GcLock(c) \/ GcUnlock(c)
    \/ \E x \in Cell, s \in Slot, y \in Cell \cup {NULL} : PatchLink(x, s, y)

Next == Client \/ Iterate

Spec == Init /\ [][Next]_vars

-----------------------------------------------------------------------------
(* Locked memory is on the roots list, where nothing frees it              *)
(* ("locked nodes must stay in root list", memory.c:588, 610, 643).        *)
LockedAreRoots == locked \subseteq Roots

(* The tri-colour condition behind memory.c:433-442: a cell that has been  *)
(* processed in this cycle never links a cell that still looks unreached,  *)
(* whatever the client links and unlinks while the trace is under way.     *)
Processed == On({"roots_proc", reachable_listref})

TriColour ==
    \A e \in Link : e[1] \in Processed /\ link[e] # NULL => owner[link[e]] # unproc_listref

(* What the build with GC_REACHABILITY_VERIFICATION asserts before it      *)
(* frees unreached memory (memory.c:636-638): when the sweep starts, no    *)
(* root, locked or not, reaches what it is about to free.                  *)
Sweeping ==
    /\ Collecting
    /\ On({"free_pending", "boundary", "roots_unproc"}) = {}

SweepsUnreachable ==
    Sweeping => Reachable(link, Roots) \cap On({unproc_listref}) = {}

(* Memory on free_pending never waits while the collector is idle: every   *)
(* way onto that list starts the collector again (memory.c:409, 457).      *)
PendingWakesCollector == On({"free_pending"}) # {} => Collecting

(* A count is the number of links that live memory holds to the cell, and  *)
(* of links that memory already swept from under a garbage cycle still     *)
(* has pending: no advice is lost, none is given twice.                    *)
RefExact == \A c \in Cell : refcount[c] = Cardinality(LinksTo(link, Live, c))

(* Memory that is neither linked nor a root is on its way out, and only    *)
(* such memory is (memory.c:464-466, 590, 611).                            *)
UnlinkedIsDying ==
    \A c \in Cell :
        /\ refcount[c] = 0 => c \in Roots \cup Dying
        /\ owner[c] \in {"unallocated", "free_pending"} => refcount[c] = 0

(* Memory the client can get at is neither free nor about to be freed      *)
(* (README:107-109: free_pending memory "is thus not reachable").          *)
AccessibleIsAlive == Accessible \cap Dying = {}

(* "unreferenced nodes shouldn't be live" (memory.c:464-466): no advice of *)
(* a stale link that the collector can give next finds a cell in use whose *)
(* count is already zero.                                                  *)
FreedNext(x) == owner[x] = "free_pending" \/ (Sweeping /\ owner[x] = unproc_listref)

UnreferencedIsNotLive ==
    \A x \in Cell : FreedNext(x) =>
        AssertStaleLink(owner, refcount,
                        [c \in Cell |-> Cardinality(LinksBetween(link, x, c))])

(* No assertion of memory.c fails, whatever the client does next and       *)
(* whichever cell the collector takes next (the lines on the right).       *)
AssertionsHold ==
    /\ \A c \in On({"free"}) : c \notin locked                        \* 316
    /\ \A c \in Usable : AssertNewLink(c)                             \* 431, 432
    /\ \A x \in Usable, s \in Slot, y \in Usable \cup {NULL} :        \* 465
          AssertStaleLink(Shaded(y), Retained(y),
                          [c \in Cell |-> IF c = link[<<x, s>>] THEN 1 ELSE 0])
    /\ \A x \in On({"free_pending"}) : x \notin locked /\ refcount[x] = 0   \* 588, 590
    /\ \A x \in On({"boundary"}) : x \notin locked /\ refcount[x] # 0 \* 610, 611
    /\ \A x \in On({"boundary", "roots_unproc"}) : AssertLinked(x)    \* 519-522
    /\ Sweeping => \A x \in On({unproc_listref}) : x \notin locked    \* 643
    /\ UnreferencedIsNotLive                                         \* 465

(* The comment at memory.c:565: when the collector goes idle after two     *)
(* clean cycles, no garbage is left on the unprocessed list.               *)
IdleLeavesNoGarbage == ~Collecting => On({unproc_listref}) \subseteq Accessible

(* The part of the sweep that RefExact needs: what has been reached, or    *)
(* will be because it is a root or a boundary cell, does not link to freed *)
(* memory; and once some unreached memory does, none of what is reached    *)
(* links to unreached memory any more.                                     *)
Reached == On({"roots_unproc", "roots_proc", "boundary", reachable_listref})
Dangling == {e \in Link : e[1] \in Live /\ link[e] # NULL /\ link[e] \notin Live}

SweepInv ==
    /\ \A e \in Dangling : owner[e[1]] \in {unproc_listref, "free_pending"}
    /\ Dangling # {} =>
         \A e \in Link : e[1] \in Reached /\ link[e] # NULL => owner[link[e]] # unproc_listref

(* Together they are inductive when line 317 asserts.                      *)
Bookkeeping ==
    TypeOK /\ LockedAreRoots /\ TriColour /\ RefExact /\ UnlinkedIsDying /\ SweepInv

-----------------------------------------------------------------------------
(* What the collector has still to do.  In one cycle a cell is moved at    *)
(* most three times: to the processed roots, to the boundary if nobody has *)
(* locked it, and to what is reached.  A cell that is freed is worth the   *)
(* rest of the cycle and the two clean ones that may have to follow.       *)
ToTrace ==
    Cardinality(On({"roots_unproc"}))
    + Cardinality(On({"roots_unproc", "roots_proc", unproc_listref}))
    + Cardinality(On({"roots_unproc", "roots_proc", unproc_listref, "boundary"}))

Cycle == 3 * Cardinality(Cell) + 1
Work == Cycle * (3 * Cardinality(Live) + 2 - clean_cycles) + ToTrace
MostWork == Cycle * (3 * Cardinality(Cell) + 3)

(* Every iteration that does anything leaves less to do, whatever was      *)
(* linked, locked or freed before: the collector does not go round in      *)
(* circles, and comes to rest when the client leaves it alone.             *)
CollectorAdvances == [][Iterate => Work' < Work]_vars

-----------------------------------------------------------------------------
(* The life cycle of an allocation as the README draws it (119-130).       *)
StateName(o, reachable) ==
    CASE o \in {"roots_unproc", "roots_proc"} -> "root"
      [] o = reachable -> "reachable"
      [] o = OtherList(reachable) -> "unprocessed"
      [] OTHER -> o

DocumentedArrows ==
    {<<"unallocated", "root">>, <<"free", "root">>,
     <<"root", "boundary">>, <<"boundary", "reachable">>,
     <<"reachable", "unprocessed">>, <<"unprocessed", "boundary">>,
     <<"root", "free_pending">>, <<"boundary", "free_pending">>,
     <<"reachable", "free_pending">>, <<"unprocessed", "free_pending">>,
     <<"free_pending", "free">>, <<"unprocessed", "free">>}

NameBefore(c) == StateName(owner[c], reachable_listref)
NameAfter(c) == StateName(owner[c], reachable_listref)'

Follows(arrows, c) ==
    NameBefore(c) = NameAfter(c) \/ <<NameBefore(c), NameAfter(c)>> \in arrows

(* Every step moves every cell along an arrow of the README or, when the   *)
(* cell is locked by that step, onto the roots list: the README has only   *)
(* the arrows to the roots from memory that is not in use.                 *)
LifeCycle ==
    [][\A c \in Cell : \/ Follows(DocumentedArrows, c)
                       \/ c \in locked' \ locked /\ NameAfter(c) = "root"]_vars

-----------------------------------------------------------------------------
(* The memory manager keeps what ManagedHeap promises: every step is one   *)
(* of its steps or changes nothing it can see.  In particular no memory is *)
(* freed that the client can get at.                                       *)
Promise == INSTANCE ManagedHeap WITH used <- Live, held <- Held
KeepsPromise == Promise!Spec
=============================================================================
