----------------------------- MODULE MemoryLists -----------------------------
(***************************************************************************)
(* The memory manager on its lists: what Memory.tla says with sets of      *)
(* cells is done here as memory.c does it, on doubly linked lists with one *)
(* call after another, taking the first cell of a list and putting cells   *)
(* back at its end.  What Memory.tla leaves out is here: the order of the  *)
(* lists, the sentinel that cuts the roots in two, the finalizers, the     *)
(* counters, memory that runs out, and the reset at the end.               *)
(*                                                                         *)
(* ms is the memory state with the headers of its cells; a function of the *)
(* code is an operator from one ms to the next.  An assert that fails ends *)
(* the program: it leaves its line in ms.fault and the rest undone.        *)
(***************************************************************************)
EXTENDS HeapGraph, Naturals, SequencesExt

CONSTANTS
    SlotOrder,     \* the slots of a cell in the order of the link callback
    AssertReuse    \* is the assertion commented out at memory.c:317 enabled?

ASSUME SlotOrderAssumption ==
    /\ SlotOrder \in Seq(Slot) /\ ToSet(SlotOrder) = Slot
    /\ \A i, j \in DOMAIN SlotOrder : SlotOrder[i] = SlotOrder[j] => i = j
ASSUME AssertReuseAssumption == AssertReuse \in BOOLEAN

VARIABLES
    ms,      \* struct memory_state, the headers of the cells and, a history of
             \* them, how often the finalizer of what is in a cell has run
    link,    \* the client's data
    seen,    \* the list of every cell as Memory.tla has it, a function of ms
    quiet,   \* the client changes nothing any more
    phase    \* "running", "aborted" or, after memory_state_reset, "over"

vars == <<ms, link, seen, quiet, phase>>

Colors == {"white", "black"}
AllLists == {"free", "free_pending", "roots", "boundary"} \cup Colors
Sentinel == "root_sentinel"

INSTANCE Dlist WITH List <- AllLists, Item <- Cell \cup {Sentinel}
ASSUME NodesAssumption == NodesAreDistinct /\ Sentinel \notin Cell   \* it is in the state

OtherColor(l) == IF l = "white" THEN "black" ELSE "white"
Unproc(s) == OtherColor(s.reachable)

memory_state_init ==
    [dl |-> dlist_insertlast(dlist_init, "roots", Sentinel),
     reachable |-> "white",
     refcount |-> [c \in Cell |-> 0],
     locked |-> {}, live |-> {},
     fin |-> {}, finalized |-> [c \in Cell |-> 0],
     total_alloc |-> 0, total_free |-> 0, clean_cycles |-> 0,
     fault |-> "none"]

OwnerOf(s, c) == s.dl.owner[c]

(* Every cell as Memory.tla sees it.  The roots in front of the sentinel   *)
(* are still to be processed.                                              *)
Place(s, l, c) == LET w == Walk(s.dl, l) IN CHOOSE i \in DOMAIN w : w[i] = c

OwnerSeen(s) ==
    [c \in Cell |->
        CASE OwnerOf(s, c) = NULL -> "unallocated"
          [] OwnerOf(s, c) = "roots" ->
                IF Place(s, "roots", c) < Place(s, "roots", Sentinel) THEN "roots_unproc"
                                                                      ELSE "roots_proc"
          [] OTHER -> OwnerOf(s, c)]

Init ==
    /\ ms = memory_state_init
    /\ link = [e \in Link |-> NULL]
    /\ seen = OwnerSeen(ms)
    /\ quiet = FALSE
    /\ phase = "running"

-----------------------------------------------------------------------------
(* An operation of a list behind its asserts, and an assert by itself.     *)
Check(s, holds, line) ==
    IF s.fault = "none" /\ ~holds THEN [s EXCEPT !.fault = line] ELSE s

Unlink(s, n) ==
    IF s.fault # "none" THEN s
    ELSE IF AssertRemove(s.dl, n) THEN [s EXCEPT !.dl = dlnode_remove(@, n)]
    ELSE [s EXCEPT !.fault = "dlist.c:50"]

InsertBetween(s, p, n, q) ==
    IF s.fault # "none" THEN s
    ELSE IF AssertInsert(s.dl, p, n, q) THEN [s EXCEPT !.dl = dlnode_insert(@, p, n, q)]
    ELSE [s EXCEPT !.fault = "dlist.c:19"]

InsertFirst(s, l, n) == InsertBetween(s, l, n, s.dl.next[l])
InsertLast(s, l, n) == InsertBetween(s, s.dl.prev[l], n, l)
MoveTo(s, l, n) == InsertLast(Unlink(s, n), l, n)

IsEmpty(s, l) == dlist_is_empty(s.dl, l)
First(s, l) == dlist_first(s.dl, l)

memcell_to_roots_unproc(s, c) == InsertBetween(s, s.dl.prev[Sentinel], c, Sentinel)
memcell_to_roots_proc(s, c) == InsertBetween(s, Sentinel, c, s.dl.next[Sentinel])
memcell_to_boundary(s, c) == InsertLast(s, "boundary", c)
memcell_to_free_pending_First(s, c) == InsertFirst(s, "free_pending", c)    \* mutant
memcell_to_free_pending(s, c) == InsertLast(s, "free_pending", c)
memcell_to_reachable(s, c) == InsertLast(s, s.reachable, c)

(* The finalizer runs before the cell goes to the free list.               *)
memcell_deinit(s, c) ==
    IF c \in s.fin THEN [s EXCEPT !.finalized[c] = @ + 1] ELSE s
memcell_free_Uncounted(s, c) ==                          \* mutant
    MoveTo([memcell_deinit(s, c) EXCEPT !.live = @ \ {c}], "free", c)
memcell_free(s, c) ==
    [MoveTo([memcell_deinit(s, c) EXCEPT !.live = @ \ {c}], "free", c) EXCEPT !.total_free = @ + 1]

-----------------------------------------------------------------------------
(* Advice, and what the link callback is run with.                         *)
memory_gc_advise_new_link(s, y) ==
    IF y = NULL THEN s
    ELSE LET counted == [s EXCEPT !.refcount[y] = @ + 1]
             checked == Check(Check(counted, y \in s.live, "memory.c:431"),
                              OwnerOf(s, y) # "free_pending", "memory.c:432")
         IN  IF OwnerOf(s, y) = Unproc(s) THEN memcell_to_boundary(Unlink(checked, y), y)
             ELSE checked

memory_gc_advise_stale_link_EvenFree(s, y) ==            \* mutant: a freed cell is freed again
    IF y = NULL THEN s
    ELSE LET awake == [s EXCEPT !.clean_cycles = 0]
             less == [awake EXCEPT !.refcount[y] = @ - 1]
         IN  IF s.refcount[y] = 0
             THEN Check(awake, OwnerOf(s, y) = "free_pending" \/ y \notin s.live, "memory.c:465")
             ELSE IF less.refcount[y] = 0 /\ y \notin s.locked
             THEN memcell_to_free_pending(Unlink(less, y), y)
             ELSE less
memory_gc_advise_stale_link(s, y) ==
    IF y = NULL THEN s
    ELSE LET awake == [s EXCEPT !.clean_cycles = 0]
             less == [awake EXCEPT !.refcount[y] = @ - 1]
         IN  IF s.refcount[y] = 0
             THEN Check(awake, OwnerOf(s, y) = "free_pending" \/ y \notin s.live, "memory.c:465")
             ELSE IF less.refcount[y] = 0 /\ y \notin s.locked /\ y \in s.live
             THEN memcell_to_free_pending(Unlink(less, y), y)
             ELSE less

dl_cb_try_move_boundary(s, y) ==
    IF y = NULL THEN s
    ELSE LET checked == Check(Check(Check(s, y \in s.live, "memory.c:519"),
                                    OwnerOf(s, y) # "free_pending", "memory.c:520"),
                              s.refcount[y] # 0, "memory.c:522")
         IN  IF OwnerOf(s, y) = Unproc(s) \/ (OwnerOf(s, y) = "roots" /\ y \notin s.locked)
             THEN memcell_to_boundary(Unlink(checked, y), y)
             ELSE checked

(* What dl_cb shows to its callback: what the slots of c hold, in order.   *)
links_cb(c) == [i \in DOMAIN SlotOrder |-> link[<<c, SlotOrder[i]>>]]

-----------------------------------------------------------------------------
(* One iteration of the collector, on a state that is not idle.            *)
Collecting_OneClean == ms.clean_cycles # 1               \* mutant: idles one cycle early
Collecting == ms.clean_cycles # 2

FreeFirst(s, l) ==
    LET c == First(s, l)
    IN  Check(memcell_free(FoldLeft(memory_gc_advise_stale_link, s, links_cb(c)), c),
              s.total_free < s.total_alloc, "memory.c:598, 656")

IteratePending(s) ==
    LET c == First(s, "free_pending")
    IN  FreeFirst(Check(s, c \notin s.locked /\ s.refcount[c] = 0, "memory.c:588, 590"),
                  "free_pending")

IterateBoundary(s) ==
    LET c == First(s, "boundary")
        checked == Check(s, c \notin s.locked /\ s.refcount[c] # 0, "memory.c:610, 611")
    IN  memcell_to_reachable(Unlink(FoldLeft(dl_cb_try_move_boundary, checked, links_cb(c)), c), c)

IterateRoot(s) ==
    LET c == First(s, "roots")
    IN  memcell_to_roots_proc(Unlink(FoldLeft(dl_cb_try_move_boundary, s, links_cb(c)), c), c)

IterateUnproc(s) ==
    FreeFirst(Check(s, First(s, Unproc(s)) \notin s.locked, "memory.c:643"), Unproc(s))

IterateReset_First(s) ==                                 \* mutant: the sentinel stays in front
    [s EXCEPT !.reachable = OtherColor(@), !.clean_cycles = @ + 1]
IterateReset_NeverClean(s) ==                            \* mutant: clean cycles are not counted
    [MoveTo(s, "roots", Sentinel) EXCEPT !.reachable = OtherColor(@)]
IterateReset(s) ==
    [MoveTo(s, "roots", Sentinel) EXCEPT !.reachable = OtherColor(@), !.clean_cycles = @ + 1]

memory_gc_iterate(s) ==
    CASE ~IsEmpty(s, "free_pending")     -> IteratePending(s)
      [] IsEmpty(s, "free_pending") /\ ~IsEmpty(s, "boundary") -> IterateBoundary(s)
      [] IsEmpty(s, "free_pending") /\ IsEmpty(s, "boundary") /\ First(s, "roots") # Sentinel
                                         -> IterateRoot(s)
      [] OTHER -> IF ~IsEmpty(s, Unproc(s)) THEN IterateUnproc(s) ELSE IterateReset(s)

-----------------------------------------------------------------------------
(* memory_request takes the first free cell, or a new one from malloc; the *)
(* constructor of a blob gives it a finalizer before anything else.        *)
memcell_init(s, c) ==
    memcell_to_roots_unproc([s EXCEPT !.live = @ \cup {c}, !.locked = @ \ {c},
                                      !.refcount = [@ EXCEPT ![c] = 0],
                                      !.fin = @ \ {c}, !.finalized = [@ EXCEPT ![c] = 0]], c)

Reused(s) ==
    LET c == First(s, "free")
        checked == Check(Check(Check(s, c \notin s.locked, "memory.c:316"),
                               AssertReuse => s.refcount[c] = 0, "memory.c:317"),
                         s.total_free # 0, "memory.c:319")
    IN  memcell_init([Unlink(checked, c) EXCEPT !.total_free = @ - 1], c)

Fresh(s, c) ==
    memcell_init([s EXCEPT !.dl = dlnode_init(@, c), !.total_alloc = @ + 1], c)

memory_gc_lock(s, c) ==
    LET flagged == [s EXCEPT !.locked = @ \cup {c}]
    IN  IF OwnerOf(s, c) = "roots" THEN flagged
        ELSE memcell_to_roots_unproc(Unlink(flagged, c), c)

memory_gc_unlock(s, c) ==
    LET out == Unlink(Check(s, OwnerOf(s, c) = "roots", "memory.c:397"), c)
        moved == IF s.refcount[c] # 0 THEN memcell_to_boundary(out, c)
                                      ELSE memcell_to_free_pending(out, c)
    IN  [moved EXCEPT !.locked = @ \ {c}, !.clean_cycles = 0]

(* memory_state_reset: the lists are emptied from the front in this order, *)
(* the free list at last and into malloc.  No link is advised any more.    *)
FreeFront(s, l) ==
    IF IsEmpty(s, l) THEN s
    ELSE IF First(s, l) = Sentinel THEN Unlink(s, Sentinel) ELSE memcell_free(s, First(s, l))
ReturnFront(s, l) == IF IsEmpty(s, l) THEN s ELSE Unlink(s, First(s, l))

(* As many turns as a list can have nodes.                                 *)
Turns(l) == [i \in 1..Cardinality(Cell) + 1 |-> l]
FreeList(s, l) == FoldLeft(FreeFront, s, Turns(l))
memory_state_reset_NoPending(s) ==                       \* mutant: one list is forgotten
    LET emptied == FoldLeft(FreeList, s, <<"roots", "boundary", "black", "white">>)
    IN  FoldLeft(ReturnFront, emptied, Turns("free"))
memory_state_reset(s) ==
    LET emptied == FoldLeft(FreeList, s, <<"free_pending", "roots", "boundary", "black", "white">>)
    IN  FoldLeft(ReturnFront, emptied, Turns("free"))

-----------------------------------------------------------------------------
(* The steps.  s is what a call makes of ms: the program goes on with it,  *)
(* or ends in it.                                                          *)
Becomes(s) ==
    /\ phase = "running"
    /\ ms' = s /\ seen' = OwnerSeen(s)
    /\ phase' = IF s.fault = "none" THEN "running" ELSE "aborted"
RootCells == {c \in Cell : OwnerOf(ms, c) = "roots"}
Held == ms.locked \cup {c \in RootCells : ms.refcount[c] = 0}
Usable == Reachable(link, Held) \cap ms.live

WithFinalizer(s, c, wanted) == IF wanted THEN [s EXCEPT !.fin = @ \cup {c}] ELSE s
Cleared(c) == [e \in Link |-> IF e[1] = c THEN NULL ELSE link[e]]

MemoryRequest(blob) ==
    /\ ~quiet
    /\ \/ /\ ~IsEmpty(ms, "free")
          /\ LET c == First(ms, "free")
             IN  /\ Becomes(WithFinalizer(Reused(ms), c, blob))
                 /\ link' = Cleared(c)
       \/ /\ IsEmpty(ms, "free")
          /\ \E c \in Cell : /\ OwnerOf(ms, c) = NULL
                             /\ Becomes(WithFinalizer(Fresh(ms, c), c, blob))
                             /\ link' = Cleared(c)
    /\ UNCHANGED quiet

(* malloc gives nothing: its result is used all the same.                  *)
OutOfMemory ==
    /\ ~quiet /\ IsEmpty(ms, "free")
    /\ Becomes([ms EXCEPT !.fault = "memory.c:330"])
    /\ UNCHANGED <<link, quiet>>

(* A blob has no links.                                                    *)
PatchLink(x, slot, y) ==
    /\ ~quiet
    /\ x \in Usable \ ms.fin /\ y \in Usable \cup {NULL}
    /\ Becomes(memory_gc_advise_stale_link(memory_gc_advise_new_link(ms, y), link[<<x, slot>>]))
    /\ link' = [link EXCEPT ![<<x, slot>>] = y]
    /\ UNCHANGED quiet

GcLock(c) ==
    /\ ~quiet /\ c \in Usable
    /\ Becomes(memory_gc_lock(ms, c))
    /\ UNCHANGED <<link, quiet>>

GcUnlock(c) ==
    /\ ~quiet /\ c \in Usable \cap RootCells
    /\ Becomes(memory_gc_unlock(ms, c))
    /\ UNCHANGED <<link, quiet>>

Iterate ==
    /\ phase = "running"
    /\ \E s \in {IF Collecting THEN memory_gc_iterate(ms) ELSE ms} : Becomes(s)
    /\ UNCHANGED <<link, quiet>>

StateReset ==
    /\ phase = "running" /\ phase' = "over"
    /\ ms' = memory_state_reset(ms) /\ seen' = OwnerSeen(ms')
    /\ UNCHANGED <<link, quiet>>

BecomeQuiet == phase = "running" /\ ~quiet /\ quiet' = TRUE /\ UNCHANGED <<ms, link, seen, phase>>

Ended == phase # "running" /\ UNCHANGED vars

Client ==
    \/ \E blob \in BOOLEAN : MemoryRequest(blob)
    \/ OutOfMemory
    \/ \E x \in Cell, slot \in Slot, y \in Cell \cup {NULL} : PatchLink(x, slot, y)
    \/ \E c \in Cell : GcLock(c) \/ GcUnlock(c)

Next == Client \/ Iterate \/ StateReset \/ BecomeQuiet \/ Ended

(* Every accessor of a node ends in an iteration (NODE_GC_ITERATE), those  *)
(* that only read too: weak fairness of Iterate, its ENABLED written out.  *)
CollectorRuns == []<>(phase # "running" \/ ~Collecting) \/ []<><<Iterate>>_vars

Spec == Init /\ [][Next]_vars /\ CollectorRuns

-----------------------------------------------------------------------------
(* On its lists, with the first cell of a list wherever Memory.tla takes   *)
(* any, the memory manager does nothing that Memory.tla does not: what is  *)
(* proved of Memory.tla holds here.  Only the reset at the end is new, and *)
(* what a failing assert leaves behind.                                    *)
Sets == INSTANCE Memory WITH
            owner <- seen, reachable_listref <- ms.reachable, refcount <- ms.refcount,
            locked <- ms.locked, clean_cycles <- ms.clean_cycles
WorksOnSets == Sets!Init /\ [][phase' # "running" \/ Sets!Next]_(Sets!vars)

TypeOK ==
    /\ ms.dl \in Dlists
    /\ ms.refcount \in [Cell -> Nat]
    /\ {ms.locked, ms.live, ms.fin} \subseteq SUBSET Cell
    /\ ms.clean_cycles \in 0..2
    /\ link \in Heap /\ ms.finalized \in [Cell -> Nat]
    /\ phase \in {"running", "aborted", "over"}

(* The lists stay whole through every sequence of calls, no assert of      *)
(* dlist.c fails in them, and the flag of memory.c:104 is right.           *)
ListsAreWhole ==
    /\ TypeOK
    /\ WellLinked(ms.dl)
    /\ ms.fault \notin {"dlist.c:19", "dlist.c:50"}
    /\ phase = "running" =>
         \A c \in Cell : c \in ms.live <=> OwnerOf(ms, c) \notin {NULL, "free"}

(* The counters that PAREN_LEAK_CHECK compares (paren.c:146-156) say how   *)
(* much memory there is and how much of it is free, so that their asserts  *)
(* (memory.c:319, 598, 656) hold.                                          *)
CountersAreExact ==
    /\ phase = "running" =>
         /\ ms.total_free = Len(Walk(ms.dl, "free"))
         /\ ms.total_alloc = Cardinality({c \in Cell : OwnerOf(ms, c) # NULL})
    /\ ms.fault \notin {"memory.c:319", "memory.c:598, 656"}

(* A finalizer runs when its memory is freed, and never again, in whatever *)
(* way it is freed: with no links, swept, or in the reset.                 *)
FinalizedOnce ==
    phase # "aborted" =>
        \A c \in ms.fin : ms.finalized[c] = IF c \in ms.live THEN 0 ELSE 1

(* memory_state_reset gives everything back, whatever state it finds.      *)
ResetReturnsAll ==
    phase = "over" => ms.fault = "none" /\ \A c \in Cell : OwnerOf(ms, c) = NULL

(* Memory that waits to be freed does not wait for ever, however busy the  *)
(* client is: new such memory queues behind it (memcell_to_free_pending).  *)
PendingIsFreed ==
    \A c \in Cell :
        (phase = "running" /\ OwnerOf(ms, c) = "free_pending")
            ~> (phase # "running" \/ OwnerOf(ms, c) # "free_pending")

(* Left alone, the collector comes to rest (memory.c:566), and before that *)
(* it frees every cell that no root reaches, garbage cycles among them, if *)
(* a link or a lock went away after the last full cycle: the two clean     *)
(* cycles of memory.c:565 are enough for these.                            *)
ComesToRest == quiet ~> (phase # "running" \/ ~Collecting)

FreesGarbage ==
    \A c \in Cell :
        (quiet /\ ms.clean_cycles = 0 /\ c \in ms.live \ Reachable(link, RootCells))
            ~> (phase # "running" \/ OwnerOf(ms, c) = "free")
=============================================================================
