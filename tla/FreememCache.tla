---------------------------- MODULE FreememCache ----------------------------
(***************************************************************************)
(* The cache of free blocks (freemem_cache.c) between a memory manager and *)
(* malloc.  A block that is returned goes to the front of a list; the next *)
(* request takes the first one on it that is long enough, and malloc is    *)
(* asked only if there is none.  A block is one address: the header in it  *)
(* and the data its client sees are fixed distances from there.            *)
(*                                                                         *)
(* free_count is left out: it is never given a first value, and nobody     *)
(* reads it.  Blocks are long enough for the list node that is laid over   *)
(* their data while they are free, as all that node.c asks for are.        *)
(***************************************************************************)
EXTENDS Naturals, FiniteSets, SequencesExt

CONSTANTS
    Block,     \* what malloc can hand out
    MaxLen,    \* the longest block that is asked for
    NULL

ASSUME FreememAssumption == MaxLen \in Nat

VARIABLES
    dl,            \* the pointers of free_list
    len,           \* free_mem_cell_t.len
    malloced,      \* the blocks that malloc has handed out
    asked,         \* history: how much its client asked for, 0 if it has none
    alloc_count,
    phase          \* "open", or how the cache ended

vars == <<dl, len, malloced, asked, alloc_count, phase>>

INSTANCE Dlist WITH List <- {"free_list"}, Item <- Block
ASSUME BlockAssumption == NodesAreDistinct /\ IsFiniteSet(Block)

free_list == Walk(dl, "free_list")

TypeOK ==
    /\ dl \in Dlists
    /\ len \in [Block -> 0..MaxLen]
    /\ malloced \subseteq Block
    /\ asked \in [Block -> 0..MaxLen]
    /\ alloc_count \in Nat
    /\ phase \in {"open", "reset", "undefined"}

Init ==
    /\ dl = dlist_init
    /\ len = [b \in Block |-> 0]
    /\ malloced = {}
    /\ asked = [b \in Block |-> 0]
    /\ alloc_count = 0
    /\ phase = "open"

Fits(n) == {i \in DOMAIN free_list : len[free_list[i]] >= n}

Reuse_First(n) ==                                        \* mutant: any block will do
    /\ phase = "open" /\ free_list # <<>>
    /\ LET b == Head(free_list)
       IN  dl' = dlnode_remove(dl, b) /\ asked' = [asked EXCEPT ![b] = n]
    /\ UNCHANGED <<len, malloced, alloc_count, phase>>

Reuse_StaysListed(n) ==                                  \* mutant: the block stays on the list
    /\ phase = "open"
    /\ \E i \in Fits(n) :
         /\ \A j \in Fits(n) : i <= j
         /\ asked' = [asked EXCEPT ![free_list[i]] = n]
    /\ UNCHANGED <<dl, len, malloced, alloc_count, phase>>

(* fmcache_request: the first block on the list that is long enough ...    *)
Reuse(n) ==
    /\ phase = "open"
    /\ \E i \in Fits(n) :
         /\ \A j \in Fits(n) : i <= j
         /\ dl' = dlnode_remove(dl, free_list[i])
         /\ asked' = [asked EXCEPT ![free_list[i]] = n]
    /\ UNCHANGED <<len, malloced, alloc_count, phase>>

(* ... or a new one, or none.                                              *)
Allocate(n) ==
    /\ phase = "open" /\ Fits(n) = {}
    /\ \E b \in Block \ malloced :
         /\ malloced' = malloced \cup {b}
         /\ len' = [len EXCEPT ![b] = n]
         /\ asked' = [asked EXCEPT ![b] = n]
    /\ alloc_count' = alloc_count + 1
    /\ UNCHANGED <<dl, phase>>

NoMemory(n) == phase = "open" /\ Fits(n) = {} /\ UNCHANGED vars

(* fmcache_return *)
Return(b) ==
    /\ phase = "open" /\ asked[b] # 0
    /\ dl' = dlist_insertfirst(dlnode_init(dl, b), "free_list", b)
    /\ asked' = [asked EXCEPT ![b] = 0]
    /\ UNCHANGED <<len, malloced, alloc_count, phase>>

(* fmcache_state_reset frees the address of the list node, which is not    *)
(* the address that malloc gave: only an empty cache survives that.        *)
Reset ==
    /\ phase = "open"
    /\ \/ dlist_is_empty(dl, "free_list") /\ phase' = "reset" /\ alloc_count' = 0
       \/ ~dlist_is_empty(dl, "free_list") /\ phase' = "undefined" /\ UNCHANGED alloc_count
    /\ UNCHANGED <<dl, len, malloced, asked>>

Over == phase # "open" /\ UNCHANGED vars

Next ==
    \/ \E n \in 1..MaxLen : Reuse(n) \/ Allocate(n) \/ NoMemory(n)
    \/ \E b \in Block : Return(b)
    \/ Reset \/ Over

Spec == Init /\ [][Next]_vars

-----------------------------------------------------------------------------
(* What the list operations rely on and leave: no block is linked one way  *)
(* only, and none that says it is on the list is lost from it, whichever   *)
(* of them a first fit takes out of the middle (freemem_cache.c:52-64).    *)
ListIsWhole == WellLinked(dl)

(* Every block that malloc gave is either with one client or on the list,  *)
(* once, and the count of them is right until the cache is reset.          *)
BlocksAccountedFor ==
    /\ TypeOK
    /\ malloced = ToSet(free_list) \cup {b \in Block : asked[b] # 0}
    /\ \A b \in ToSet(free_list) : asked[b] = 0
    /\ phase = "open" => alloc_count = Cardinality(malloced)

(* Clients get what an allocator promises them: a block of their own that  *)
(* is long enough, also when it was longer or shorter for another one.     *)
Promise == INSTANCE Allocator WITH size <- len
GivesFittingBlocks == Promise!Spec
=============================================================================
