------------------------- MODULE FreememCache_proofs -------------------------
(***************************************************************************)
(* The cache of free blocks, for any finite number of blocks of any        *)
(* length: the list stays whole, no block is lost or in two hands, and     *)
(* clients get what Allocator promises them.                               *)
(***************************************************************************)
EXTENDS FreememCache, FiniteSetTheorems, TLAPS

(* The facts about the lists, for the one list that there is here.  That   *)
(* they are about the same operators is said first.                        *)
LOCAL DP == INSTANCE Dlist_proofs WITH List <- {"free_list"}, Item <- Block

(* Both instances of Dlist agree on what a list of blocks is.              *)
LEMMA SameLists ==
    /\ DP!NodesAreDistinct <=> NodesAreDistinct
    /\ DP!IsFiniteSet(Block) <=> IsFiniteSet(Block)
    /\ \A h : DP!WellLinked(h) <=> WellLinked(h)
    /\ \A h : DP!Members(h, "free_list") = Members(h, "free_list")
<1>1. \A h : DP!WellLinked(h) <=> WellLinked(h)
  BY DEF DP!WellLinked, WellLinked, DP!IsRing, IsRing, DP!OnItsList, OnItsList, DP!ClosedUnderNext,
         ClosedUnderNext, DP!Members, Members, DP!Linked, Linked, DP!Dlists, Dlists, DP!DlNode, DlNode
<1>2. DP!IsFiniteSet(Block) <=> IsFiniteSet(Block)
  BY DEF DP!IsFiniteSet, IsFiniteSet
<1> QED
  BY <1>1, <1>2 DEF DP!NodesAreDistinct, NodesAreDistinct, DP!Members, Members

(* The loop over free_list meets the blocks that are on it, and them only. *)
LEMMA FreeListIsItsMembers ==
    ASSUME NEW h, WellLinked(h)
    PROVE  /\ Walk(h, "free_list") \in Seq(Block)
           /\ ToSet(Walk(h, "free_list")) = Members(h, "free_list")
<1>1. DP!Walk(h, "free_list") = Walk(h, "free_list")
  BY DEF DP!Walk, Walk, DP!dlist_first, dlist_first, DP!dlnode_is_terminal, dlnode_is_terminal,
         DP!Cardinality, Cardinality
<1>2. /\ DP!Walk(h, "free_list") \in Seq(Block)
      /\ {DP!Walk(h, "free_list")[i] : i \in DOMAIN DP!Walk(h, "free_list")} = DP!Members(h, "free_list")
  BY SameLists, BlockAssumption, DP!WalkMeetsEachOnce
<1> QED
  BY <1>1, <1>2, SameLists DEF ToSet

(* A block that is taken leaves the list, and only it.                     *)
LEMMA TakingKeepsWhole ==
    ASSUME NEW h, WellLinked(h), NEW b \in Members(h, "free_list")
    PROVE  /\ WellLinked(dlnode_remove(h, b))
           /\ Members(dlnode_remove(h, b), "free_list") = Members(h, "free_list") \ {b}
<1>1. DP!dlnode_remove(h, b) = dlnode_remove(h, b)
  BY DEF DP!dlnode_remove, dlnode_remove, DP!dlnode_join, dlnode_join
<1>2. b \in Block /\ DP!AssertRemove(h, b)
  BY BlockAssumption DEF Members, DP!AssertRemove, NodesAreDistinct
<1>3. DP!WellLinked(DP!dlnode_remove(h, b))
  BY <1>2, SameLists, BlockAssumption, DP!RemoveKeepsWhole
<1>4. DP!Members(DP!dlnode_remove(h, b), "free_list") = DP!Members(h, "free_list") \ {b}
  BY <1>2, SameLists, BlockAssumption, DP!RemoveMembers
<1> QED
  BY <1>1, <1>3, <1>4, SameLists

(* A block that comes back, whatever its client left in the pointers,      *)
(* joins the list, and only it.                                            *)
LEMMA ReturningKeepsWhole ==
    ASSUME NEW h, WellLinked(h), NEW b \in Block, h.owner[b] = NULL
    PROVE  /\ WellLinked(dlist_insertfirst(dlnode_init(h, b), "free_list", b))
           /\ Members(dlist_insertfirst(dlnode_init(h, b), "free_list", b), "free_list")
                = Members(h, "free_list") \cup {b}
<1> DEFINE g == dlnode_init(h, b)
<1>1. DP!dlnode_init(h, b) = g
  BY DEF DP!dlnode_init, dlnode_init
<1>2. DP!WellLinked(g) /\ g.owner = h.owner
  BY <1>1, SameLists, BlockAssumption, DP!FreshPointersKeepWhole
<1> HIDE DEF g
<1>3. DP!dlist_insertfirst(g, "free_list", b) = dlist_insertfirst(g, "free_list", b)
  BY DEF DP!dlist_insertfirst, dlist_insertfirst, DP!dlnode_insertnext, dlnode_insertnext,
         DP!dlnode_insert, dlnode_insert, DP!dlnode_join, dlnode_join
<1>4. /\ DP!WellLinked(DP!dlist_insertfirst(g, "free_list", b))
      /\ DP!Members(DP!dlist_insertfirst(g, "free_list", b), "free_list")
           = DP!Members(g, "free_list") \cup {b}
  <2>1. "free_list" \in {"free_list"} /\ g.owner[b] = NULL
    BY <1>2
  <2> QED
    BY <1>2, <2>1, SameLists, BlockAssumption, DP!InsertFirstKeepsWhole
<1>5. Members(g, "free_list") = Members(h, "free_list")
  BY <1>2 DEF Members
<1> QED
  BY <1>3, <1>4, <1>5, SameLists DEF g

-----------------------------------------------------------------------------
(* The inductive invariant: a block is on the list or with a client, never *)
(* both, and malloc gave those and no others.                              *)
OnList == Members(dl, "free_list")
WithClients == {b \in Block : asked[b] # 0}

CacheInv ==
    /\ TypeOK
    /\ WellLinked(dl)
    /\ malloced = OnList \cup WithClients
    /\ OnList \cap WithClients = {}
    /\ phase = "open" => alloc_count = Cardinality(malloced)

LEMMA InitIsSound == Init => CacheInv
<1> SUFFICES ASSUME Init PROVE CacheInv
  OBVIOUS
<1>1. WellLinked(dl)
  <2>1. DP!dlist_init = dlist_init
    BY DEF DP!dlist_init, dlist_init, DP!Header, Header, DP!DlNode, DlNode
  <2> QED
    BY <2>1, SameLists, BlockAssumption, DP!InitIsWhole DEF Init
<1>2. OnList = {}
  BY BlockAssumption DEF OnList, Members, Init, dlist_init, Header, DlNode, NodesAreDistinct
<1>3. TypeOK
  BY <1>1, FreememAssumption DEF TypeOK, Init, WellLinked
<1> QED
  BY <1>1, <1>2, <1>3, FS_EmptySet DEF CacheInv, WithClients, Init

(* A block is taken off the list: it was there, so no client had it.       *)
LEMMA ReuseIsSound ==
    ASSUME CacheInv, NEW n \in 1..MaxLen, Reuse(n)
    PROVE  /\ CacheInv'
           /\ \E b \in Block : /\ asked[b] = 0 /\ n <= len[b]
                               /\ asked' = [asked EXCEPT ![b] = n]
<1>1. PICK i \in Fits(n) : /\ dl' = dlnode_remove(dl, free_list[i])
                           /\ asked' = [asked EXCEPT ![free_list[i]] = n]
  BY DEF Reuse
<1> DEFINE b == free_list[i]
<1>2. i \in DOMAIN free_list /\ len[b] >= n
  BY DEF Fits
<1>3. b \in OnList
  BY <1>2, FreeListIsItsMembers DEF CacheInv, ToSet, free_list, OnList
<1> HIDE DEF b
<1>4. b \in Block /\ b \notin WithClients /\ asked[b] = 0
  BY <1>3 DEF CacheInv, OnList, WithClients, Members
<1>5. WellLinked(dl') /\ OnList' = OnList \ {b}
  BY <1>1, <1>3, TakingKeepsWhole DEF CacheInv, OnList, b
<1>6. n # 0 /\ n \in 0..MaxLen
  BY FreememAssumption
<1>7. asked' \in [Block -> 0..MaxLen] /\ WithClients' = WithClients \cup {b}
  BY <1>1, <1>4, <1>6 DEF CacheInv, TypeOK, WithClients, b
<1>8. UNCHANGED <<len, malloced, alloc_count, phase>>
  BY DEF Reuse
<1>9. CacheInv'
  BY <1>3, <1>5, <1>7, <1>8 DEF CacheInv, TypeOK, WellLinked
<1> QED
  BY <1>1, <1>2, <1>4, <1>9, FreememAssumption DEF CacheInv, TypeOK, b

LEMMA AllocateIsSound ==
    ASSUME CacheInv, NEW n \in 1..MaxLen, Allocate(n)
    PROVE  /\ CacheInv'
           /\ \E b \in Block : /\ asked[b] = 0
                               /\ len' = [len EXCEPT ![b] = n]
                               /\ asked' = [asked EXCEPT ![b] = n]
<1>1. PICK b \in Block \ malloced : /\ malloced' = malloced \cup {b}
                                    /\ len' = [len EXCEPT ![b] = n]
                                    /\ asked' = [asked EXCEPT ![b] = n]
  BY DEF Allocate
<1>2. phase = "open" /\ alloc_count' = alloc_count + 1 /\ UNCHANGED <<dl, phase>>
  BY DEF Allocate
<1>3. b \notin OnList /\ b \notin WithClients /\ asked[b] = 0
  BY <1>1 DEF CacheInv, WithClients
<1>4. n # 0 /\ n \in 0..MaxLen
  BY FreememAssumption
<1>5. len' \in [Block -> 0..MaxLen] /\ asked' \in [Block -> 0..MaxLen] /\ WithClients' = WithClients \cup {b}
  BY <1>1, <1>4 DEF CacheInv, TypeOK, WithClients
<1>6. OnList' = OnList
  BY <1>2 DEF OnList
<1>7. Cardinality(malloced') = Cardinality(malloced) + 1
  <2>1. IsFiniteSet(malloced)
    BY BlockAssumption, FS_Subset DEF CacheInv, TypeOK
  <2> QED
    BY <1>1, <2>1, FS_AddElement
<1>8. CacheInv'
  BY <1>1, <1>2, <1>3, <1>5, <1>6, <1>7 DEF CacheInv, TypeOK, WellLinked
<1> QED
  BY <1>1, <1>3, <1>8

LEMMA ReturnIsSound ==
    ASSUME CacheInv, NEW b \in Block, Return(b)
    PROVE  CacheInv'
<1>1. /\ asked[b] # 0 /\ asked' = [asked EXCEPT ![b] = 0]
      /\ dl' = dlist_insertfirst(dlnode_init(dl, b), "free_list", b)
      /\ UNCHANGED <<len, malloced, alloc_count, phase>>
  BY DEF Return
<1>2. b \in WithClients /\ b \notin OnList
  BY <1>1 DEF CacheInv, WithClients
<1>3. dl.owner[b] = NULL
  <2>1. dl.owner[b] \in {"free_list", NULL}
    BY DEF CacheInv, TypeOK, Dlists, DlNode
  <2> QED
    BY <1>2, <2>1 DEF OnList, Members
<1>4. WellLinked(dl') /\ OnList' = OnList \cup {b}
  BY <1>1, <1>3, ReturningKeepsWhole DEF CacheInv, OnList
<1>5. asked' \in [Block -> 0..MaxLen] /\ WithClients' = WithClients \ {b}
  BY <1>1, FreememAssumption DEF CacheInv, TypeOK, WithClients
<1> QED
  BY <1>1, <1>2, <1>4, <1>5 DEF CacheInv, TypeOK, WellLinked

LEMMA ResetIsSound ==
    ASSUME CacheInv, Reset
    PROVE  CacheInv'
<1>1. /\ UNCHANGED <<dl, len, malloced, asked>>
      /\ phase' \in {"reset", "undefined"} /\ alloc_count' \in {0, alloc_count}
  BY DEF Reset
<1> QED
  BY <1>1 DEF CacheInv, TypeOK, OnList, WithClients

LEMMA StutterIsSound ==
    ASSUME CacheInv, UNCHANGED vars
    PROVE  CacheInv'
BY DEF CacheInv, TypeOK, OnList, WithClients, vars

(* Every operation keeps the list whole and each block in one place.       *)
THEOREM StepIsSound == CacheInv /\ [Next]_vars => CacheInv'
<1> SUFFICES ASSUME CacheInv, [Next]_vars PROVE CacheInv'
  OBVIOUS
<1>1. ASSUME NEW n \in 1..MaxLen, Reuse(n) PROVE CacheInv'
  BY <1>1, ReuseIsSound
<1>2. ASSUME NEW n \in 1..MaxLen, Allocate(n) PROVE CacheInv'
  BY <1>2, AllocateIsSound
<1>3. ASSUME NEW b \in Block, Return(b) PROVE CacheInv'
  BY <1>3, ReturnIsSound
<1>4. CASE Reset
  BY <1>4, ResetIsSound
<1>5. CASE UNCHANGED vars
  BY <1>5, StutterIsSound
<1> QED
  BY <1>1, <1>2, <1>3, <1>4, <1>5 DEF Next, NoMemory, Over

(* The inductive invariant holds in every state of the cache.              *)
THEOREM CacheIsSound == Spec => []CacheInv
BY InitIsSound, StepIsSound, PTL DEF Spec

-----------------------------------------------------------------------------
(* Whichever block a first fit takes out of the middle of the list, and    *)
(* however its client used the space of the list node, the list is whole   *)
(* (freemem_cache.c:52-64).                                                *)
THEOREM ListStaysWhole == Spec => []ListIsWhole
<1>1. CacheInv => ListIsWhole
  BY DEF CacheInv, ListIsWhole
<1> QED
  BY <1>1, CacheIsSound, PTL

(* No block that malloc gave is lost, none is in two hands, and they are   *)
(* counted.                                                                *)
THEOREM BlocksStayAccountedFor == Spec => []BlocksAccountedFor
<1>1. CacheInv => BlocksAccountedFor
  <2> SUFFICES ASSUME CacheInv PROVE BlocksAccountedFor
    OBVIOUS
  <2>1. ToSet(free_list) = OnList
    BY FreeListIsItsMembers DEF CacheInv, free_list, OnList
  <2>2. \A b \in OnList : asked[b] = 0
    BY DEF CacheInv, OnList, WithClients, Members
  <2> QED
    BY <2>1, <2>2 DEF CacheInv, BlocksAccountedFor, WithClients
<1> QED
  BY <1>1, CacheIsSound, PTL

(* The cache implements Allocator: a request is served with one block that *)
(* nobody has and that is long enough, a return takes one back, and        *)
(* nothing else changes the length of a block that a client has.           *)
THEOREM CacheImplementsAllocator == Spec => GivesFittingBlocks
<1>1. Init => Promise!Init
  BY FreememAssumption DEF Init, Promise!Init, Promise!Sizes
<1>2. CacheInv /\ [Next]_vars => [Promise!Next]_(Promise!vars)
  <2> SUFFICES ASSUME CacheInv, [Next]_vars PROVE [Promise!Next]_(Promise!vars)
    OBVIOUS
  <2>1. ASSUME NEW n \in 1..MaxLen, Reuse(n) PROVE \E b \in Block : Promise!Request(b, n)
    <3>1. PICK b \in Block : asked[b] = 0 /\ n <= len[b] /\ asked' = [asked EXCEPT ![b] = n]
      BY <2>1, ReuseIsSound
    <3>2. len' = len /\ len \in [Block -> 0..MaxLen]
      BY <2>1 DEF Reuse, CacheInv, TypeOK
    <3> QED
      BY <3>1, <3>2, FreememAssumption DEF Promise!Request, Promise!Given, Promise!Sizes
  <2>2. ASSUME NEW n \in 1..MaxLen, Allocate(n) PROVE \E b \in Block : Promise!Request(b, n)
    <3>1. PICK b \in Block : /\ asked[b] = 0 /\ len' = [len EXCEPT ![b] = n]
                             /\ asked' = [asked EXCEPT ![b] = n]
      BY <2>2, AllocateIsSound
    <3>2. len \in [Block -> 0..MaxLen] /\ n \in 0..MaxLen /\ n >= n
      BY FreememAssumption DEF CacheInv, TypeOK
    <3>3. /\ len' \in [Block -> 0..MaxLen] /\ len'[b] >= n
          /\ \A c \in Block : c # b => len'[c] = len[c]
      BY <3>1, <3>2
    <3> QED
      BY <3>1, <3>3 DEF Promise!Request, Promise!Given, Promise!Sizes
  <2>3. ASSUME NEW b \in Block, Return(b) PROVE Promise!Return(b)
    BY <2>3 DEF Return, Promise!Return, Promise!Given, Promise!Sizes, CacheInv, TypeOK
  <2>4. CASE Reset \/ UNCHANGED vars
    BY <2>4 DEF Reset, vars, Promise!vars
  <2> QED
    BY <2>1, <2>2, <2>3, <2>4 DEF Next, NoMemory, Over, Promise!Next
<1> QED
  BY <1>1, <1>2, CacheIsSound, PTL DEF Spec, GivesFittingBlocks, Promise!Spec
=============================================================================
